----------------------------- MODULE Verifiers -----------------------------
(* The credential verifiers of internal/verifier: a chain that is asked in *)
(* order, and four kinds of caches behind it.  The bearer and the opaque   *)
(* verifier keep the tokens of a directory, keyed by its modification time;*)
(* the HMAC verifier keeps the secret of a client file; the JWT validator  *)
(* keeps the published keys of an issuer; the callout validator keeps      *)
(* affirmative answers of a service for a while.  Requests run through the *)
(* chain while the operator and the services change what is valid.         *)
(* A credential that is malformed, expired or signed by nobody is one that *)
(* no directory, issuer or service knows.                                  *)
EXTENDS Naturals, Sequences, FiniteSets, Functions

CONSTANTS
    Requests,      \* the goroutines that check credentials
    Creds,         \* tokens, secrets, keys and sessions
    Files,         \* the file names of the token directories
    Chains,        \* the configured chains: sequences over VerifierNames
    Policies,      \* upload policies: "full", and "skip" (skip_body_hmac)
    None,          \* no credential, or no file
    ConfiguredTTL, \* the cache_ttl of the callout validator
    DefaultTTL,    \* 30 s
    Timeout,       \* how long one callout may take
    MaxChanges,    \* bound: changes of the world, divided by the length of the chain
    MaxTime        \* bound: the clock

Dirs == {"bearer", "opaque"}
VerifierNames == Dirs \cup {"hmac", "jwt", "callout"}

ASSUME VerifiersAssumption ==
    /\ Chains \subseteq Seq(VerifierNames)
    /\ None \notin Creds
    /\ "full" \in Policies
    /\ ConfiguredTTL \in Nat /\ DefaultTTL \in Nat /\ Timeout \in Nat
    /\ MaxChanges \in Nat /\ MaxTime \in Nat \ {0}

VARIABLES
    chain,         \* the chain that main() built
    world,         \* the files, the issuer and the service
    cache,         \* what the verifiers remember
    req,           \* the requests
    loop,          \* the refresh loop of the JWT validator
    now,
    held,          \* history: what the world said of a credential during the request
    revoked,       \* history: when the service revoked a session
    blurred,       \* history: a change the modification time does not tell of
    moved          \* history: a token was put into a second file

vars == <<chain, world, cache, req, loop, now, held, revoked, blurred, moved>>

Directory == [files : [Files -> Creds \cup {None}], mtime : Nat, present : BOOLEAN]
\* NewCalloutValidator: the documented 0 ("disable caching") is taken for unset.
CacheTTL == IF ConfiguredTTL = 0 THEN DefaultTTL ELSE ConfiguredTTL

World == [dir : [Dirs -> Directory], secret : Creds \cup {None}, mtime : Nat,
          published : SUBSET Creds, live : SUBSET Creds, changes : 0..MaxChanges]
\* skipped is history: the tokens of the files that the reload could not read.
Cache == [tokens : [Dirs -> SUBSET Creds], dirMod : [Dirs -> Nat],
          skipped : [Dirs -> SUBSET Creds],
          secret : Creds \cup {None}, mtime : Nat,      \* mtime 0: no entry
          keys : SUBSET Creds, expires : [Creds -> Nat]]
Steps == {"idle", "chain", "compare", "list", "stat", "read", "store", "lookup",
          "body", "fetch", "swap", "relook", "call", "answer",
          "accepted", "rejected"}
Request == [at : Steps, i : Nat, creds : [VerifierNames -> Creds \cup {None}],
            policy : Policies, mtime : Nat,
            names : SUBSET Files, set : SUBSET Creds, skipped : SUBSET Creds,
            since : Nat, quiet : BOOLEAN, failed : SUBSET VerifierNames, done : Nat]

Tokens(d) == Range(world.dir[d].files) \ {None}

\* NewBearerVerifier, NewOpaqueValidator and NewJWTValidator load once before the
\* first request; NewHMACVerifier and NewCalloutValidator start empty.
Loaded(skipped) ==
    [tokens |-> [d \in Dirs |-> Tokens(d) \ skipped],
     skipped |-> [d \in Dirs |-> skipped], dirMod |-> [d \in Dirs |-> world.dir[d].mtime],
     secret |-> None, mtime |-> 0, keys |-> world.published,
     expires |-> [c \in Creds |-> 0]]

Idle == [at |-> "idle", i |-> 0, creds |-> [v \in VerifierNames |-> None],
         policy |-> "full", mtime |-> 0, names |-> {}, set |-> {}, skipped |-> {},
         since |-> 0, quiet |-> TRUE, failed |-> {}, done |-> 0]

Init ==
    /\ chain \in Chains
    /\ \E c \in Creds, f \in Files :
          world = [dir |-> [d \in Dirs |-> [files |-> [g \in Files |-> IF g = f THEN c ELSE None],
                                            mtime |-> 1, present |-> TRUE]],
                   secret |-> c, mtime |-> 1, published |-> {c}, live |-> {c}, changes |-> 0]
    /\ \E skipped \in SUBSET Tokens("bearer") :
          /\ skipped # {} => Range(chain) \cap Dirs # {}
          /\ cache = Loaded(skipped)
    /\ req = [r \in Requests |-> Idle]
    /\ loop = {} /\ now = 1
    /\ held = [r \in Requests |-> [v \in VerifierNames |-> {}]]
    /\ revoked = [c \in Creds |-> 0]
    /\ blurred = FALSE /\ moved = FALSE

-----------------------------------------------------------------------------
(* What the world says of a credential.                                    *)

\* A directory that cannot be read says nothing: the last set stays in force.
Says(w, v, c) ==
    {yes \in BOOLEAN :
        \/ v \in Dirs /\ (w.dir[v].present => (yes <=> c \in Range(w.dir[v].files)))
        \/ v = "hmac" /\ (yes <=> c = w.secret)
        \/ v = "jwt" /\ (yes <=> c \in w.published)
        \/ v = "callout" /\ (yes <=> c \in w.live)}

Running(r) == req[r].at \notin {"idle", "accepted", "rejected"}

\* A step remembers what the world says of the credentials of running requests.
Remember ==
    held' = [r \in Requests |-> [v \in VerifierNames |->
        IF req'[r].creds[v] = None THEN {}
        ELSE IF ~Running(r) /\ req'[r].at = req[r].at THEN held[r][v]
        ELSE (IF Running(r) THEN held[r][v] ELSE {})
             \cup Says(world', v, req'[r].creds[v])]]

-----------------------------------------------------------------------------
(* The operator, the issuer and the service.                               *)

Installed(v) == \E i \in 1..Len(chain) : chain[i] = v
Changed(w) ==
    /\ world.changes * Len(chain) < MaxChanges
    /\ world' = [w EXCEPT !.changes = @ + 1]
    /\ UNCHANGED <<chain, cache, req, loop, now>>

\* A file dropped into a token directory, replaced by a rename or removed: the
\* modification time of the directory moves.
PutFile ==
    \E d \in Dirs, f \in Files, c \in Creds \cup {None} :
        /\ Installed(d) /\ world.dir[d].present /\ world.dir[d].files[f] # c
        /\ Changed([world EXCEPT !.dir[d].files[f] = c, !.dir[d].mtime = @ + 1])
        /\ moved' = (moved \/ c \in Tokens(d))
        /\ UNCHANGED <<revoked, blurred>>

\* A token file overwritten in place: the directory keeps its modification time.
OverwriteFile ==
    \E d \in Dirs, f \in Files, c \in Creds :
        /\ Installed(d) /\ world.dir[d].present /\ world.dir[d].files[f] \notin {None, c}
        /\ Changed([world EXCEPT !.dir[d].files[f] = c])
        /\ blurred' = TRUE
        /\ UNCHANGED <<revoked, moved>>

\* The directory cannot be read for a while.
HideDirectory ==
    \E d \in Dirs :
        /\ Installed(d)
        /\ Changed([world EXCEPT !.dir[d].present = ~@])
        /\ UNCHANGED <<revoked, blurred, moved>>

\* The secret file of the client, overwritten or removed.
PutSecret ==
    \E c \in Creds \cup {None} :
        /\ Installed("hmac") /\ c # world.secret
        /\ Changed([world EXCEPT !.secret = c, !.mtime = @ + 1])
        /\ UNCHANGED <<revoked, blurred, moved>>

\* The issuer publishes other keys.
RotateKeys ==
    \E keys \in SUBSET Creds :
        /\ Installed("jwt") /\ keys # world.published
        /\ Changed([world EXCEPT !.published = keys])
        /\ UNCHANGED <<revoked, blurred, moved>>

\* The service revokes a session.
Revoke ==
    \E c \in world.live :
        /\ Installed("callout")
        /\ Changed([world EXCEPT !.live = @ \ {c}])
        /\ revoked' = [revoked EXCEPT ![c] = now]
        /\ UNCHANGED <<blurred, moved>>

-----------------------------------------------------------------------------
(* The chain.                                                              *)

Consulted(r) == chain[req[r].i]
At(r, step, vs) == req[r].at = step /\ Consulted(r) \in vs
Cred(r) == req[r].creds[Consulted(r)]
OnlyReq == UNCHANGED <<chain, world, cache, loop, now, revoked, blurred, moved>>
Goto(r, step) == req' = [req EXCEPT ![r].at = step]

\* The verdict of the verifier: the first acceptance ends the chain, a rejection
\* passes the request on, and a request that nobody accepted is rejected.
Answer(r, ok, q) ==
    LET next == IF ok THEN "accepted" ELSE IF q.i = Len(chain) THEN "rejected" ELSE "chain" IN
    req' = [req EXCEPT ![r] = [q EXCEPT !.at = next, !.mtime = 0, !.names = {}, !.set = {},
                                        !.skipped = {}, !.since = 0,
                                        !.i = IF next = "chain" THEN @ + 1 ELSE @,
                                        !.done = IF next = "chain" THEN 0 ELSE now]]

Verdict(r, ok) == Answer(r, ok, req[r])

\* A rejection for want of an answer, of a file or of the body.
Failed(r) == [req[r] EXCEPT !.failed = @ \cup {Consulted(r)}]

Loading(q) == req[q].at \in {"list", "stat", "read", "store", "fetch", "swap"}

\* A request reaches credentialAccepted, with a credential for some of the
\* verifiers of the chain.
Arrive(r) ==
    /\ ~Running(r)
    /\ \E c \in Creds, vs \in (SUBSET Range(chain)) \ {{}}, p \in Policies :
          /\ "hmac" \notin vs => p = "full"                  \* nobody else looks
          /\ req' = [req EXCEPT ![r] =
                [Idle EXCEPT !.at = "chain", !.i = 1, !.policy = p,
                             !.creds = [v \in VerifierNames |-> IF v \in vs THEN c ELSE None],
                             !.quiet = loop = {} /\ \A q \in Requests \ {r} : ~Loading(q)]]
    /\ OnlyReq

\* VerifyExcept passes over the HMAC verifier.
Excepted(q, v) == v = "hmac" /\ q.policy = "skip"

\* The header or cookie is absent, or the policy leaves the verifier out.
PassOver(r) ==
    /\ req[r].at = "chain"
    /\ (Cred(r) = None \/ Excepted(req[r], Consulted(r)))
    /\ Verdict(r, FALSE)
    /\ OnlyReq

Presented(r, vs) ==
    At(r, "chain", vs) /\ Cred(r) # None /\ ~Excepted(req[r], Consulted(r))

-----------------------------------------------------------------------------
(* The bearer and the opaque verifier.                                     *)

\* maybeReload: stat the directory; without it the last set stays in force.
StatToken(r, d) ==
    /\ Presented(r, {d})
    /\ IF world.dir[d].present
       THEN req' = [req EXCEPT ![r].at = "compare", ![r].mtime = world.dir[d].mtime]
       ELSE Goto(r, "lookup")
    /\ OnlyReq

StatBearer(r) == StatToken(r, "bearer")
StatOpaque(r) == StatToken(r, "opaque")

CompareTime(r) ==
    /\ At(r, "compare", Dirs)
    /\ Goto(r, IF req[r].mtime = cache.dirMod[Consulted(r)] THEN "lookup" ELSE "list")
    /\ OnlyReq

Names(d) == {f \in Files : world.dir[d].files[f] # None}

\* reload: list the names, take the modification time, read the files, store.
\* Its errors are ignored: the last set stays in force.  A file that cannot be read
\* is left out, and what remains is stored with the time of the directory.
ListFiles(r) ==
    /\ At(r, "list", Dirs)
    /\ IF world.dir[Consulted(r)].present
       THEN req' = [req EXCEPT ![r].at = "stat", ![r].names = Names(Consulted(r))]
       ELSE Goto(r, "lookup")
    /\ OnlyReq

StatListed(r) ==
    /\ At(r, "stat", Dirs)
    /\ LET d == world.dir[Consulted(r)] IN
       /\ IF d.present
          THEN req' = [req EXCEPT ![r].at = "read", ![r].mtime = d.mtime]
          ELSE Goto(r, "lookup")
       /\ blurred' = (blurred \/ (d.present /\ req[r].names # Names(Consulted(r))))
    /\ UNCHANGED <<chain, world, cache, loop, now, revoked, moved>>

ReadFiles(r) ==
    /\ At(r, "read", Dirs)
    /\ LET read(fs) == {world.dir[Consulted(r)].files[f] : f \in fs} \ {None} IN
       \E bad \in SUBSET req[r].names :
          LET set == read(req[r].names \ bad) IN
          req' = [req EXCEPT ![r].at = "store", ![r].set = set,
                             ![r].skipped = read(req[r].names) \ set]
    /\ OnlyReq

StoreTokens(r) ==
    /\ At(r, "store", Dirs)
    /\ cache' = [cache EXCEPT !.tokens[Consulted(r)] = req[r].set,
                              !.skipped[Consulted(r)] = req[r].skipped,
                              !.dirMod[Consulted(r)] = req[r].mtime]
    /\ Goto(r, "lookup")
    /\ UNCHANGED <<chain, world, loop, now, revoked, blurred, moved>>

LookupToken(r, d) ==
    /\ At(r, "lookup", {d})
    /\ Answer(r, Cred(r) \in cache.tokens[d],
              IF Cred(r) \in cache.skipped[d] THEN Failed(r) ELSE req[r])
    /\ OnlyReq

LookupBearer(r) == LookupToken(r, "bearer")
LookupOpaque(r) == LookupToken(r, "opaque")

-----------------------------------------------------------------------------
(* The HMAC verifier.                                                      *)

\* loadSecret: stat the file of the client; whatever error that or the reading of
\* the file has, the client is unknown.
StatSecret(r) ==
    /\ Presented(r, {"hmac"})
    /\ IF world.secret = None THEN Verdict(r, FALSE)
       ELSE \/ req' = [req EXCEPT ![r].at = "compare", ![r].mtime = world.mtime]
            \/ Answer(r, FALSE, Failed(r))
    /\ OnlyReq

CompareSecret(r) ==
    /\ At(r, "compare", {"hmac"})
    /\ req' = [req EXCEPT ![r] =
          IF @.mtime = cache.mtime THEN [@ EXCEPT !.at = "body", !.set = {cache.secret}]
          ELSE [@ EXCEPT !.at = "read"]]
    /\ OnlyReq

ReadSecret(r) ==
    /\ At(r, "read", {"hmac"})
    /\ IF world.secret = None THEN Verdict(r, FALSE)
       ELSE \/ req' = [req EXCEPT ![r].at = "store", ![r].set = {world.secret}]
            \/ Answer(r, FALSE, Failed(r))
    /\ OnlyReq

\* Mutant: the entry carries the modification time of the moment it is stored.
StoreSecretStamped(r) ==
    /\ At(r, "store", {"hmac"})
    /\ cache' = [cache EXCEPT !.secret = CHOOSE c \in Creds : c \in req[r].set,
                              !.mtime = world.mtime]
    /\ Goto(r, "body")
    /\ UNCHANGED <<chain, world, loop, now, revoked, blurred, moved>>

\* The entry carries the modification time taken before the file was read.
StoreSecret(r) ==
    /\ At(r, "store", {"hmac"})
    /\ cache' = [cache EXCEPT !.secret = CHOOSE c \in Creds : c \in req[r].set,
                              !.mtime = req[r].mtime]
    /\ Goto(r, "body")
    /\ UNCHANGED <<chain, world, loop, now, revoked, blurred, moved>>

\* readCappedBody reads up to the cap and puts what it has read back into the
\* request, so that of a larger body the signature of the first max_body_bytes is the
\* one that matches, and the request goes on with those alone.  It does not match
\* when the whole of such a body was signed, and a body may break off.
CheckSignature(r) ==
    /\ At(r, "body", {"hmac"})
    /\ Verdict(r, Cred(r) \in req[r].set) \/ Answer(r, FALSE, Failed(r))
    /\ OnlyReq

-----------------------------------------------------------------------------
(* The JWT validator.                                                      *)

\* keyFunc: a key that is not remembered is fetched, in the goroutine of the request.
FindKey(r) ==
    /\ Presented(r, {"jwt"})
    /\ IF Cred(r) \in cache.keys THEN Verdict(r, TRUE) ELSE Goto(r, "fetch")
    /\ OnlyReq

\* refreshKeys: no answer, or an answer without keys, leaves the cache alone.
FetchKeys(r) ==
    /\ At(r, "fetch", {"jwt"})
    /\ IF world.published = {} THEN Verdict(r, FALSE)
       ELSE \/ req' = [req EXCEPT ![r].at = "swap", ![r].set = world.published]
            \/ Answer(r, FALSE, Failed(r))
    /\ OnlyReq

SwapKeys(r) ==
    /\ At(r, "swap", {"jwt"})
    /\ cache' = [cache EXCEPT !.keys = req[r].set]
    /\ Goto(r, "relook")
    /\ UNCHANGED <<chain, world, loop, now, revoked, blurred, moved>>

FindKeyAgain(r) ==
    At(r, "relook", {"jwt"}) /\ Verdict(r, Cred(r) \in cache.keys) /\ OnlyReq

\* refreshLoop: the same refresh on a ticker, its errors ignored.
LoopFetch ==
    /\ Installed("jwt") /\ loop = {} /\ loop' = world.published
    /\ UNCHANGED <<chain, world, cache, req, now, revoked, blurred, moved>>
LoopSwap ==
    /\ loop # {} /\ loop' = {}
    /\ cache' = [cache EXCEPT !.keys = loop]
    /\ UNCHANGED <<chain, world, req, now, revoked, blurred, moved>>

-----------------------------------------------------------------------------
(* The callout validator.                                                  *)

\* Mutant: a hit renews the entry.
CheckAnswerSliding(r) ==
    /\ Presented(r, {"callout"})
    /\ IF now < cache.expires[Cred(r)]
       THEN Verdict(r, TRUE) /\ cache' = [cache EXCEPT !.expires[Cred(r)] = now + CacheTTL]
       ELSE req' = [req EXCEPT ![r].at = "call", ![r].since = now] /\ UNCHANGED cache
    /\ UNCHANGED <<chain, world, loop, now, revoked, blurred, moved>>

CheckAnswer(r) ==
    /\ Presented(r, {"callout"})
    /\ IF now < cache.expires[Cred(r)] THEN Verdict(r, TRUE)
       ELSE req' = [req EXCEPT ![r].at = "call", ![r].since = now]
    /\ OnlyReq

\* callout: the service says yes or no, or does not answer in time.
Callout(r) ==
    /\ At(r, "call", {"callout"})
    /\ \/ Cred(r) \in world.live /\ Goto(r, "answer")
       \/ Cred(r) \notin world.live /\ Verdict(r, FALSE)
       \/ Answer(r, FALSE, Failed(r))
    /\ OnlyReq

Effective(ttl) == IF ttl > 0 /\ ttl < CacheTTL THEN ttl ELSE CacheTTL

\* Only affirmative answers are remembered, from the time they arrive.
StoreAnswer(r) ==
    /\ At(r, "answer", {"callout"})
    /\ \E ttl \in {0, 1} :
          cache' = [cache EXCEPT !.expires[Cred(r)] = now + Effective(ttl)]
    /\ Verdict(r, TRUE)
    /\ UNCHANGED <<chain, world, loop, now, revoked, blurred, moved>>

\* The client of the callout gives up after Timeout.
Tick ==
    /\ Installed("callout") /\ now < MaxTime
    /\ \A r \in Requests : req[r].at \in {"call", "answer"} => now < req[r].since + Timeout
    /\ now' = now + 1
    /\ UNCHANGED <<chain, world, cache, req, loop, revoked, blurred, moved>>

-----------------------------------------------------------------------------

Change == PutFile \/ OverwriteFile \/ HideDirectory \/ PutSecret \/ RotateKeys \/ Revoke
Check(r) ==
    \/ Arrive(r) \/ PassOver(r)
    \/ StatBearer(r) \/ StatOpaque(r) \/ CompareTime(r) \/ ListFiles(r) \/ StatListed(r)
    \/ ReadFiles(r) \/ StoreTokens(r) \/ LookupBearer(r) \/ LookupOpaque(r)
    \/ StatSecret(r) \/ CompareSecret(r) \/ ReadSecret(r) \/ StoreSecret(r) \/ CheckSignature(r)
    \/ FindKey(r) \/ FetchKeys(r) \/ SwapKeys(r) \/ FindKeyAgain(r)
    \/ CheckAnswer(r) \/ Callout(r) \/ StoreAnswer(r)

Next == (Change \/ (\E r \in Requests : Check(r)) \/ LoopFetch \/ LoopSwap \/ Tick) /\ Remember

Spec == Init /\ [][Next]_vars

TypeOK ==
    /\ chain \in Chains /\ world \in World /\ cache \in Cache
    /\ req \in [Requests -> Request]
    /\ loop \in SUBSET Creds /\ now \in 1..MaxTime
    /\ held \in [Requests -> [VerifierNames -> SUBSET BOOLEAN]]
    /\ revoked \in [Creds -> 0..MaxTime] /\ {blurred, moved} \subseteq BOOLEAN

-----------------------------------------------------------------------------
(* Properties.                                                             *)

\* What the caches cannot know: a change without a new modification time, and a
\* reload that began before the request.
Excused(r, v) ==
    \/ v \in Dirs /\ (blurred \/ ~req[r].quiet)
    \/ v = "jwt" /\ ~req[r].quiet

\* bearer.go:40 "so operators can rotate without restarting", jwt.go:180 "graceful
\* failover across rotations": whatever the caches hold, a request is rejected
\* only if each credential it presented was invalid at some time while it was
\* being checked.  A token that is put into a second file is excepted: a reload
\* that listed the names before and reads the files after it has left the first
\* one finds it in neither, although the directory had it all along.  So is a token
\* whose file the last reload could not read: bearer.go:212 leaves it out, and it
\* stays unknown until the directory changes again; an unreadable secret, a body
\* that HMAC does not see whole and a service without an answer reject for a request.
RejectedWasInvalid ==
    \A r \in Requests : req[r].at = "rejected" =>
        \A v \in Range(chain) :
            \/ req[r].creds[v] = None \/ Excepted(req[r], v)
            \/ Excused(r, v) \/ v \in req[r].failed
            \/ v \in Dirs /\ moved
            \/ FALSE \in held[r][v]

\* A credential that is accepted was valid at some time while the request was
\* being checked; an answer of the service may be older, by the time to live of
\* the cache (30 s where the configuration says 0) and the duration of one callout.
\* (A retired key is accepted until the next refresh, so nothing is said of keys.)
\* Nothing is said of the body: hmac.go:258 "a request whose body exceeds the cap
\* will fail the HMAC check" holds only of a signature of the whole.
AcceptedWasValid ==
    \A r \in Requests : req[r].at = "accepted" =>
        LET v == Consulted(r) IN
        \/ v = "jwt"
        \/ v \in Dirs /\ Excused(r, v)
        \/ TRUE \in held[r][v]
        \/ v = "callout" /\ req[r].done < revoked[Cred(r)] + CacheTTL + Timeout

\* bearer.go:51 "Operators rotate by overwriting or by dropping a new file": a
\* token that has been in its file since before the request is accepted.
OverwrittenIsSeen ==
    \A r \in Requests : req[r].at = "rejected" /\ req[r].quiet =>
        \A v \in Range(chain) \cap Dirs :
            req[r].creds[v] = None \/ v \in req[r].failed \/ FALSE \in held[r][v]
=============================================================================
