# TLA+ models of Veilgate

Veilgate is a reverse proxy that scores every request, lets ordinary clients
through, asks doubtful ones for a proof of work and sends the rest to a tarpit.
This directory holds TLA+ models of its concurrent parts, TLC configurations
that check them on small instances, and proofs checked by TLAPS. Every
definition follows the source in `src/`; `PROJECT.json` ("map") gives the lines.

## 1. Inventory

| Component | State it keeps | Operations | Talks to | What is hard | What makes it correct |
|---|---|---|---|---|---|
| Request pipeline (`proxy/proxy.go`, `upload.go`) | per-request locals, upload slots | `serve`, `decide`, `enforceUploadPolicy`, WebSocket tunnel | every other component, once per request | concurrent requests of a client; status recorded after the response | a request gets the treatment its score and its credentials call for, and is recorded once |
| Proof-of-work challenge (`challenge/challenge.go`) | `seenNonces`, signing key, rules holder | issue, `verifyPOW`, mint, `Passed` | rules holder, telemetry | goroutines acting on old clock readings; reload changes the TTL | a proof counts once in its window; a token lives as long as advertised |
| Event store (`persist/store.go`) | two bounded channels, SQLite tables, `dropped` | `Record`, `RollupUpdate`, flusher, row cap, `ForgetClient`, `Close` | proxy, ML miner, recommender, admin, `veilgate forget` | overload, failing statements, shutdown | no accepted event vanishes unaccounted; rows in order; Close flushes |
| Store: canaries, candidates, dump | SQLite tables | `InsertCanary`, `HitCanary`, `CanaryGC`, dump, `Trim` | tarpit, scorer, maintenance goroutine | select-then-update, text timestamps | a live canary is recognised; nothing is trimmed before it is dumped |
| Client tracker, fleet tracker (`detector/tracker.go`, `fleet.go`) | map of client states behind two levels of locks | `Record`, `RecordStatus`, `RecordJSAsset`, `RecordSetCookie`, `GC` | scorer, proxy, gc goroutine | collection between look-up and use; status of one request, event of another | only idle clients are forgotten; the history reflects the window |
| Scorer (`detector/scorer*.go`) | rules, registry | `Score`, `SetRules`, `SetIPReputation` | tracker, fleet, ML, canaries | a copy of the events next to live counters; feedback of the classifier | signals over the same evidence agree |
| Audit chain (`audit/audit.go`) | chain head, file and table | `Log`, `readLastHash`, `LastAuditHash` | main, admin, `veilgate forget` | one backend fails; torn line; second writer | each record names its predecessor |
| Rules watcher (`rules/watcher.go`) | debounce timers, sequence numbers, holders | `schedule`, reload handlers | every rules consumer | handlers overlap; writes during a reload | the published rules catch up with the files |
| Rule loaders, configuration | none | parse, merge, default, validate | watcher, main | text formats | what is published is valid |
| Credential verifiers (`verifier/*.go`) | caches: secrets, keys, JWKS, callout answers | `Verify`, reload, refresh | proxy, identity provider | refreshes race; cached answers age | a revoked credential stops working in bounded time |
| Tarpit (`tarpit/*.go`) | client profiles, response cache | `ServeHTTP`, `Get`/`Set`, eviction | store (canaries), payloads | concurrent first visits, full cache | a client keeps seeing one identity and one answer |
| ML (`ml/*.go`), recommender | counts, forest, candidates | observe, refit, mine, promote | store, scorer | overlapping refits, eviction, flags in two places | counts agree, promotions and demotions last, the newest forest serves |
| Telemetry (`telemetry/*.go`) | bus subscribers, capture file, counters | `Emit`, `Shutdown`, `Write` | everything | emit against shutdown, size sweep | no event blocks a request |
| TLS and HTTP/2 fingerprints | table with expiry | store, look up, GC | listener, scorer | bytes | a connection gets its own fingerprint |
| Admin console (`admin/*.go`) | copy of the configuration, decoy list | save veilgate.yaml, signals.yaml, rule files, decoys | files, watcher | unlocked read-modify-write, failed writes | a save leaves what was asked, the console shows what is in force |
| Commands, tools | installed release | `update-rules`, `forget`, self-update, certificates | files, store | a half-done update; a second writer of the audit chain | the version file tells what is installed |

## 2. Modules

| Module | Models | Composed in | Status |
|---|---|---|---|
| `Challenge`, `ChallengeProofs` | the challenge | `MCChallenge` | checked and proved |
| `EventLog` | abstract: a lossy first-in first-out log | -- | refined by `EventStore` |
| `EventStore`, `EventStoreProofs` | the store's write path, its callers and shutdown | `MCEventStore` | checked, safety and refinement proved |
| `Pipeline`, `PipelineProofs` | `serve` in the proxy with the client tracker | `MCPipeline` | checked, safety proved |
| `RuleReload`, `RuleReloadProofs` | the rules watcher, its handlers and `update-rules` | `MCRuleReload` | checked with liveness, safety proved |
| `AuditChain`, `OperationsProofs` | the audit log and its two writers | `MCOperations` | checked and proved |
| `Console`, `OperationsProofs` | what the admin console writes | `MCOperations` | checked and proved |
| `Verifiers`, `AccessProofs` | the credential verifiers and their caches | `MCAccess` | checked and proved |
| `Tarpit`, `AccessProofs` | a visit to the tarpit | `MCAccess` | checked and proved |
| `Canaries`, `AccessProofs` | tokens the tarpit plants | `MCAccess` | checked and proved |
| `Scoring`, `BackgroundProofs` | the scorer and the state of a client | `MCBackground` | checked and proved |
| `Fleet`, `BackgroundProofs` | the fleet tracker | `MCBackground` | checked and proved |
| `Learning`, `BackgroundProofs` | the classifier and the miner | `MCBackground` | checked and proved |
| `Forest`, `BackgroundProofs` | the isolation forest and its refits | `MCBackground` | checked and proved |
| `Recommender`, `BackgroundProofs` | the cycles of the recommender | `MCBackground` | checked and proved |
| `Capture`, `BackgroundProofs` | the capture file and its janitor | `MCBackground` | checked and proved |
| `EventBus`, `BackgroundProofs` | the metrics over the bounded bus | `MCBackground` | checked and proved |
| `Retention`, `BackgroundProofs` | dump and trim of the events table | `MCBackground` | checked and proved |
| `FoldLemmas` | induction over naturals, folds over sequences and sums over sets, for the proofs | -- | proved |

`MCOperations`, `MCAccess` and `MCBackground` put together components that share no
state. Each extends one of them (`AuditChain`, `Verifiers`, `Retention`) and takes the others
by INSTANCE (`Admin`, `Trap`, `Plant`, `Learn`, `Recommend`, `Keep`, `Push`, `Rate`, `Crowd`, `Grow`);
the proofs extend these modules, so that the theorems name the very definitions the runs
check. What the code reads from its files (rules, vectors, requests, tiers) is a constant
of these modules, given a value by the configuration and any value in the proofs; the
assumptions on them (`OperationsAssumption`, `AccessAssumption`, `BusAssumption`,
`CaptureAssumption`, `RecommenderAssumption`, `LearningAssumption`, `ScoringAssumption`,
`PointsAssumption`, `FleetAssumption`, `ForestAssumption`) stand next to them and are evaluated by
every run. Most say that a number is one; those that say more are named where a proof uses them. A
behaviour of these modules moves one component and leaves
the others in an initial state, so that a run explores the sum of the components and not
their product; a property counts for the component that moves.

### Challenge

A worker is a goroutine inside `ServeHTTP` or `Passed`. `pc[w]` says between
which two steps of the code it is: after the signature check (`check`), in the
`Range` over `seenNonces` (`sweep`, and `evict` between finding an entry expired
and deleting it), after `LoadOrStore` (`mint`), with the token signed and the answer
still to be written (`advertise`), or before the age check of a
token (`admit`). `now[w]` is the one clock reading of `verifyPOW`, then that of the token;
the end of life that the cookie and `expires_in` advertise is reckoned from a later one.
A token keeps all three times (`ts`, `at`, `sent`). `conf[w]` is the
rules loaded at the start of the request. `Restart` empties everything but the
clock, the signed challenges and the minted tokens. Signatures are abstracted
to the set of things that were signed, digests to `Work`, the number of leading
zeros of each proof. Issuing covers the three places that sign a challenge;
`MaxSkew` lets a replica with the same secret run ahead.

### EventStore

The channels are a sequence of tickets (events) and a number (deltas). `hpc`
separates the load and the store of `dropped++`. `fpc` follows `drain` statement
by statement: taking from the two channels, `Begin`, each row, the upserts,
`Commit`, the count and the trim of the row cap (`RowCapFails` when either of these
fails). Any database call may fail (`MaxFaults` in all), and what the code then discards goes to the
history variable
`lost`. `ForgetClient` is the other process that deletes rows. `phase` is
`main()`: `Shutdown` may return with handlers running, because it waits at most
ten seconds and does not know hijacked (h2c) connections.

`EventLog` is what the callers rely on. The mapping is: `pending` is the tickets
of `batch \o queue`, `durable` the tickets in the events table. `Record` is `Accept`;
`Commit`, `CommitFails` and `BeginFails` are `Settle`; `TrimOldest` and
`ForgetClient` are `Purge`; every other action stutters.

### Pipeline

A worker is a goroutine inside `serve`. `job[w]` holds its local variables and
the point it is at: the upload policy (`gate`), before the timestamp of the event
(`score`), between the two locks of `Record` (`lookup`, `record`), before the
signals read the client's state (`assess`), before `decide` (`decide`), with the
decision taken and the event stored (`serve`), and in `RecordStatus` before each
of its two locks (`answered`, `annotate`). A client's state is an entry of
`heap`; `clients` is the tracker's map of pointers into it, so that a worker can
go on with a state the map has dropped. A CORS preflight goes upstream before the
upload policy, the tracker and the scorer (`Preflight`): no record of it is kept. The collector
reads the clock, takes the
map's lock, looks at one state after another and deletes those that are idle;
while it holds the lock no worker passes `lookup` or `answered`.

Scores are any of a small set; which signals produced them is left out, and so
is what only signals read (honeypot hits, header mutations, cookies). The event
handed to the store at `Judge` is `EventStore!Record`; the two modules
meet there and nowhere else.

### RuleReload

A behaviour follows one rule set (`kind`): nine of them, one per way in which the
code gathers and publishes rules (one file, a file with a subdirectory, a
directory, the TLS database, the learned candidates, the classifier's rules with
the path redactor ...). The files are loaded when `main()` starts (`Init`, `boot` = "load") and
watched much later (`WatchRoot`, `WatchSubdir`); what changes in between no notification
tells of. `disk` is the content of its files; `writing` is a file
that `os.WriteFile` has truncated and not yet filled. A change queues a
notification; `Deliver` is the watcher's loop with `schedule`, `Expire` and
`StartLoad` are the timer and the comparison of its sequence number, `ReadRoot`,
`List`, `Walk`, `Publish` and `Redact` the handler, which runs on the goroutine of
its timer: handlers overlap. `UpdateStart` to `UpdateDone` are `update-rules`, which
stops at the first file it cannot write, but goes on after one that was cut at 10 MB or lost
its end when it was closed (`UpdateCutFile`). An archive is what `update-rules` takes from it: entries
that are no YAML or have an unsafe path are skipped by the code and counted as a success. `unseen`
and `overlapped` remember why a
published value may lag behind; `CaughtUp` excepts those cases and no others.

### AuditChain and Console

In `AuditChain` a hash is the number of the entry in the history `journal`. `Record` is
`Log` of the running proxy: each backend may fail for itself, and the head moves all the
same. `Start` seeds the head as `main()` does, from the table if it has a row and
from the last readable line of the file otherwise. A query that fails is taken for an empty
table (`LastAuditHash`); `blind` holds the entries that were written after one. `ForgetSeed` and `ForgetLog` are
`veilgate forget`, a second process between whose read and write the proxy may log.

In `Console` a behaviour follows one of three files. Every handler that saves is
an action that reads the file and computes the new text, followed by `Truncate`
and `Fill` (or `FailWrite`) and, for `veilgate.yaml`, by `ReloadConfig` and `Assign`, which
are two steps. `wanted` is what the file would hold if saves were atomic.

### Verifiers, Tarpit, Canaries

A request of `Verifiers` walks the chain that `main()` built. The steps between
which others may act are those of the caches: `compare` and `list` of a token
directory, `stat`, `read` and `store` of an HMAC secret, `fetch`, `swap` and `relook`
of the published keys, `call` and `answer` of a callout. `Change` is what the operator
or the service does. A token file that cannot be read is left out of the set that is cached (`skipped`
remembers whose), and a secret that cannot be read makes its client unknown; both, like a body
that the HMAC verifier does not see whole and a service without an answer, are failures a
request remembers (`failed`). `CacheTTL` is the configured time to live with the 30 s that
0 stands for in the code. Malformed and expired credentials are credentials nobody
knows; modification times are distinct for each change that sets one (`blurred` marks
the changes that set none: an overwritten file does not change its directory).

In `Tarpit` a visit takes its profile, looks up the response cache, renders and
stores; a body is the number of its rendering. `ResponseCache.GC` has no caller.
`Canaries` follows a token from the answer that carries it, through the goroutine
that registers it, to a request that replays it (or whose lookup fails), to `CanaryGC` and to
`ForgetClient`, which deletes the rows of a client. A token follows
from the address it is given to. `via` tells whether clients reach the proxy
directly: behind a load balancer the client of a row is the balancer, while the
scorer takes the forwarded address.

### Scoring, Fleet, Learning, Forest

`Scoring` is `Scorer.Score`: `Record` appends the event and copies the recent ones
under the lock of the client; `Judge` reads the live counters, which other
requests of the client move on meanwhile, sums every signal, applies the entries of
`signals.yaml`, adds the classifier and lets it learn. A text is the set of tokens it
contains; no two paths differ in case alone; a kind of request (`Facts`) determines
its status; what the fleet tracker and the classifier answer is any value of a
set. Of the repeated fetches the classifier is told those of three minutes
(`RepeatWindow`) and the signal looks at `window_minutes`; the two need not agree. One `Judge` reads
the rules once, where the code reads them a few times. The
minima that are numbers in the code (4, 5, 8, 10 or 30 events) are constants, so that
they can be reached. The HTTP/2 table has no writer: its signals never fire.

`Fleet` is the tracker a reload may replace while requests hold the old one: `Ask` reads
tiers, tracker and clock, `Observe` takes the lock. Fingerprints do not collide.

`Learning` has the histogram of the classifier with `evictLowest`, the pass of the miner in
its steps (table, previous file, new file, flags written back), and the operators who
flip a flag in either place at any time, during a pass too. Any call of the miner may fail
(`MaxErrors`): rows that are not written, a table or a file that cannot be listed, flags that are
not written back go unnoticed, and a file that cannot be made or renamed ends the pass (`WriteFails`).
`tick.listed` says whether the pass could read the table. `features_rollup` has no writer, which is
why `UASubstringAnalyzer`
never finds anything and is left out of `Recommender`.

`Forest` has the ring of rows, the ticker of `main()`, overlapping fits (`Copy`, `Swap`),
reloads and restarts. `Grown` is every tree `growTree` may grow from a sample, `Ends` the
leaf of a row; one tree stands for all of a forest, and a split between two integers
stands as the greater one. The posterior of the classifier and the points of an
answer are arithmetic and left out.

### Recommender, Capture, EventBus, Retention

`Recommender`: a cycle counts, samples the newest rows, runs its four analyzers, filters, ranks
and stores, in a table and then in a file, while events arrive and leave the window; each
call may fail, and the process may end. Two keys of an analyzer may get the same name (`Name` is
`sanitizeName` of the word and the prefix), of which the table keeps the one stored last.
`Capture`: sizes in bytes. `Write` looks at the cap before the line and not at its length;
Close, Rename, OpenFile, Stat and the write itself may fail each, the write after a part of the line;
the janitor truncates and removes on its own. `EventBus`: counters, bumped for the scrape and one step
later for the gauges (`Scrape`, `Grow`), the events the ticker makes of their growth, the bounded
channel and the sink;
`Bus.Shutdown` has no caller. `Retention`: dump and trim, with a dump that fails, one
whose last bytes never reach the disk although it reports no error, and a process that
stops in between; a dump path is configured, and events age in the order of their rows.

## 3. Runs

| Run | Instance | What it shows |
|---|---|---|
| `challenge` | 1 challenge, 1 nonce, 2 workers, clock 0..4, TTL 1, 2 or above the cap of 3, 1 restart, skew 1, a second of 2 ticks | types; a proof is accepted once while its first entry is unexpired; "repeat" is answered only for accepted proofs; a token is honoured for its advertised life, but for its last part |
| `store` | 2 handlers, 2 clients, channels of 2, ceiling 2 rows, 3 requests, 1 delta, 1 fault | types; nothing vanishes unaccounted; rows in order; quiet Close flushes; refinement of `EventLog` |
| `store_live` | 2 handlers, channels of 1, with fairness | queued events leave the channel; Close returns |
| `pipeline` | 2 workers, 1 tracked and 1 allowlisted client, 3 requests of any kind or preflights, mode "tarpit", clock 1..2, window 1, 2 events kept | types; faithful history; the remembered failure is one request; treatment as scored, but for a preflight; stored decision is the treatment |
| `rules` | 9 rule sets of a root file and another one, 2 contents, 2 releases, 2 changes (`ml`) or 1 beside the initial files, from the load at startup on, 1 fault | types; at rest the watcher serves what the files hold; merges lose no rule and no range; the version file tells the truth; the watcher comes to rest |
| `operations` | 5 entries, 3 runs of the proxy, 1 fault; 2 console requests, up to 3 saves of a file | types; a lost audit entry shows as a gap; the undisturbed table is one chain over all runs, but for the first entry after a failed query; saves that do not overlap leave what was asked; the console's copy is the file |
| `signals_override` | as `operations` | finding: a signal the console shows is not the signal the scorer counts |
| `access` | 2 requests, 2 credentials, chains of the five verifiers, cache_ttl 0 (2 ticks by default), 2 changes, clock to 4; 2 visitors, cache of 1, 3 renderings; 2 clients, direct or balanced, 1 failing registration | types; only valid credentials are let in and only invalid ones turned away, up to the stated age of a cache and to files, secrets and bodies that could not be read; a visitor gets the answer of the cache and one identity; a planted token is recognised for its life, unless the client is forgotten or the database does not answer |
| `token_rotation` | as `access` | finding: a token overwritten in its file stays unknown |
| `background` | eight components, bounds in `Background.cfg` | types; signals that look at the same evidence agree; the fleet count is the addresses of the window; histogram and totals agree; a promotion survives the passes of the miner; the forest in use is the newest and isolates its rows; what is suggested is backed by rows, and table and file show the same batch; the capture keeps to its cap by less than a line and what failing calls left uncounted, and goes on; metrics add up; trimmed rows were dumped |
| `demotion` | as `background` | finding: a demoted rule is active again after the next pass |
| `self_label` | as `background`, classifier worth 30 points | finding: the classifier learns from its own answer |

Bounds. The challenge needs two workers for every race on one entry: one that
holds an old reading and one that acts meanwhile; a third adds only repetitions
of the second. One proof is enough because entries of different proofs interact
only through the sweep, which deletes each by its own expiry. The clock runs past
the longest TTL so that entries expire, are evicted and renewed. In the store
three requests through channels of two fill a channel and leave one to drop; a
ceiling of two rows makes the cap fire; one fault hits each call in turn. In the
pipeline two workers overlap in every way that concerns one state object; the
third request finds a history to evict from by age (window 1) and by length (two
events). Idle time 0 lets the collector fire at every tick. Mode "auto" decides as
"tarpit" does; "challenge" and "observe" drop tiers.

In `rules` the watcher is the same for every rule set: `ml`, which publishes in two
steps, gets the two changes whose reloads overlap in every order, and the others the
one that tells how they gather and merge. A second file is what a directory needs
to be merged, and may fail, appear or vanish. In `operations` five entries
over three runs put a lost entry before, between and after others and before a
restart; two console requests overlap at each step of a save. In `access` two changes
give a credential that comes and goes; the number of changes is divided by the length
of the chain, so that long chains are walked with one. The response cache of one entry
is full at the second visitor. In `background` two requests of a client overlap and a
third finds what they left; three vectors over two features of the classifier exceed
its two entries; three fits of the forest overlap a reload that turns it off and one that
changes its size; the bus of two overflows at the third change; two cycles of the
recommender overwrite, keep and refuse a suggestion; five lines of a cap of three bytes and two
failing calls rotate, cut and overshoot the capture; two failing calls of the miner meet two
edits and a restart over three passes. The smaller minima of `Scoring`
change when a signal starts, not what it looks at.

Deadlock checking is off everywhere: clocks, requests, faults and restarts are
bounded, and the process stops after `Exit`.

Fairness. `EventStore!Fairness`, run `store_live` only: the ticker fires for ever
and a drain runs to its end (weak fairness); `select` does not for ever prefer
the ticker to the closed stop channel (strong fairness: Go chooses at random
among ready cases); `main()` goes on once the flusher is gone. Handlers are not
fair: no property needs a request to finish. Requests are bounded, so `QueueDrains` says nothing of a queue
that is refilled as fast as it drains. `RuleReload!Spec`: the runtime goes on
taking notifications, firing timers and running handlers (weak fairness of `Reload`),
`main()` goes on to the second directory and the loop of the watcher (weak fairness of
`WatchSubdir`; `WatchRoot` may
never happen: a process that cannot watch serves what it loaded),
and a writer that truncated a file writes it (weak fairness of `Fill`); nothing
forces a change, a fault or an update. The other specifications state safety alone.

What the models show without a run of its own, each an exception written in a property with
its lines in a hazard of `PROJECT.json`, or said in its comment:

- a proof is accepted again when a reload raises the TTL after its entry was stored; a token
  ends earlier than its cookie says, by a second and by the time it took to answer;
- `Close` loses events of handlers that `Shutdown` did not wait for; two drops at once may be
  counted as one;
- a CORS preflight reaches the upstream unscored; the collector may drop a client that has just arrived;
- rule files of subdirectories are not watched, nor is anything between the load and the watch;
  a rule file above 10 MB is cut and the release counted as installed;
- a query that fails at the start begins a second audit chain in the table;
- a token file that cannot be read is unknown until its directory changes; a signature of
  the first `max_body_bytes` is accepted, and the body cut there for whoever reads it next, where
  hmac.go:258 says that larger bodies fail; a `cache_ttl` of 0, which callout.go:40-44 documents as
  no cache, is 30 s;
- behind a proxy the client of a planted token is the proxy; a failing lookup is a miss;
- the classifier is told the repeated fetches of three minutes, where scorer_behavioral.go:52
  has it "agree on the same window" with a signal whose window is configured;
- suggestions of older cycles stay in the table beside those of the last, where store.go:1160 speaks
  of "the most recent cycle's output" (`SuggestionsAreBacked` says of the table what does hold);
- bytes of a failed write are in the capture file and not in its count;
- the ring of the forest keeps its first size, so that a reload which raises
  `retrain_every_n_events` stops the refits.

## 4. Proofs

`ChallengeProofs` proves, for every value of the constants that satisfies
`ChallengeAssumption` (any set of workers, proofs and rules):

- `TypeCorrect`: `TypeOK` is invariant.
- `OnceInWindow`: `AcceptedOnceInWindow` is invariant. It is not inductive: that a
  second acceptance comes late depends on how the entry disappeared. `WindowInv`
  adds that the entry made by the first acceptance stays while the clock has not
  passed its expiry, that every clock reading is at most the clock, that a
  worker about to delete an entry of an accepted proof saw an expiry below its
  reading, and that the first expiry is positive.
- `RepeatsWereAccepted`: `RepeatOnlyIfAccepted` is invariant, from the same
  invariant: an entry in the map means an acceptance since the start.
- `TokensHonoured`: `TokenHonoured` is invariant: a token is refused before its advertised end
  only in the last second, to which the time between signing and answering adds. `TokenInv`
  adds what relates a refusal to
  the token: a token carries the second it was signed in (`TokensTruncated`), and who refuses
  one found it older than the TTL of the rules it had loaded (`RefusalsAged`).

`EventStoreProofs` proves, for any handlers, clients, channel sizes and number of
failures (`StoreAssumption`):

- `TypeCorrect`: `TypeOK` is invariant; with it, that both tables are finite, so
  that `enforceRowCap` can count them.
- `Accounted` and `Ordered`: `NothingVanishes` and `RowsInOrder`. Neither is
  inductive. `LogInv` adds that tickets are contiguous (`Base` is the last one
  settled; the batch holds the next ones in order, the channel those after), that
  the rows of the open transaction are the first `pos` events of the batch, with
  ids above every committed id, and that each of those events is a row or lost.
- `Implements`: `SafeSpec` implements `EventLog`. By `LogInv` the pending tickets
  are the run after `Base`; acceptance extends the run at its end, the end of a
  transaction cuts it at its front.
- `NotOvercounted`: `RollupsNotOvercounted` (no run checks it), from a bound on counted, held and
  queued deltas together.
- `ClosesFlushed`: `CloseFlushesQuiet`. `CloseInv` says that the last drain starts after
  the stop channel is closed and that from then on no handler is active unless
  one was late.

`PipelineProofs` proves, for any workers, clients, thresholds, modes, window and
history length (`PipelineAssumption`):

- `TypeCorrect`: `TypeOK`, strengthened by `Placed`: a worker inside `Record` has
  taken its timestamp, and one that has looked up its client has a state object.
- `HistoryIsFaithful`: `HistoryFaithful`. The step is `RecordRemembers`: what is kept
  after an append is a suffix (`KeptIs`), a suffix of a suffix is a suffix, and
  each loss has a cause that later appends do not take away. The least event
  inside the window exists by well-foundedness of the naturals (`Least`).
- `FailureIsOneRequest`: `FailurePair`, inductive given the types.
- `TreatmentFollowsScore` and `LogFollowsTreatment`: `TreatedAsScored` and
  `LoggedAsTreated`, from `AllJudgedWell`: a worker gets to `serve` by `Judge` or
  `Preflight` alone (`OnlyJudge`) and keeps the record it got there (`Settled`).

`RuleReloadProofs` proves, for any files, rules, releases and bounds (`RuleReloadAssumption`):

- `RulesTypeCorrect` and `ServedIsOnDisk`: `TypeOK` and `CaughtUp`. That a resting watcher serves
  what is on disk is far from inductive. `IInv` follows the content through a handler:
  as long as nothing is pending and nothing went unseen (`UpToDate`), a handler that runs
  alone has seen what is on disk at each step of its reading (`LoadsSeeDisk`), what it
  publishes is what its redactor step will use (`RedactsServed`, `RedactorFollows`), and the
  holder has it once no handler runs (`ServesDisk`). `Timers` and `AloneIsAlone` say that only
  the newest timer counts, and that a lone handler is the only one.
- `VersionFileIsTrue`: `InstalledIsComplete`, from `UpdateIsWhole`: a running update has written
  the files it has behind it.
- `MergesKeepRules`: `MergeKeepsRules`. For the reputation categories it is exact: one that the
  root does not have appears once, those of the root stay where they are, and the ranges of
    a category are those of all its appearances in the files. The loaders fold over the files and
  over the rules of a
  file; the proof follows a fold step by step and finds for each rule its place in the
  merged list.

`OperationsProofs` proves (`OperationsAssumption`, which the audit chain does not need):

- `OneChain`: `TableIsOneChain`. It is not inductive: a new row continues the chain only if its
  writer knew the last one. `ChainInv` adds, as long as nothing disturbed the table, that
  the head of a proxy that writes the table is its last row (`HeadIsLast`) and that
  `forget` still holds the last row between its read and its write (`ForgetIsLast`). The first row of a
  process whose query failed (`blind`) may break the chain, and no other.
- `GapsAreSeen`: `LostEntriesShow`, for the table and for the file. `JournalInv` says that what a
  backend holds is of the journal and in its order (`Journaled`), that in the journal an
  entry of a run names an entry of that run no older than any other before it
  (`RunsChained`), and that the head is the run's last entry (`HeadIsLatest`).
- `SavesAreWhole` and `ConsoleFollows`: `SavedAsAsked` and `ConsoleIsCurrent`. `ConsoleInv` says what
  file, memory and proxy have to do with each other while a save is under way: for saves
  that did not overlap (`AloneAsAsked`), for writers of which none overlapped (`OneWriter`),
  and for a proxy without a pending mark (`UnmarkedRuns`).
- `OpsTyped`: `OpsTypeOK`, for both parts of the composed module.

`AccessProofs` proves, for every set of requests, credentials and files, every chain of
the verifiers and every time to live (`VerifiersAssumption`, `AccessAssumption`):

- `TurnedAwayRightly` and `LetInRightly`: `RejectedWasInvalid` and `AcceptedWasValid`. The history
  variable `held` collects what the world said of a credential while its request ran. `IInv`
  has a part for every place where a cache and a request meet: the modification time of
  a directory vouches for the cached set (`DirCache`) and for what a reload carries
  (`DirLoad`, `DirTorn`, `DirSet`), which therefore answers for whoever looks it up (`DirLook`);
  the same for the secret (`SecretCache` to `SecretUse`) and the published keys (`KeyUse`); an
  answer of the callout is at most its TTL and its timeout old (`Sessions`, `Asking`). What
  every verifier behind a request decided stays decided (`TurnedBefore`, `LetIn`). With two
  token files the first formulation of `RejectedWasInvalid` turned out to be false: a token
  that is moved from one file to another while the directory is read is in neither, though it
    was valid all along. The history variable `moved` and its exception in the property say so. That
  a file may not be readable makes of what a
  reload knows two sets, what it found and what it skipped (`Found`), and what the cache
  vouches for is both together.
- `AnswersRepeat`: `SameAnswer`, from `TrapInv`: what is settled is what the cache answers while
  it lives (`SettledIsCached`), and an address whose first visits did not overlap has one
  identity in every visit past the profile (`OneIdentity`).
- `ReplaysAreKnown`: `ReplayIsKnown`, from `PlantInv`: a promised token has a row that lasts as long
  as the promise, unless its registration is under way or failed; a client that is
  forgotten is promised nothing any more.
- `VerifiersTyped` and `AccessTyped`: the types of the verifiers, and of all three parts.

`BackgroundProofs` proves of the parts of `MCBackground`, for all values of their constants:

- `Preserved`: `TrimmedIsDumped`. `RetentionInv` adds that between dump and trim every row
  older than the cutoff is covered (`DumpCovers`), which a row that comes in meanwhile cannot
  break because its number is above the cutoff (`Numbered`). No assumption.
- `CaptureKeeps`: `CaptureGoesOn`, with the types (`CaptureInv`): the size of the open file lies between
  the count and the count with what failing calls left uncounted, and a writer without a file
  counts it as full unless the janitor reset it.
- `MetricsAddUp`: `ReportsAddUp`, an equation with a sum over the channel. The sum is a fold; the
  lemmas compute it for an event put at the end and one taken from the front. `BusInv` adds
  that the gauges saw no more than was counted, and that the scrape of a counter is one ahead
  exactly between the two bumps.
- `SuggestionsHold`: `SuggestionsAreBacked`. `SuggestInv` follows the counts of a finding from
  the window they were taken over (`Backed`, which later events and rows that leave do
  not take away) through the job, the table and the file, and says that between the two writes
  of a batch the table shows what the file is about to.
- `HistogramIsCounted`: `HistogramCounted`. It holds after an observation, not after each of its
  steps: an eviction for a new entry takes place before the entry. `Counted` says that no
  entry is empty and that the sizes are those of a set of pairs (`Sizes`), of which the
  histogram may be one short during an insertion; the vectors and the seeds are folds.
- `PromotionsSurvive`: `PromotionSurvives`. `MinerInv` follows a kept pair through table, file and
  the pass in between (`RowsKeep`, `FileKeeps`, `PassKeeps`, `PassWritten`); the pass must have read the
  table, and nobody have edited a place since.
- `FleetIsCounted`: `FleetCounts`. `TracksHold` relates each tracker to the observations made of
  it: every entry shows an observation (`Backed`), none is newer than the last sweep allows, and, while the
  clock readings got the lock in their order, none within the horizon is forgotten.
  `FoundTold` says the same of the answer a request carries.
- `PartsAgree`: `SignalsAgree`. `RateInv` follows a request: its copied events were tagged by
  rules that existed (`Tagged`), its signals are true of these events and of the rules it
  was judged by (`Heard`, `Mutated`), and what the classifier is told is computed from the same
  events (`WasTold`); the mutations of the client only grow meanwhile. The lemmas say
  when each of the eight signals fires, that no other operator raises one of their names
  (`RequestApart`, `StateApart`), that a tier is reached when its least is (`TierIs`), and that
  the ordered toolchain signal needs the stages the unordered one looks for (`OrderedIsSeen`).
- `ForestHolds`: `ForestServes`, an action property in two halves. That a newer fit replaces an
  older one needs the one fit at a time (`OneFit`): while `refitting` is set, what is being
  grown is at least as new as what serves, and the ring (`RingTyped`) ends in the newest row. That
  each row a forest was fitted to ends in a leaf that counted it, no deeper than the limit, is
  `RowsAreIsolated`: an induction along the path of the row, in which the node at each depth
  grew from rows with it among them (`StepHolds`). The recursive functions behind it (`Grown`, `Ends`)
  exist by `LevelsExist` and `PathExists`, for every set of rows, width and depth.
- `ProcessTyped`: `ProcessTypeOK`, the types of all eight parts. They are not free. A score is a number
  because it is a sum over a finite set of signals with numbers for points (`TotalIs`); so every
  operator that raises, adds or overrides a signal is shown to leave such a set (`RequestScored`,
    `EventsScored`, `StateScored`, `RaisedScored`, `AppliedScored`), for every rule set
  (`RulesPrice`). `RateBounded`
  adds that a client's counters are at most the requests scored and that the ring keeps its cap,
  `CycleInv` that what a cycle carries between its steps are suggestions (`CandidateIs`), and
  `FleetBounded` that the trackers in use and the calls under way share one bound: a call
  that ends gives up its place as it adds to what was used.
- `ProcessKeeps`: the composed specification keeps all of these, by `PartsRun`: a behaviour of the
  process is one of each of its parts.

Most of these inductive invariants were run by TLC, as invariants of the instances above or of
the part they belong to, before they were proved.

Induction over data. The theorems on induction of the library take an operator as a
parameter, which the installed provers cannot instantiate. `FoldLemmas` takes sets instead: `Induct`
proves that a set of naturals that holds 0 and each successor holds all (from the
well-founded order of finite sets), `FoldExists` that the recursive function behind
`FoldLeft` exists, and `FoldSteps`, `FoldStays` and `TraceTyped` let a proof follow a fold. `SumExists` and
`SumTyped` do the same for the sum over a finite set, by induction on its cardinality.

What stays with TLC. Every invariant and the action properties of the passing runs have a theorem. The
liveness properties (`QueueDrains`, `ComesToRest`) need fairness and ENABLED, which the prover does
not handle; TLC checks them. The four runs that expect a violation are counterexamples, not
theorems.

## 5. Plan

1. (done) `Challenge`, `EventStore`, `Pipeline` and their proofs.
2. (done) `RuleReload`, `AuditChain`, `Console`, `Verifiers`, `Tarpit`, `Canaries`, `Scoring`,
   `Fleet`, `Learning`, `Forest`, `Recommender`, `Capture`, `EventBus`, `Retention`.
3. (done) `RuleReloadProofs`, `OperationsProofs`, `AccessProofs`, `BackgroundProofs`, `FoldLemmas`.
4. (done) Proofs of `Forest!ForestServes`, by an induction along the path of a row, and of the
   types of all parts of `MCBackground`.

## 6. Not modelled

- The framing guard, the parsers of TLS hellos and HTTP/2 frames and of YAML, the matching
  of blueprints: functions on bytes and text, without order or state.
- The fingerprint listener: one entry per connection, written before the first request
  and read by address. An entry of an earlier connection of the same remote stays if
  the new hello cannot be parsed, and expires ten minutes after the handshake.
- Generation of tarpit pages, fake credentials, payloads and challenge pages; CORS headers
  and cookie attributes.
- The extraction of features and the posterior of the classifier: floating-point arithmetic.
- The dashboard, the exporters, the console's pages, queries and login: they read.
- In the proxy: its own endpoints, the body limit and the copying of the WebSocket tunnel.
- `cmd/veilgate` downloads and certificates; the development tools.

See `PROJECT.json` for each component.
