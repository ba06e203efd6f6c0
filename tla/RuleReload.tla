----------------------------- MODULE RuleReload -----------------------------
(***************************************************************************)
(* One rule set of the rules directory: its root file and the files of its *)
(* subdirectory, how they are loaded and merged (internal/rules loaders),  *)
(* how the watcher notices a change and reloads (rules/watcher.go, the     *)
(* handlers of main()), and who changes the files: an editor or the admin  *)
(* console, and `veilgate update-rules`.                                   *)
(*                                                                         *)
(* A file is its items and two scalars: `knob` for those a file of the     *)
(* subdirectory may set too, `fixed` for those read from the root only.    *)
(* Time is left to interleaving: a timer may expire at any moment.         *)
(***************************************************************************)
EXTENDS Naturals, FiniteSets, Sequences, SequencesExt

CONSTANTS
    Kinds,        \* the rule sets the run looks at, one per behaviour
    Files,        \* 1 is the root file, the others those of the subdirectory
    Contents,     \* what may be written to a file
    Release,      \* release -> what its archive holds: [file -> content]
    Absent, Broken, Failed, Nil,
    MaxChanges,   \* bound: changes of the directory, for each rule set
    MaxFaults     \* bound: lost watches and failing updates

(* An item is a rule: `key` is its name, path or hash, `val` its value (0: *)
(* not set), `cidrs` the ranges of a category, `any` TRUE of a route that  *)
(* matches everything.                                                     *)
Item == [key : STRING, val : Nat, any : BOOLEAN, cidrs : Seq(Nat)]
RuleSet == [knob : Nat, fixed : Nat, items : Seq(Item)]

ASSUME RuleReloadAssumption ==
    /\ Kinds \subseteq {"detector", "ip_reputation", "injection_strategy", "templates",
                        "tls_fingerprints", "payloads", "fake_data", "vulnerabilities",
                        "route-manifest", "learned", "signals", "challenge", "ml", "dashboard"}
    /\ IsFiniteSet(Files) /\ Files = 1..Cardinality(Files) /\ 1 \in Files
    /\ Contents \subseteq RuleSet
    /\ \A r \in DOMAIN Release : DOMAIN Release[r] \subseteq Files
                                /\ \A f \in DOMAIN Release[r] : Release[r][f] \in RuleSet
    /\ {Absent, Broken, Failed, Nil} \cap RuleSet = {} /\ Absent # Broken
    /\ MaxChanges \in [Kinds -> Nat] /\ MaxFaults \in Nat

Empty == [knob |-> 0, fixed |-> 0, items |-> <<>>]

-----------------------------------------------------------------------------
(* The loaders, on the parsed files in the order they are read.            *)
Concat(files) == FoldLeft(LAMBDA acc, f : acc \o f.items, <<>>, files)
LastSet(files) == FoldLeft(LAMBDA acc, f : IF f.knob # 0 THEN f.knob ELSE acc, 0, files)
Rules(knob, fixed, items) == [knob |-> knob, fixed |-> fixed, items |-> items]

LoadDetector(root, files) == Rules(LastSet(files), root.fixed, Concat(files))
LoadTLS(files) == Rules(0, 0, Concat(files))
LoadPayloads(files) == Rules(LastSet(files), 0, Concat(files))
LoadFakeData(files) == Rules(0, 0, Concat(files))
LoadVulnerabilities(files) == Rules(0, 0, Concat(files))
LoadRouteManifest(files) == Rules(0, 0, Concat(files))
LoadLearned(files) == Rules(0, 0, Concat(files))
LoadSignals(root) == Rules(root.knob, root.fixed, root.items)
LoadChallenge(root) == root
LoadML(root) == root
LoadDashboard(root) == [root EXCEPT !.knob = IF @ = 0 THEN 1 ELSE @]

(* A map keyed by name, kept in the order of first appearance.             *)
Upsert(items, item, merged(_)) ==
    IF \E i \in DOMAIN items : items[i].key = item.key
    THEN LET i == SelectInSeq(items, LAMBDA x : x.key = item.key)
         IN [items EXCEPT ![i] = merged(@)]
    ELSE Append(items, item)

Overwritten(old, items) ==
    FoldLeft(LAMBDA acc, item : Upsert(acc, item, LAMBDA x : item), old, items)

LoadTemplates(files) == Rules(0, 0, Overwritten(<<>>, Concat(files)))

(* Variant: each file's categories are appended.                           *)
MergedNever(acc, item) == Append(acc, item)
(* Categories of community files are merged by name into those before; the *)
(* root's own are taken as they are. The first merge with a category wins. *)
Merged(acc, item) ==
    Upsert(acc, item, LAMBDA old : [old EXCEPT !.val = IF item.val # 0 THEN item.val ELSE @,
                                               !.cidrs = @ \o item.cidrs])
MergedInto(categories, items) == FoldLeft(Merged, categories, items)
(* A range that does not parse (0) is dropped.                             *)
Parsed(cidrs) == FoldLeft(LAMBDA acc, c : IF c # 0 THEN Append(acc, c) ELSE acc, <<>>, cidrs)
LoadIPReputation(root, files) ==
    LET categories == MergedInto(root.items, Concat(Tail(files)))
    IN Rules(LastSet(files), 0,
             [i \in DOMAIN categories |-> [categories[i] EXCEPT !.cidrs = Parsed(@)]])

Routes(items, any) ==
    FoldLeft(LAMBDA acc, r : IF r.any = any THEN Append(acc, r) ELSE acc, <<>>, items)
moveCatchAllRoutesLast(items) == Routes(items, FALSE) \o Routes(items, TRUE)
CommunityFirst(root, files) ==
    Rules(LastSet(files), 0, moveCatchAllRoutesLast(Concat(Tail(files)) \o root.items))
LoadInjectionStrategy(root, files) == CommunityFirst(root, files)

Required == {"challenge", "ml", "dashboard"}     \* readFromDir: must exist
RootOnly == Required \cup {"signals"}            \* no subdirectory

(* seen: the contents found at each file. A missing optional root and a    *)
(* missing file count as nothing; the first unreadable one fails the load. *)
Load(kind, seen) ==
    LET root == IF seen[1] = Absent THEN Empty ELSE seen[1]
        files == [f \in DOMAIN seen |-> IF seen[f] = Absent THEN Empty ELSE seen[f]]
    IN IF \/ seen[1] = Broken
          \/ kind \in Required /\ seen[1] = Absent
          \/ kind \notin RootOnly /\ Broken \in ToSet(seen)
       THEN Failed
       ELSE CASE kind = "detector" -> LoadDetector(root, files)
              [] kind = "ip_reputation" -> LoadIPReputation(root, files)
              [] kind = "injection_strategy" -> LoadInjectionStrategy(root, files)
              [] kind = "templates" -> LoadTemplates(files)
              [] kind = "tls_fingerprints" -> LoadTLS(files)
              [] kind = "payloads" -> LoadPayloads(files)
              [] kind = "fake_data" -> LoadFakeData(files)
              [] kind = "vulnerabilities" -> LoadVulnerabilities(files)
              [] kind = "route-manifest" -> LoadRouteManifest(files)
              [] kind = "learned" -> LoadLearned(files)
              [] kind = "signals" -> LoadSignals(root)
              [] kind = "challenge" -> LoadChallenge(root)
              [] kind = "ml" -> LoadML(root)
              [] kind = "dashboard" -> LoadDashboard(root)

-----------------------------------------------------------------------------
VARIABLES
    kind,         \* the rule set, fixed in the initial state
    boot,         \* main(): "load", the files are read; then "watch" and "done"
    disk,         \* content of each file
    writing,      \* <<>>, or <<f, c>>: f is truncated and c not yet written
    subdir,       \* main() found learned/ and watches it
    watched,      \* the kernel reports changes of the directory
    events,       \* notifications the watcher has not taken yet
    timer,        \* 0, or the sequence number of the armed timer
    seq,          \* Watcher.seq of this handler
    due,          \* timers that expired and have not compared seq yet
    loads,        \* running handlers: what each has read, names still to read
    published,    \* what the holder, scorer or database serves
    redactor,     \* ml: the rules the path redactor was built from
    installed,    \* the release in .rules-version.json, or "none"
    update,       \* <<>>, or <<r, files>>: `update-rules` has files to write
    changes, faults,
    unseen,       \* history: why a change since the last load went unnoticed
    overlapped,   \* history: no handler that ran alone published since two overlapped
    mixed         \* history: files changed other than by a whole install

watcher == <<timer, seq, due, loads, published, redactor, overlapped>>
vars == <<kind, boot, disk, writing, subdir, watched, events, watcher, installed, update,
          changes, faults, unseen, mixed>>

Causes == {"removed", "subdir", "unwatched", "restart_only"}
Disk == [f \in 1..Cardinality(Files) |-> disk[f]]

TypeOK ==
    /\ kind \in Kinds /\ boot \in {"load", "watch", "done"}
    /\ \A f \in Files : disk[f] \in {Absent, Broken} \/ disk[f] \in RuleSet
    /\ writing = <<>> \/ writing[1] \in Files
    /\ {subdir, watched, overlapped, mixed} \subseteq BOOLEAN
    /\ {events, timer, seq, changes, faults} \cup due \subseteq Nat
    /\ \A h \in loads : h.step \in {"root", "list", "walk", "redact"} /\ h.left \subseteq Files
    /\ \A v \in {published, redactor} : v = Nil \/ v \in RuleSet
    /\ installed \in DOMAIN Release \cup {"none"}
    /\ update = <<>> \/ update[1] \in DOMAIN Release
    /\ unseen \subseteq Causes

(* Startup in main(): unreadable detector, reputation or TLS rules are     *)
(* fatal, a broken ml.yaml counts as an empty one, others leave nil. Init  *)
(* is the moment the files have been read; much later the rules directory  *)
(* is watched, and then learned/, unless it is not there or cannot be. A   *)
(* process that fails to watch the directory stays at "load".              *)
Fatal == {"detector", "ip_reputation", "tls_fingerprints"}
(* Variant: what failed to load is kept.                                   *)
AtStartUnchecked(value) == value
AtStart(value) ==
    IF value # Failed THEN value ELSE IF kind = "ml" THEN Empty ELSE Nil

Init ==
    /\ kind \in Kinds /\ boot = "load" /\ subdir = FALSE /\ watched = FALSE
    /\ disk \in [Files -> Contents \cup {Absent, Broken}]
    /\ kind \in RootOnly => \A f \in Files \ {1} : disk[f] = Absent
    /\ kind \in Fatal => Load(kind, Disk) # Failed
    /\ published = AtStart(Load(kind, Disk)) /\ redactor = published
    /\ events = 0 /\ timer = 0 /\ seq = 0 /\ due = {} /\ loads = {}
    /\ writing = <<>> /\ installed = "none" /\ update = <<>>
    /\ changes = 0 /\ faults = 0
    /\ unseen = {} /\ overlapped = FALSE /\ mixed = FALSE

WatchRoot ==
    /\ boot = "load" /\ boot' = "watch" /\ watched' = TRUE
    /\ UNCHANGED <<kind, disk, writing, subdir, events, watcher, installed, update,
                   changes, faults, unseen, mixed>>

WatchSubdir ==
    /\ boot = "watch" /\ boot' = "done"
    /\ subdir' \in IF kind = "learned" THEN BOOLEAN ELSE {FALSE}
    /\ UNCHANGED <<kind, disk, writing, watched, events, watcher, installed, update,
                   changes, faults, unseen, mixed>>

-----------------------------------------------------------------------------
(* A change of a file. The kernel tells the watcher of a write, a creation *)
(* or a rename in a directory that is watched: the root, and learned/ when *)
(* main() found it. There is no handler for payloads.yaml.                 *)
Unnoticed(f) ==
    (IF ~watched THEN {"unwatched"} ELSE {})
    \cup (IF f # 1 /\ ~(kind = "learned" /\ subdir) THEN {"subdir"} ELSE {})
    \cup (IF kind = "payloads" THEN {"restart_only"} ELSE {})

Changed(f, content) ==
    /\ disk' = [disk EXCEPT ![f] = content]
    /\ events' = IF Unnoticed(f) = {} THEN events + 1 ELSE events
    /\ unseen' = unseen \cup Unnoticed(f)

MayHave(f) == kind \in RootOnly => f = 1

(* os.WriteFile (editor, console): truncate, then write.                   *)
Truncate ==
    \E f \in Files, c \in Contents :
        /\ writing = <<>> /\ changes < MaxChanges[kind] /\ MayHave(f)
        /\ writing' = <<f, c>> /\ Changed(f, Empty)
        /\ changes' = changes + 1 /\ mixed' = TRUE
        /\ UNCHANGED <<kind, boot, subdir, watched, watcher, installed, update, faults>>

Fill ==
    /\ writing # <<>> /\ writing' = <<>>
    /\ Changed(writing[1], writing[2])
    /\ mixed' = TRUE
    /\ UNCHANGED <<kind, boot, subdir, watched, watcher, installed, update, changes, faults>>

(* DELETE of the console: a Remove notification, which the watcher skips.  *)
Delete ==
    \E f \in Files :
        /\ disk[f] # Absent /\ changes < MaxChanges[kind]
        /\ writing # <<>> => writing[1] # f
        /\ disk' = [disk EXCEPT ![f] = Absent]
        /\ unseen' = unseen \cup {"removed"}
        /\ changes' = changes + 1 /\ mixed' = TRUE
        /\ UNCHANGED <<kind, boot, writing, subdir, watched, events, watcher, installed, update, faults>>

(* The directory is replaced by a copy: the kernel drops the watch.        *)
LoseWatch ==
    /\ boot = "done" /\ watched /\ faults < MaxFaults
    /\ watched' = FALSE /\ faults' = faults + 1
    /\ UNCHANGED <<kind, boot, disk, writing, subdir, events, watcher, installed, update,
                   changes, unseen, mixed>>

-----------------------------------------------------------------------------
(* veilgate update-rules: nothing when the release is the installed one,   *)
(* else each file of the archive by rename, then the version file, which   *)
(* may fail without failing the command. Files the archive lacks stay.     *)
(* Of an archive, Release is the YAML entries with a safe path: update-rules *)
(* skips the others and counts the run as a success.                       *)
UpdateStart ==
    \E r \in DOMAIN Release :
        /\ update = <<>> /\ installed # r /\ changes < MaxChanges[kind]
        /\ update' = <<r, {f \in DOMAIN Release[r] : MayHave(f)}>>
        /\ changes' = changes + 1 /\ mixed' = FALSE
        /\ UNCHANGED <<kind, boot, disk, writing, subdir, watched, events, watcher, installed,
                       faults, unseen>>

UpdateFile ==
    \E f \in Files :
        /\ update # <<>> /\ f \in update[2]
        /\ writing # <<>> => writing[1] # f
        /\ update' = <<update[1], update[2] \ {f}>>
        /\ Changed(f, Release[update[1]][f])
        /\ UNCHANGED <<kind, boot, writing, subdir, watched, watcher, installed, changes, faults, mixed>>

(* A file above 10 MB is cut there, and bytes that are lost when the file is *)
(* closed go unnoticed: what is left is installed, and the run goes on.    *)
UpdateCutFile ==
    \E f \in Files, rest \in {Empty, Broken} :
        /\ update # <<>> /\ f \in update[2] /\ faults < MaxFaults
        /\ writing # <<>> => writing[1] # f
        /\ update' = <<update[1], update[2] \ {f}>>
        /\ Changed(f, rest)
        /\ faults' = faults + 1 /\ mixed' = TRUE
        /\ UNCHANGED <<kind, boot, writing, subdir, watched, watcher, installed, changes>>

UpdateFail ==
    /\ update # <<>> /\ update[2] # {} /\ faults < MaxFaults
    /\ update' = <<>> /\ faults' = faults + 1 /\ mixed' = TRUE
    /\ UNCHANGED <<kind, boot, disk, writing, subdir, watched, events, watcher, installed, changes,
                   unseen>>

(* Variant: a version file that is written whatever is left to install.    *)
DoneEarly == update # <<>>
Done == update # <<>> /\ update[2] = {}

UpdateDone ==
    \E written \in BOOLEAN :
        /\ Done
        /\ ~written => faults < MaxFaults
        /\ faults' = IF written THEN faults ELSE faults + 1
        /\ installed' = IF written THEN update[1] ELSE installed
        /\ mixed' = (mixed \/ ~written)
        /\ update' = <<>>
        /\ UNCHANGED <<kind, boot, disk, writing, subdir, watched, events, watcher, changes, unseen>>

-----------------------------------------------------------------------------
(* Variant: nothing is scheduled while a reload runs.                      *)
ScheduleIfIdle ==
    IF loads = {} THEN seq' = seq + 1 /\ timer' = seq + 1 ELSE UNCHANGED <<seq, timer>>

(* Watcher.Run takes a notification: schedule() stops the armed timer and  *)
(* arms a new one; an expired one is told by its sequence number.          *)
Schedule ==
    /\ seq' = seq + 1 /\ timer' = seq + 1

Deliver ==
    /\ boot = "done" /\ events > 0 /\ events' = events - 1
    /\ Schedule
    /\ UNCHANGED <<kind, boot, disk, writing, subdir, watched, due, loads, published, redactor,
                   overlapped, installed, update, changes, faults, unseen, mixed>>

(* An error of the notifier: the directories are watched again, nothing is *)
(* loaded.                                                                 *)
WatchError ==
    /\ boot = "done" /\ ~watched /\ watched' = TRUE
    /\ UNCHANGED <<kind, boot, disk, writing, subdir, events, watcher, installed, update, changes,
                   faults, unseen, mixed>>

Expire ==
    /\ timer # 0 /\ timer' = 0 /\ due' = due \cup {timer}
    /\ UNCHANGED <<kind, boot, disk, writing, subdir, watched, events, seq, loads, published,
                   redactor, overlapped, installed, update, changes, faults, unseen, mixed>>

(* The timer's function: a newer notification makes it return, else the    *)
(* handler starts. Handlers of one file may overlap.                       *)
Outdated ==
    \E s \in due :
        /\ s # seq /\ due' = due \ {s}
        /\ UNCHANGED <<kind, boot, disk, writing, subdir, watched, events, timer, seq, loads,
                       published, redactor, overlapped, installed, update, changes, faults,
                       unseen, mixed>>

StartLoad ==
    /\ seq \in due /\ due' = due \ {seq}
    /\ loads' = {[h EXCEPT !.alone = FALSE] : h \in loads}
                \cup {[id |-> seq, step |-> "root", seen |-> [f \in Files |-> Absent],
                       left |-> {}, alone |-> loads = {}]}
    /\ overlapped' = (overlapped \/ loads # {})
    /\ unseen' = {}
    /\ UNCHANGED <<kind, boot, disk, writing, subdir, watched, events, timer, seq, published,
                   redactor, installed, update, changes, faults, mixed>>

(* A handler reads the root file, lists the subdirectory and reads what it *)
(* listed in the order of the names.                                       *)
Advance(h, next) == loads' = (loads \ {h}) \cup next
Reading == UNCHANGED <<kind, boot, disk, writing, subdir, watched, events, timer, seq, due,
                       published, redactor, overlapped, installed, update, changes, faults,
                       unseen, mixed>>

ReadRoot ==
    \E h \in loads :
        /\ h.step = "root"
        /\ Advance(h, {[h EXCEPT !.seen[1] = disk[1],
                                 !.step = IF kind \in RootOnly THEN "walk" ELSE "list"]})
        /\ Reading

List ==
    \E h \in loads :
        /\ h.step = "list"
        /\ Advance(h, {[h EXCEPT !.left = {f \in Files \ {1} : disk[f] # Absent},
                                 !.step = "walk"]})
        /\ Reading

Walk ==
    \E h \in loads, f \in Files :
        /\ h.step = "walk" /\ f \in h.left /\ \A g \in h.left : f <= g
        /\ Advance(h, {[h EXCEPT !.left = @ \ {f},
                                 !.seen[f] = IF disk[f] = Absent THEN Broken ELSE disk[f]]})
        /\ Reading

(* What a handler does with what it loaded: a holder is replaced; the TLS  *)
(* database is overwritten entry by entry (Apply); the learned candidates  *)
(* are counted on top of what the classifier has (SeedFromLearned).        *)
Base == IF published = Nil THEN Empty ELSE published
Apply(value) == [value EXCEPT !.items = Overwritten(Base.items, @)]
SeedFromLearned(value) == [value EXCEPT !.items = Base.items \o @]
Swap(value) ==
    CASE kind = "tls_fingerprints" -> Apply(value)
      [] kind = "learned" -> SeedFromLearned(value)
      [] OTHER -> value

Found(h) == Load(kind, [f \in 1..Cardinality(Files) |-> h.seen[f]])

(* A load that fails keeps what is served and is not tried again.          *)
RetryAtOnce == due' = due \cup {seq}
GiveUp == UNCHANGED due

LoadFails ==
    \E h \in loads :
        /\ h.step = "walk" /\ h.left = {} /\ Found(h) = Failed
        /\ Advance(h, {}) /\ GiveUp
        /\ UNCHANGED <<kind, boot, disk, writing, subdir, watched, events, timer, seq, published,
                       redactor, overlapped, installed, update, changes, faults, unseen, mixed>>

(* A handler publishes; that of ml.yaml then rebuilds the path redactor.   *)
Publish ==
    \E h \in loads :
        /\ h.step = "walk" /\ h.left = {} /\ Found(h) # Failed
        /\ published' = Swap(Found(h))
        /\ IF kind = "ml"
           THEN Advance(h, {[h EXCEPT !.step = "redact"]}) /\ UNCHANGED overlapped
           ELSE Advance(h, {}) /\ overlapped' = (overlapped /\ ~h.alone)
        /\ UNCHANGED <<kind, boot, disk, writing, subdir, watched, events, timer, seq, due, redactor,
                       installed, update, changes, faults, unseen, mixed>>

(* The handler of ml.yaml then replaces the path redactor.                 *)
SetActiveRedactor(h) == redactor' = Found(h)

Redact ==
    \E h \in loads :
        /\ h.step = "redact" /\ SetActiveRedactor(h)
        /\ Advance(h, {}) /\ overlapped' = (overlapped /\ ~h.alone)
        /\ UNCHANGED <<kind, boot, disk, writing, subdir, watched, events, timer, seq, due,
                       published, installed, update, changes, faults, unseen, mixed>>

Write == Truncate \/ Fill \/ Delete \/ UpdateStart \/ UpdateFile \/ UpdateCutFile
         \/ UpdateFail \/ UpdateDone
Reload == Deliver \/ Expire \/ Outdated \/ StartLoad \/ ReadRoot \/ List \/ Walk
          \/ LoadFails \/ Publish \/ Redact
Next == WatchRoot \/ WatchSubdir \/ Write \/ LoseWatch \/ WatchError \/ Reload

(* The runtime takes notifications, fires timers and runs handlers; main() *)
(* goes on to run the watcher it made; a writer that truncated a file goes *)
(* on to write it.                                                         *)
Spec == Init /\ [][Next]_vars /\ WF_vars(Reload) /\ WF_vars(WatchSubdir) /\ WF_vars(Fill)

-----------------------------------------------------------------------------
Quiet == /\ events = 0 /\ timer = 0 /\ due = {} /\ loads = {} /\ writing = <<>>

(* What is served shows the rules of the files: as they are, or for the    *)
(* TLS database and the learned candidates at least them.                  *)
Shows(value) ==
    CASE kind = "tls_fingerprints" ->
            /\ published # Nil
            /\ \A i \in DOMAIN value.items :
                  (\A j \in DOMAIN value.items : value.items[j].key = value.items[i].key => j <= i)
                  => value.items[i] \in ToSet(published.items)
      [] kind = "learned" -> published # Nil /\ ToSet(value.items) \subseteq ToSet(published.items)
      [] OTHER -> published = value
ShowsDisk == Load(kind, Disk) # Failed => Shows(Load(kind, Disk))

(* Once the watcher has nothing left to do, what is served is what the     *)
(* files hold, whatever changed in whatever order while a reload was due or*)
(* running (watcher.go: schedule, its sequence numbers, the handlers of    *)
(* main()), and the path redactor is the one of the rules the scorer serves*)
(* (main.go: "Reapply path redaction in case the operator updated the      *)
(* custom regex list"). Excepted is what no notification tells of, which   *)
(* includes every change between the load at startup and the watch, and    *)
(* two handlers that overlap; the next reload that runs alone repairs both. *)
CaughtUp ==
    Quiet /\ ~overlapped =>
        /\ unseen = {} => ShowsDisk
        /\ kind = "ml" => redactor = published

(* The version file names a release only when all its files are on disk,   *)
(* unless somebody else changed them, a file was cut or a later run failed *)
(* half-way (update_rules.go: written after a successful run, last).       *)
InstalledIsComplete ==
    installed # "none" /\ ~mixed /\ update = <<>> =>
        \A f \in DOMAIN Release[installed] : MayHave(f) => disk[f] = Release[installed][f]

(* Merging keeps what every file says: templates of the same name are those*)
(* of the last file; a category of the root stays where it is, any other is *)
(* added once, and it has the ranges given for it and no others; the       *)
(* catch-all routes come after all others and a community route before the *)
(* root's of its kind; every other list is kept whole.                     *)
Positions(v, k) == {i \in DOMAIN v : v[i].key = k}
MergeKeepsRules ==
    LET value == Load(kind, Disk)
        given == UNION {{f} \X DOMAIN disk[f].items :
                           f \in {g \in Files : disk[g] \notin {Absent, Broken}}}
        item(g) == disk[g[1]].items[g[2]]
        keys == {item(g).key : g \in given}
        later(g, h) == h[1] > g[1] \/ (h[1] = g[1] /\ h[2] > g[2])
    IN value # Failed /\ kind \notin RootOnly =>
         CASE kind = "templates" ->
                 /\ \A g \in given : Cardinality(Positions(value.items, item(g).key)) = 1
                 /\ \A g \in given :
                       (\A h \in given : later(g, h) => item(h).key # item(g).key)
                       => item(g) \in ToSet(value.items)
           [] kind = "ip_reputation" ->
                 /\ \A j \in DOMAIN value.items : value.items[j].key \in keys
                 /\ \A k \in keys :
                       LET own == {g[2] : g \in {h \in given : h[1] = 1 /\ item(h).key = k}}
                           at == Positions(value.items, k)
                       IN /\ IF own = {} THEN Cardinality(at) = 1 ELSE at = own
                          /\ UNION {ToSet(value.items[j].cidrs) : j \in at}
                                = (UNION {ToSet(item(g).cidrs) :
                                             g \in {h \in given : item(h).key = k}}) \ {0}
           [] kind = "injection_strategy" ->
                 /\ Len(value.items) = Cardinality(given)
                 /\ \A g, h \in given :
                       item(g).any = item(h).any /\ g[1] # 1 /\ h[1] = 1
                       => \E i, j \in DOMAIN value.items :
                             i < j /\ value.items[i] = item(g) /\ value.items[j] = item(h)
           [] OTHER -> Len(value.items) = Cardinality(given)

(* When nobody writes for long enough, the watcher comes to rest: debouncing *)
(* never postpones or drops the last reload for ever.                      *)
ComesToRest == <>[]Quiet
=============================================================================
