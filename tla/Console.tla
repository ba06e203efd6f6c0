------------------------------ MODULE Console ------------------------------
(***************************************************************************)
(* What the admin console (internal/admin) does to the three files it      *)
(* edits: veilgate.yaml, signals.yaml and decoys.yaml. Handlers run        *)
(* concurrently and take no lock around a file: a save reads the file, a   *)
(* moment later truncates it and then fills it (os.WriteFile), and a write *)
(* may fail in between. The proxy reads veilgate.yaml when it starts.      *)
(*                                                                         *)
(* The files share no state, so a behaviour follows one of them (`target`).  *)
(***************************************************************************)
EXTENDS Naturals, FiniteSets, Functions

CONSTANTS
    Clients,      \* concurrent requests to the console
    Sections,     \* sections of veilgate.yaml
    FormValues,   \* values a form or a body gives a key
    RawDocs,      \* texts an operator may save as raw YAML
    Signals,      \* built-in signals the console lists (KnownSignals)
    EngineName,   \* [Signals -> names]: the name the scorer gives the signal
    Custom,       \* custom signals
    Paths,        \* decoy paths
    DefaultDecoys,\* the list decoys.yaml is seeded with
    None, Bad, Broken,  \* no value; a section that is no mapping; no YAML at all
    MaxSaves,     \* bound: saves ever started, by file
    MaxFailed     \* bound: writes that fail and restarts of the console

VARIABLES
    target,       \* the file this behaviour is about
    disk,         \* its content
    mem,          \* the console's copy: Server.cfg, or decoyStore.list
    pending,      \* Server.configPending
    proxy,        \* the configuration the running proxy started with, or None
    job,          \* what each request is doing
    saves, failed,
    wanted,       \* history: the content if saves were atomic
    overlapped,   \* history: two saves were ever in progress at once
    clashed       \* history: ... and both had begun to write

vars == <<target, disk, mem, pending, proxy, job, saves, failed, wanted, overlapped, clashed>>

(* veilgate.yaml: a section has keys a form shows ("form") and keys only   *)
(* the raw editor reaches ("raw": scrub, cookies, upload_policies ...).    *)
Section == [{"form", "raw"} -> 0..1 \cup {None}]
Doc == [Sections -> Section \cup {Bad}]
EmptyDoc == [s \in Sections |-> [k \in {"form", "raw"} |-> None]]

(* config.Load: 0 stands for the default of a key that is not set.         *)
Loads(doc) == doc # Broken /\ \A s \in Sections : doc[s] # Bad
Load(doc) == [s \in Sections |-> [k \in {"form", "raw"} |->
                 IF doc[s][k] = None THEN 0 ELSE doc[s][k]]]
ZeroConfig == EmptyDoc     \* &config.Config{}, without the defaults

(* ApplyYAMLPatches: set the keys of `patch`, keep every other key, replace*)
(* a section that is no mapping by one. A text that is no YAML is refused. *)
(* Variant: a patched section keeps nothing but the patch.                 *)
PatchWhole(doc, patch) ==
    [s \in Sections |->
        IF s \notin DOMAIN patch THEN doc[s]
        ELSE [EmptyDoc[s] EXCEPT !["form"] = patch[s]]]

ApplyYAMLPatches(doc, patch) ==
    [s \in Sections |->
        IF s \notin DOMAIN patch THEN doc[s]
        ELSE [IF doc[s] = Bad THEN EmptyDoc[s] ELSE doc[s]
                EXCEPT !["form"] = patch[s]]]

(* signals.yaml: an override may leave out either of its two fields.       *)
Override == [enabled: {"unset", "on", "off"}, points: 0..1]
NoOverride == [enabled |-> "unset", points |-> 0]
SignalsDoc == [over: [Signals -> Override], custom: SUBSET Custom]
NoSignals == [over |-> [s \in Signals |-> NoOverride], custom |-> {}]

(* loadSignalsFile with its error ignored, as both writers do.             *)
LoadSignalsFile(doc) == IF doc = Broken THEN NoSignals ELSE doc

(* decoys.yaml, and decoyStore.list.                                       *)
Decoys == SUBSET Paths

Empty(f) == CASE f = "config" -> EmptyDoc [] f = "signals" -> NoSignals [] f = "decoys" -> {}

Content(f) == CASE f = "config" -> Doc \cup {Broken}
                [] f = "signals" -> SignalsDoc \cup {Broken}
                [] f = "decoys" -> Decoys \cup {Broken}

Idle == [at |-> "idle", put |-> None]
Job == [at: {"idle", "list", "open", "fill", "load", "assign"},
        put: Content(target) \cup {None}]

TypeOK ==
    /\ target \in {"config", "signals", "decoys"}
    /\ disk \in Content(target) /\ wanted \in Content(target)
    /\ mem \in (IF target = "decoys" THEN Decoys ELSE Doc)
    /\ proxy \in Doc \cup {None}
    /\ pending \in BOOLEAN /\ overlapped \in BOOLEAN /\ clashed \in BOOLEAN
    /\ saves \in 0..MaxSaves[target] /\ failed \in 0..MaxFailed
    /\ \A c \in Clients : job[c] \in Job

Init ==
    /\ target \in {"config", "signals", "decoys"}
    /\ disk = IF target = "decoys" THEN DefaultDecoys ELSE Empty(target)
    /\ mem = IF target = "decoys" THEN DefaultDecoys ELSE Load(EmptyDoc)
    /\ proxy = Load(EmptyDoc) /\ pending = FALSE
    /\ job = [c \in Clients |-> Idle]
    /\ saves = 0 /\ failed = 0
    /\ wanted = disk /\ overlapped = FALSE /\ clashed = FALSE

AtRest == \A c \in Clients : job[c] = Idle
Writing(c) == job[c].at \in {"fill", "load", "assign"}

(* A request that has read what it needs and knows what it will write.     *)
Begin(c, f, at, put, want) ==
    /\ target = f /\ job[c] = Idle /\ saves < MaxSaves[f]
    /\ saves' = saves + 1
    /\ job' = [job EXCEPT ![c] = [at |-> at, put |-> put]]
    /\ wanted' = want
    /\ overlapped' = (overlapped \/ ~AtRest)

-----------------------------------------------------------------------------
(* settingsPOST in form mode patches every form field; apiConfigPut those  *)
(* its body has, at least one. Both read the file and patch what they read.*)
FormPatches == [Sections -> FormValues]
BodyPatches == UNION {[S -> FormValues] : S \in SUBSET Sections \ {{}}}

(* For the history: what a body asks for, whatever the patcher does.       *)
AsAsked(doc, patch) ==
    IF doc = Broken THEN Broken
    ELSE [s \in Sections |->
            IF s \notin DOMAIN patch THEN doc[s]
            ELSE [form |-> patch[s], raw |-> IF doc[s] = Bad THEN None ELSE doc[s]["raw"]]]

SavePatched(c, patch) ==
    /\ disk # Broken
    /\ Begin(c, "config", "open", ApplyYAMLPatches(disk, patch), AsAsked(wanted, patch))
    /\ UNCHANGED <<target, disk, mem, pending, proxy, failed, clashed>>

SaveForm(c) == \E patch \in FormPatches : SavePatched(c, patch)
PutConfig(c) == \E patch \in BodyPatches : SavePatched(c, patch)

(* settingsPOST in raw mode writes what it is given, apiConfigRawPut too   *)
(* unless it is empty.                                                     *)
SaveRaw(c) ==
    \E text \in RawDocs :
        /\ Begin(c, "config", "open", text, text)
        /\ UNCHANGED <<target, disk, mem, pending, proxy, failed, clashed>>

PutRaw(c) ==
    \E text \in RawDocs \ {EmptyDoc} :
        /\ Begin(c, "config", "open", text, text)
        /\ UNCHANGED <<target, disk, mem, pending, proxy, failed, clashed>>

(* signalsPOST: a form row has a checkbox and a number; the override names *)
(* only what differs from the defaults, and custom signals are kept.       *)
FormOverride == {o \in Override : o.enabled # "on"}

(* Variant: the form forgets the custom signals.                           *)
DropCustom(over) == [over |-> over, custom |-> {}]
SignalsPost(over) == [over |-> over, custom |-> LoadSignalsFile(disk).custom]

SaveSignals(c) ==
    \E over \in [Signals -> FormOverride] :
        /\ Begin(c, "signals", "open", SignalsPost(over),
                 [over |-> over, custom |-> LoadSignalsFile(wanted).custom])
        /\ UNCHANGED <<target, disk, mem, pending, proxy, failed, clashed>>

(* apiSignalsPut: any overrides; custom signals kept if the body has none. *)
PutSignals(c) ==
    \E over \in [Signals -> Override], new \in SUBSET (SUBSET Custom) :
        LET Kept(doc) == IF new = {} THEN LoadSignalsFile(doc).custom ELSE UNION new IN
        /\ Cardinality(new) <= 1
        /\ Begin(c, "signals", "open", [over |-> over, custom |-> Kept(disk)],
                 [over |-> over, custom |-> Kept(wanted)])
        /\ UNCHANGED <<target, disk, mem, pending, proxy, failed, clashed>>

(* handleRuleEdit and apiRuleFile write signals.yaml as any other rule file.*)
SaveRuleFile(c) ==
    \E text \in {Broken, NoSignals} :
        /\ Begin(c, "signals", "open", text, text)
        /\ UNCHANGED <<target, disk, mem, pending, proxy, failed, clashed>>

(* decoyStore.add, remove and resetDefaults change the list under its lock;*)
(* save takes a copy of the list later.                                    *)
EditDecoys(c) ==
    /\ target = "decoys"
    /\ \E list \in {mem \cup {p} : p \in Paths} \cup {mem \ {p} : p \in Paths} \cup {DefaultDecoys} :
        /\ Begin(c, "decoys", "list", None, list)
        /\ mem' = list
        /\ UNCHANGED <<target, disk, pending, proxy, failed, clashed>>

Copy(c, list) ==
    /\ job[c].at = "list"
    /\ job' = [job EXCEPT ![c] = [at |-> "open", put |-> list]]
    /\ clashed' = (clashed \/ \E d \in Clients \ {c} : job[d].at \in {"open", "fill"})
    /\ UNCHANGED <<target, disk, mem, pending, proxy, saves, failed, wanted, overlapped>>

(* Variant: the copy is what the file held and this edit, not the list.    *)
CopyOfFile(c) == disk # Broken /\ \E p \in Paths : Copy(c, disk \cup {p})

CopyDecoys(c) == Copy(c, mem)

-----------------------------------------------------------------------------
(* os.WriteFile: open with O_TRUNC, then write. Two writers that have both *)
(* truncated write over each other from the start of the file.             *)
Truncate(c) ==
    /\ job[c].at = "open"
    /\ disk' = Empty(target)
    /\ job' = [job EXCEPT ![c].at = "fill"]
    /\ clashed' = (clashed \/ \E d \in Clients \ {c} : Writing(d))
    /\ UNCHANGED <<target, mem, pending, proxy, saves, failed, wanted, overlapped>>

Fill(c) ==
    /\ job[c].at = "fill"
    /\ \/ disk' = job[c].put
       \/ disk # Empty(target) /\ disk' = Broken
    /\ job' = [job EXCEPT ![c] = IF target = "config" THEN [@ EXCEPT !.at = "load"] ELSE Idle]
    /\ UNCHANGED <<target, mem, pending, proxy, saves, failed, wanted, overlapped, clashed>>

(* The open or the write fails; the request reports it and nothing more.   *)
FailWrite(c) ==
    /\ job[c].at \in {"open", "fill"} /\ failed < MaxFailed
    /\ failed' = failed + 1
    /\ job' = [job EXCEPT ![c] = Idle]
    /\ UNCHANGED <<target, disk, mem, pending, proxy, saves, wanted, overlapped, clashed>>

(* reloadConfig: read the file; if it loads, replace Server.cfg. Its error *)
(* is ignored, and the pending mark is set either way.                     *)
ReloadConfig(c) ==
    /\ job[c].at = "load"
    /\ job' = [job EXCEPT ![c] = [at |-> "assign", put |-> disk]]
    /\ UNCHANGED <<target, disk, mem, pending, proxy, saves, failed, wanted, overlapped, clashed>>

AssignWith(c, mark) ==
    /\ job[c].at = "assign"
    /\ mem' = IF Loads(job[c].put) THEN Load(job[c].put) ELSE mem
    /\ pending' = (pending \/ mark)
    /\ job' = [job EXCEPT ![c] = Idle]
    /\ UNCHANGED <<target, disk, proxy, saves, failed, wanted, overlapped, clashed>>

(* Variant: the mark only for a file that loads.                           *)
AssignIfLoaded(c) == AssignWith(c, Loads(job[c].put))

Assign(c) == AssignWith(c, TRUE)

(* The proxy is restarted; a configuration that does not load is fatal.    *)
RestartProxy ==
    /\ target = "config"
    /\ proxy' = IF Loads(disk) THEN Load(disk) ELSE None
    /\ UNCHANGED <<target, disk, mem, pending, job, saves, failed, wanted, overlapped, clashed>>

(* Variant: New keeps the nil that config.Load answers for such a file.    *)
StartNil(doc) == IF Loads(doc) THEN Load(doc) ELSE None

Start(doc) == IF Loads(doc) THEN Load(doc) ELSE ZeroConfig

(* The console is restarted, whatever its requests were doing: New loads   *)
(* the configuration or starts with an empty one; newDecoyStore loads the  *)
(* list or writes the default one.                                         *)
RestartConsole ==
    /\ failed < MaxFailed /\ failed' = failed + 1
    /\ job' = [c \in Clients |-> Idle] /\ pending' = FALSE
    /\ IF target = "decoys"
       THEN /\ mem' = IF disk = Broken THEN DefaultDecoys ELSE disk
            /\ disk' = mem'
       ELSE /\ mem' = IF target # "config" THEN mem
                      ELSE Start(disk)
            /\ disk' = disk
    /\ UNCHANGED <<target, proxy, saves, wanted, overlapped, clashed>>

Next ==
    \/ \E c \in Clients :
        \/ SaveForm(c) \/ PutConfig(c) \/ SaveRaw(c) \/ PutRaw(c)
        \/ SaveSignals(c) \/ PutSignals(c) \/ SaveRuleFile(c)
        \/ EditDecoys(c) \/ CopyDecoys(c)
        \/ Truncate(c) \/ Fill(c) \/ FailWrite(c) \/ ReloadConfig(c) \/ Assign(c)
    \/ RestartProxy \/ RestartConsole

Spec == Init /\ [][Next]_vars

-----------------------------------------------------------------------------
Quiet == AtRest /\ failed = 0

(* Saves that do not overlap leave in the file what they say: "Any field   *)
(* omitted from the body is left untouched in the file" (api.go:169), the  *)
(* raw-only keys survive a form, a form and a body without custom signals  *)
(* keep the custom signals, a section that was no mapping is healed.       *)
SavedAsAsked == Quiet /\ ~overlapped => disk = wanted

(* Once no save is in progress the memory of the console is what the file  *)
(* holds, however the reads, copies and writes of the saves interleaved,   *)
(* unless two of them wrote at once: the configuration it shows, if the    *)
(* file loads (reloadConfig after the write), and the decoys it serves     *)
(* (decoyStore.save copies the list after the lock was given up).          *)
MemoryIsFile ==
    Quiet /\ ~clashed =>
        /\ target = "config" /\ Loads(disk) => mem = Load(disk)
        /\ target = "decoys" => mem = disk

(* An unset pending mark means that the proxy runs with what is in the     *)
(* file (admin.go: "proxy needs restart to apply config changes"), also    *)
(* after saves of text that does not load and after restarts of the proxy  *)
(* in the middle of a save.                                                *)
PendingTells ==
    target = "config" /\ Quiet /\ ~pending => Loads(disk) /\ proxy = Load(disk)

(* What signalsGET shows and what Scorer.applySignalConfig does agree for  *)
(* every signal the console lists (signals.go: "Only list signals you want *)
(* to change — absent signals use engine defaults"). They do not: the      *)
(* loader reads an absent `enabled` as false, and some names differ.       *)
Entry(doc, name) == name \in Signals /\ doc.over[name] # NoOverride
Shown(doc, s) == [on |-> doc.over[s].enabled # "off", points |-> doc.over[s].points]
Scored(doc, s) ==
    IF Entry(doc, EngineName[s])
    THEN [on |-> doc.over[EngineName[s]].enabled = "on",
          points |-> doc.over[EngineName[s]].points]
    ELSE [on |-> TRUE, points |-> 0]

ShownIsScored ==
    target = "signals" /\ Quiet /\ disk # Broken
    => \A s \in Signals : Shown(disk, s).on = Scored(disk, s).on
=============================================================================
