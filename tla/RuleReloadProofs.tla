-------------------------- MODULE RuleReloadProofs --------------------------
(***************************************************************************)
(* What TLAPS proves of module RuleReload, for any number of files, rules  *)
(* and releases, and any bound on changes and faults: what is served once  *)
(* the watcher rests is what the files hold, the version file tells the    *)
(* truth, and merging the files keeps what each of them says.              *)
(***************************************************************************)
EXTENDS RuleReload, FoldLemmas

-----------------------------------------------------------------------------
(***************************************************************************)
(* The inductive invariant. A handler that runs alone while nothing is     *)
(* pending sees what is on disk, at each step of its reading.              *)
(***************************************************************************)
File == RuleSet \cup {Absent, Broken}
Handler == [id : Nat, step : {"root", "list", "walk", "redact"}, seen : [Files -> File],
            left : SUBSET (Files \ {1}), alone : BOOLEAN]

Typed ==
    /\ kind \in Kinds /\ boot \in {"load", "watch", "done"}
    /\ disk \in [Files -> File]
    /\ writing = <<>> \/ writing \in Files \X RuleSet
    /\ subdir \in BOOLEAN /\ watched \in BOOLEAN /\ overlapped \in BOOLEAN /\ mixed \in BOOLEAN
    /\ events \in Nat /\ timer \in Nat /\ seq \in Nat /\ changes \in Nat /\ faults \in Nat
    /\ due \subseteq Nat
    /\ loads \subseteq Handler
    /\ published \in RuleSet \cup {Nil} /\ redactor \in RuleSet \cup {Nil}
    /\ installed \in DOMAIN Release \cup {"none"}
    /\ update = <<>> \/ update \in (DOMAIN Release) \X SUBSET Files
    /\ unseen \subseteq Causes

(* The root-only rule sets have no other file, on disk or being written,   *)
(* and `update-rules` writes files its archive has.                        *)
FilesOfKind ==
    /\ kind \in RootOnly => \A f \in Files \ {1} : disk[f] = Absent
    /\ writing # <<>> => MayHave(writing[1])
    /\ update # <<>> => \A f \in update[2] : MayHave(f) /\ f \in DOMAIN Release[update[1]]

Timers ==
    /\ timer # 0 => timer = seq

(* A handler that runs alone is the only one.                              *)
AloneIsAlone ==
    /\ \A h \in loads : h.alone => loads = {h}
    /\ ~overlapped => \A h \in loads : h.alone

NothingPending == events = 0 /\ timer = 0 /\ seq \notin due
UpToDate == unseen = {} /\ NothingPending

SeesDisk(h) ==
    CASE h.step = "root" -> h.left = {} /\ \A f \in Files : h.seen[f] = Absent
      [] h.step = "list" -> /\ h.left = {} /\ h.seen[1] = disk[1]
                            /\ kind \notin RootOnly
                            /\ \A f \in Files \ {1} : h.seen[f] = Absent
      [] h.step = "walk" -> /\ h.seen[1] = disk[1]
                            /\ \A f \in Files \ {1} :
                                  IF f \in h.left THEN disk[f] # Absent ELSE h.seen[f] = disk[f]
      [] OTHER -> /\ \A f \in Files : h.seen[f] = disk[f]

LoadsSeeDisk == UpToDate => \A h \in loads : h.alone => SeesDisk(h)

RedactsServed ==
    \A h \in loads : h.step = "redact" =>
       /\ kind = "ml" /\ Found(h) # Failed
       /\ h.alone => published = Found(h)

RedactorFollows ==
    kind = "ml" /\ ~overlapped /\ (\A h \in loads : h.step # "redact") => redactor = published

ServesDisk == UpToDate /\ ~overlapped /\ loads = {} => ShowsDisk

UpdateIsWhole ==
    ~mixed =>
      /\ update # <<>> =>
           \A f \in DOMAIN Release[update[1]] :
              MayHave(f) /\ f \notin update[2] => disk[f] = Release[update[1]][f]
      /\ update = <<>> /\ installed # "none" =>
           \A f \in DOMAIN Release[installed] : MayHave(f) => disk[f] = Release[installed][f]

IInv == Typed /\ FilesOfKind /\ Timers /\ AloneIsAlone /\ LoadsSeeDisk /\ RedactsServed
        /\ RedactorFollows /\ ServesDisk /\ UpdateIsWhole

-----------------------------------------------------------------------------
(***************************************************************************)
(* The folds of the loaders, step by step.                                 *)
(***************************************************************************)
(* The values of Concat after each element.                                *)
ConcatSteps(r, n, list) ==
    /\ r[0] = <<>> /\ Concat(list) = r[n]
    /\ \A k \in 1..n : r[k] = r[k - 1] \o list[k].items
    /\ \A k \in 0..n : r[k] \in Seq(Item)

\* Concat is computed in as many steps as there are elements.
LEMMA ConcatTrace ==
    ASSUME NEW n \in Nat, NEW list \in [1..n -> RuleSet]
    PROVE  \E r : ConcatSteps(r, n, list)
<1> DEFINE S == Seq(Item)
           E == RuleSet
           O == [p \in S \X E |-> p[1] \o p[2].items]
           It(g) == g = [s \in SUBSET (1..n) |->
                     IF s = {} THEN <<>> ELSE g[s \ {Max(s)}] \o list[Max(s)].items]
           F == CHOOSE g : It(g)
<1>0. ASSUME NEW a \in S, NEW x \in E PROVE a \o x.items \in S
    BY DEF RuleSet
<1>1. O \in [S \X E -> S]
    BY <1>0
<1>2. <<>> \in S /\ list \in [1..n -> E]
    OBVIOUS
<1>3. PICK g : IsFold(g, S, O, <<>>, n, list)
  <2> HIDE DEF O, S, E
  <2> QED
    BY <1>1, <1>2, FoldExists
<1>4. It(g)
  <2>1. ASSUME NEW s \in SUBSET (1..n), s # {}
        PROVE  g[s] = g[s \ {Max(s)}] \o list[Max(s)].items
    <3>1. g[s \ {Max(s)}] \in S /\ list[Max(s)] \in E
      <4>1. s \ {Max(s)} \in SUBSET (1..n)
        OBVIOUS
      <4>2. Max(s) \in 1..n
        BY <2>1, MaxIn
      <4> QED
        BY <1>3, <4>1, <4>2 DEF IsFold
    <3>2. O[<<g[s \ {Max(s)}], list[Max(s)]>>] = g[s \ {Max(s)}] \o list[Max(s)].items
      BY <3>1
    <3>3. g[s] = O[<<g[s \ {Max(s)}], list[Max(s)]>>]
      <4> HIDE DEF O, S
      <4> QED
        BY <1>3, <2>1 DEF IsFold
    <3> QED
      BY <3>2, <3>3
  <2>2. g[{}] = <<>> /\ DOMAIN g = SUBSET (1..n)
    BY <1>3 DEF IsFold
  <2>3. g = [s \in SUBSET (1..n) |-> g[s]]
    BY <1>3 DEF IsFold
  <2> QED
    BY <2>1, <2>2, <2>3
<1>5. It(F)
  <2> HIDE DEF It
  <2> QED
    BY <1>4
<1>6. Concat(list) = F[1..n]
  <2>1. DOMAIN list = 1..n
    OBVIOUS
  <2> QED
    BY <2>1 DEF Concat, FoldLeft, MapThenFoldSet
<1> DEFINE r == [k \in 0..n |-> F[1..k]]
<1> HIDE DEF F
<1>7. r[0] = <<>>
    BY <1>5, 1..0 = {}
<1>8. ASSUME NEW k \in 1..n PROVE r[k] = r[k - 1] \o list[k].items
  <2>1. 1..k # {} /\ Max(1..k) = k /\ (1..k) \ {k} = 1..(k - 1)
    <3>1. k \in Nat \ {0}
      OBVIOUS
    <3> QED
      BY <3>1, UpTo
  <2>2. 1..k \in SUBSET (1..n)
    OBVIOUS
  <2>3. F[1..k] = F[1..(k - 1)] \o list[k].items
    BY <1>5, <2>1, <2>2
  <2>4. k \in 0..n /\ k - 1 \in 0..n
    OBVIOUS
  <2>5. r[k] = F[1..k] /\ r[k - 1] = F[1..(k - 1)]
    BY <2>4
  <2> HIDE DEF r
  <2> QED
    BY <2>3, <2>5
<1>9. r[n] = F[1..n]
    OBVIOUS
<1> HIDE DEF r
<1>10. \A k \in 0..n : r[k] \in S
  <2> HIDE DEF S, E
  <2>1. r[0] \in S
    BY <1>2, <1>7
  <2>2. \A k \in 1..n : r[k - 1] \in S => r[k] \in S
    BY <1>0, <1>2, <1>8
  <2> QED
    BY <2>1, <2>2, TraceTyped
<1> QED
    BY <1>6, <1>7, <1>8, <1>9, <1>10 DEF ConcatSteps

(* The values of LastSet after each element.                               *)
LastSetSteps(r, n, list) ==
    /\ r[0] = 0 /\ LastSet(list) = r[n]
    /\ \A k \in 1..n : r[k] = IF list[k].knob # 0 THEN list[k].knob ELSE r[k - 1]
    /\ \A k \in 0..n : r[k] \in Nat

\* LastSet is computed in as many steps as there are elements.
LEMMA LastSetTrace ==
    ASSUME NEW n \in Nat, NEW list \in [1..n -> RuleSet]
    PROVE  \E r : LastSetSteps(r, n, list)
<1> DEFINE S == Nat
           E == RuleSet
           O == [p \in S \X E |-> IF p[2].knob # 0 THEN p[2].knob ELSE p[1]]
           It(g) == g = [s \in SUBSET (1..n) |->
                     IF s = {} THEN 0 ELSE IF list[Max(s)].knob # 0
                                           THEN list[Max(s)].knob ELSE g[s \ {Max(s)}]]
           F == CHOOSE g : It(g)
<1>0. ASSUME NEW a \in S, NEW x \in E PROVE (IF x.knob # 0 THEN x.knob ELSE a) \in S
    BY DEF RuleSet
<1>1. O \in [S \X E -> S]
    BY <1>0
<1>2. 0 \in S /\ list \in [1..n -> E]
    OBVIOUS
<1>3. PICK g : IsFold(g, S, O, 0, n, list)
  <2> HIDE DEF O, S, E
  <2> QED
    BY <1>1, <1>2, FoldExists
<1>4. It(g)
  <2>1. ASSUME NEW s \in SUBSET (1..n), s # {}
        PROVE  g[s] = IF list[Max(s)].knob # 0 THEN list[Max(s)].knob ELSE g[s \ {Max(s)}]
    <3>1. g[s \ {Max(s)}] \in S /\ list[Max(s)] \in E
      <4>1. s \ {Max(s)} \in SUBSET (1..n)
        OBVIOUS
      <4>2. Max(s) \in 1..n
        BY <2>1, MaxIn
      <4> QED
        BY <1>3, <4>1, <4>2 DEF IsFold
    <3>2. O[<<g[s \ {Max(s)}], list[Max(s)]>>] = IF list[Max(s)].knob # 0
                                                 THEN list[Max(s)].knob ELSE g[s \ {Max(s)}]
      BY <3>1
    <3>3. g[s] = O[<<g[s \ {Max(s)}], list[Max(s)]>>]
      <4> HIDE DEF O, S
      <4> QED
        BY <1>3, <2>1 DEF IsFold
    <3> QED
      BY <3>2, <3>3
  <2>2. g[{}] = 0 /\ DOMAIN g = SUBSET (1..n)
    BY <1>3 DEF IsFold
  <2>3. g = [s \in SUBSET (1..n) |-> g[s]]
    BY <1>3 DEF IsFold
  <2> QED
    BY <2>1, <2>2, <2>3
<1>5. It(F)
  <2> HIDE DEF It
  <2> QED
    BY <1>4
<1>6. LastSet(list) = F[1..n]
  <2>1. DOMAIN list = 1..n
    OBVIOUS
  <2> QED
    BY <2>1 DEF LastSet, FoldLeft, MapThenFoldSet
<1> DEFINE r == [k \in 0..n |-> F[1..k]]
<1> HIDE DEF F
<1>7. r[0] = 0
    BY <1>5, 1..0 = {}
<1>8. ASSUME NEW k \in 1..n PROVE r[k] = IF list[k].knob # 0 THEN list[k].knob ELSE r[k - 1]
  <2>1. 1..k # {} /\ Max(1..k) = k /\ (1..k) \ {k} = 1..(k - 1)
    <3>1. k \in Nat \ {0}
      OBVIOUS
    <3> QED
      BY <3>1, UpTo
  <2>2. 1..k \in SUBSET (1..n)
    OBVIOUS
  <2>3. F[1..k] = IF list[k].knob # 0 THEN list[k].knob ELSE F[1..(k - 1)]
    BY <1>5, <2>1, <2>2
  <2>4. k \in 0..n /\ k - 1 \in 0..n
    OBVIOUS
  <2>5. r[k] = F[1..k] /\ r[k - 1] = F[1..(k - 1)]
    BY <2>4
  <2> HIDE DEF r
  <2> QED
    BY <2>3, <2>5
<1>9. r[n] = F[1..n]
    OBVIOUS
<1> HIDE DEF r
<1>10. \A k \in 0..n : r[k] \in S
  <2> HIDE DEF S, E
  <2>1. r[0] \in S
    BY <1>2, <1>7
  <2>2. \A k \in 1..n : r[k - 1] \in S => r[k] \in S
    BY <1>0, <1>2, <1>8
  <2> QED
    BY <2>1, <2>2, TraceTyped
<1> QED
    BY <1>6, <1>7, <1>8, <1>9, <1>10 DEF LastSetSteps

(* Parsed, one range after the other. *)
ParsedSteps(r, n, list) ==
    /\ r[0] = <<>> /\ Parsed(list) = r[n]
    /\ \A k \in 1..n : r[k] = (IF list[k] # 0 THEN Append(r[k - 1], list[k]) ELSE r[k - 1])
    /\ \A k \in 0..n : r[k] \in Seq(Nat)

\* Parsed is computed in as many steps as there are elements.
LEMMA ParsedTrace ==
    ASSUME NEW n \in Nat, NEW list \in [1..n -> Nat]
    PROVE  \E r : ParsedSteps(r, n, list)
<1> DEFINE S == Seq(Nat)
           E == Nat
           O == [p \in S \X E |-> (IF p[2] # 0 THEN Append(p[1], p[2]) ELSE p[1])]
           It(g) == g = [s \in SUBSET (1..n) |->
                     IF s = {} THEN <<>> ELSE (IF list[Max(s)] # 0
                                   THEN Append(g[s \ {Max(s)}], list[Max(s)]) ELSE g[s \ {Max(s)}])]
           F == CHOOSE g : It(g)
<1>0. ASSUME NEW a \in S, NEW x \in E PROVE (IF x # 0 THEN Append(a, x) ELSE a) \in S
    OBVIOUS
<1>1. O \in [S \X E -> S]
    BY <1>0
<1>2. <<>> \in S /\ list \in [1..n -> E]
    OBVIOUS
<1>3. PICK g : IsFold(g, S, O, <<>>, n, list)
  <2> HIDE DEF O, S, E
  <2> QED
    BY <1>1, <1>2, FoldExists
<1>4. It(g)
  <2>1. ASSUME NEW s \in SUBSET (1..n), s # {}
        PROVE  g[s] = (IF list[Max(s)] # 0
                       THEN Append(g[s \ {Max(s)}], list[Max(s)]) ELSE g[s \ {Max(s)}])
    <3>1. g[s \ {Max(s)}] \in S /\ list[Max(s)] \in E
      <4>1. s \ {Max(s)} \in SUBSET (1..n)
        OBVIOUS
      <4>2. Max(s) \in 1..n
        BY <2>1, MaxIn
      <4> QED
        BY <1>3, <4>1, <4>2 DEF IsFold
    <3>2. O[<<g[s \ {Max(s)}], list[Max(s)]>>] = (IF list[Max(s)] # 0
                                    THEN Append(g[s \ {Max(s)}], list[Max(s)]) ELSE g[s \ {Max(s)}])
      BY <3>1
    <3>3. g[s] = O[<<g[s \ {Max(s)}], list[Max(s)]>>]
      <4> HIDE DEF O, S
      <4> QED
        BY <1>3, <2>1 DEF IsFold
    <3> QED
      BY <3>2, <3>3
  <2>2. g[{}] = <<>> /\ DOMAIN g = SUBSET (1..n)
    BY <1>3 DEF IsFold
  <2>3. g = [s \in SUBSET (1..n) |-> g[s]]
    BY <1>3 DEF IsFold
  <2> QED
    BY <2>1, <2>2, <2>3
<1>5. It(F)
  <2> HIDE DEF It
  <2> QED
    BY <1>4
<1>6. Parsed(list) = F[1..n]
  <2>1. DOMAIN list = 1..n
    OBVIOUS
  <2> QED
    BY <2>1 DEF Parsed, FoldLeft, MapThenFoldSet
<1> DEFINE r == [k \in 0..n |-> F[1..k]]
<1> HIDE DEF F
<1>7. r[0] = <<>>
    BY <1>5, 1..0 = {}
<1>8. ASSUME NEW k \in 1..n PROVE r[k] = (IF list[k] # 0
                                          THEN Append(r[k - 1], list[k]) ELSE r[k - 1])
  <2>1. 1..k # {} /\ Max(1..k) = k /\ (1..k) \ {k} = 1..(k - 1)
    <3>1. k \in Nat \ {0}
      OBVIOUS
    <3> QED
      BY <3>1, UpTo
  <2>2. 1..k \in SUBSET (1..n)
    OBVIOUS
  <2>3. F[1..k] = (IF list[k] # 0 THEN Append(F[1..(k - 1)], list[k]) ELSE F[1..(k - 1)])
    BY <1>5, <2>1, <2>2
  <2>4. k \in 0..n /\ k - 1 \in 0..n
    OBVIOUS
  <2>5. r[k] = F[1..k] /\ r[k - 1] = F[1..(k - 1)]
    BY <2>4
  <2> HIDE DEF r
  <2> QED
    BY <2>3, <2>5
<1>9. r[n] = F[1..n]
    OBVIOUS
<1> HIDE DEF r
<1>10. \A k \in 0..n : r[k] \in S
  <2> HIDE DEF S, E
  <2>1. r[0] \in S
    BY <1>2, <1>7
  <2>2. \A k \in 1..n : r[k - 1] \in S => r[k] \in S
    BY <1>0, <1>2, <1>8
  <2> QED
    BY <2>1, <2>2, TraceTyped
<1> QED
    BY <1>6, <1>7, <1>8, <1>9, <1>10 DEF ParsedSteps

(* The values of Routes after each element.                                *)
RoutesSteps(r, n, list, any) ==
    /\ r[0] = <<>> /\ Routes(list, any) = r[n]
    /\ \A k \in 1..n : r[k] = (IF list[k].any = any THEN Append(r[k - 1], list[k]) ELSE r[k - 1])
    /\ \A k \in 0..n : r[k] \in Seq(Item)

\* Routes is computed in as many steps as there are elements.
LEMMA RoutesTrace ==
    ASSUME NEW n \in Nat, NEW list \in [1..n -> Item], NEW any \in BOOLEAN
    PROVE  \E r : RoutesSteps(r, n, list, any)
<1> DEFINE S == Seq(Item)
           E == Item
           O == [p \in S \X E |-> (IF p[2].any = any THEN Append(p[1], p[2]) ELSE p[1])]
           It(g) == g = [s \in SUBSET (1..n) |->
                     IF s = {} THEN <<>> ELSE (IF list[Max(s)].any = any
                                   THEN Append(g[s \ {Max(s)}], list[Max(s)]) ELSE g[s \ {Max(s)}])]
           F == CHOOSE g : It(g)
<1>0. ASSUME NEW a \in S, NEW x \in E PROVE (IF x.any = any THEN Append(a, x) ELSE a) \in S
    OBVIOUS
<1>1. O \in [S \X E -> S]
    BY <1>0
<1>2. <<>> \in S /\ list \in [1..n -> E]
    OBVIOUS
<1>3. PICK g : IsFold(g, S, O, <<>>, n, list)
  <2> HIDE DEF O, S, E
  <2> QED
    BY <1>1, <1>2, FoldExists
<1>4. It(g)
  <2>1. ASSUME NEW s \in SUBSET (1..n), s # {}
        PROVE  g[s] = (IF list[Max(s)].any = any
                       THEN Append(g[s \ {Max(s)}], list[Max(s)]) ELSE g[s \ {Max(s)}])
    <3>1. g[s \ {Max(s)}] \in S /\ list[Max(s)] \in E
      <4>1. s \ {Max(s)} \in SUBSET (1..n)
        OBVIOUS
      <4>2. Max(s) \in 1..n
        BY <2>1, MaxIn
      <4> QED
        BY <1>3, <4>1, <4>2 DEF IsFold
    <3>2. O[<<g[s \ {Max(s)}], list[Max(s)]>>] = (IF list[Max(s)].any = any
                                    THEN Append(g[s \ {Max(s)}], list[Max(s)]) ELSE g[s \ {Max(s)}])
      BY <3>1
    <3>3. g[s] = O[<<g[s \ {Max(s)}], list[Max(s)]>>]
      <4> HIDE DEF O, S
      <4> QED
        BY <1>3, <2>1 DEF IsFold
    <3> QED
      BY <3>2, <3>3
  <2>2. g[{}] = <<>> /\ DOMAIN g = SUBSET (1..n)
    BY <1>3 DEF IsFold
  <2>3. g = [s \in SUBSET (1..n) |-> g[s]]
    BY <1>3 DEF IsFold
  <2> QED
    BY <2>1, <2>2, <2>3
<1>5. It(F)
  <2> HIDE DEF It
  <2> QED
    BY <1>4
<1>6. Routes(list, any) = F[1..n]
  <2>1. DOMAIN list = 1..n
    OBVIOUS
  <2> QED
    BY <2>1 DEF Routes, FoldLeft, MapThenFoldSet
<1> DEFINE r == [k \in 0..n |-> F[1..k]]
<1> HIDE DEF F
<1>7. r[0] = <<>>
    BY <1>5, 1..0 = {}
<1>8. ASSUME NEW k \in 1..n PROVE r[k] = (IF list[k].any = any
                                          THEN Append(r[k - 1], list[k]) ELSE r[k - 1])
  <2>1. 1..k # {} /\ Max(1..k) = k /\ (1..k) \ {k} = 1..(k - 1)
    <3>1. k \in Nat \ {0}
      OBVIOUS
    <3> QED
      BY <3>1, UpTo
  <2>2. 1..k \in SUBSET (1..n)
    OBVIOUS
  <2>3. F[1..k] = (IF list[k].any = any THEN Append(F[1..(k - 1)], list[k]) ELSE F[1..(k - 1)])
    BY <1>5, <2>1, <2>2
  <2>4. k \in 0..n /\ k - 1 \in 0..n
    OBVIOUS
  <2>5. r[k] = F[1..k] /\ r[k - 1] = F[1..(k - 1)]
    BY <2>4
  <2> HIDE DEF r
  <2> QED
    BY <2>3, <2>5
<1>9. r[n] = F[1..n]
    OBVIOUS
<1> HIDE DEF r
<1>10. \A k \in 0..n : r[k] \in S
  <2> HIDE DEF S, E
  <2>1. r[0] \in S
    BY <1>2, <1>7
  <2>2. \A k \in 1..n : r[k - 1] \in S => r[k] \in S
    BY <1>0, <1>2, <1>8
  <2> QED
    BY <2>1, <2>2, TraceTyped
<1> QED
    BY <1>6, <1>7, <1>8, <1>9, <1>10 DEF RoutesSteps

\* SelectInSeq finds the first item with a key.
LEMMA FirstWith ==
    ASSUME NEW items \in Seq(Item), NEW item \in Item,
           \E i \in DOMAIN items : items[i].key = item.key
    PROVE  \E p \in DOMAIN items :
              /\ p = SelectInSeq(items, LAMBDA x : x.key = item.key)
              /\ items[p].key = item.key
<1> DEFINE I == {i \in 1..Len(items) : items[i].key = item.key}
<1>1. I \in SUBSET Nat /\ I # {}
    OBVIOUS
<1>2. Min(I) \in I
    BY <1>1, HasLeast
<1>3. SelectInSeq(items, LAMBDA x : x.key = item.key) = Min(I)
    BY <1>1 DEF SelectInSeq
<1> HIDE DEF I
<1> DEFINE p == SelectInSeq(items, LAMBDA x : x.key = item.key)
<1>4. p \in I
    BY <1>2, <1>3
<1>5. p \in DOMAIN items /\ items[p].key = item.key
  <2> HIDE DEF p
  <2> QED
    BY <1>4 DEF I
<1> QED
    BY <1>5

Put(items, item) == Upsert(items, item, LAMBDA x : item)

\* Writing an item puts it among the items; those of other keys stay, and no key is twice.
LEMMA PutIs ==
    ASSUME NEW items \in Seq(Item), NEW item \in Item
    PROVE  /\ Put(items, item) \in Seq(Item)
           /\ item \in ToSet(Put(items, item))
           /\ \A y \in ToSet(items) : y.key # item.key => y \in ToSet(Put(items, item))
           /\ ToSet(Put(items, item)) \subseteq ToSet(items) \cup {item}
           /\ (\A i, j \in DOMAIN items : items[i].key = items[j].key => i = j)
              => (\A i, j \in DOMAIN Put(items, item) :
                     Put(items, item)[i].key = Put(items, item)[j].key => i = j)
<1>1. CASE \E i \in DOMAIN items : items[i].key = item.key
  <2>1. PICK p \in DOMAIN items :
              /\ p = SelectInSeq(items, LAMBDA x : x.key = item.key)
              /\ items[p].key = item.key
    BY <1>1, FirstWith
  <2>2. Put(items, item) = [items EXCEPT ![p] = item]
    BY <1>1, <2>1 DEF Put, Upsert
  <2>3. /\ Put(items, item) \in Seq(Item) /\ DOMAIN Put(items, item) = DOMAIN items
        /\ Put(items, item)[p] = item
        /\ \A i \in DOMAIN items : i # p => Put(items, item)[i] = items[i]
    BY <2>1, <2>2
  <2>4. /\ item \in ToSet(Put(items, item))
        /\ \A y \in ToSet(items) : y.key # item.key => y \in ToSet(Put(items, item))
        /\ ToSet(Put(items, item)) \subseteq ToSet(items) \cup {item}
    BY <2>1, <2>3 DEF ToSet
  <2>5. ASSUME \A i, j \in DOMAIN items : items[i].key = items[j].key => i = j
        PROVE  \A i, j \in DOMAIN Put(items, item) :
                     Put(items, item)[i].key = Put(items, item)[j].key => i = j
    BY ZenonT(60), <2>1, <2>3, <2>5
  <2> QED
    BY <2>3, <2>4, <2>5
<1>2. CASE ~ \E i \in DOMAIN items : items[i].key = item.key
  <2>1. Put(items, item) = Append(items, item)
    BY <1>2 DEF Put, Upsert
  <2>2. /\ Append(items, item) \in Seq(Item) /\ Len(Append(items, item)) = Len(items) + 1
        /\ DOMAIN Append(items, item) = 1..(Len(items) + 1)
        /\ Append(items, item)[Len(items) + 1] = item
        /\ \A i \in DOMAIN items : Append(items, item)[i] = items[i]
    OBVIOUS
  <2>3. Len(items) \in Nat /\ DOMAIN items = 1..Len(items)
    OBVIOUS
  <2> QED
    BY <1>2, <2>1, <2>2, <2>3 DEF ToSet
<1> QED
    BY <1>1, <1>2

(* The ranges of the categories of a name.                                 *)
RangesOf(items, key) == UNION {ToSet(items[j].cidrs) : j \in Positions(items, key)}

\* The ranges of two lists, one after the other.
LEMMA RangesJoin ==
    ASSUME NEW a \in Seq(Nat), NEW b \in Seq(Nat)
    PROVE  ToSet(a \o b) = ToSet(a) \cup ToSet(b)
<1> DEFINE c == a \o b
<1>1. /\ c \in Seq(Nat) /\ Len(c) = Len(a) + Len(b) /\ Len(a) \in Nat /\ Len(b) \in Nat
      /\ \A i \in 1..Len(a) : c[i] = a[i]
      /\ \A i \in 1..Len(b) : c[Len(a) + i] = b[i]
    BY ConcatKeeps
<1>2. DOMAIN a = 1..Len(a) /\ DOMAIN b = 1..Len(b)
    OBVIOUS
<1> HIDE DEF c
<1>3. DOMAIN c = 1..Len(c)
    BY <1>1
<1>4. ToSet(a) \cup ToSet(b) \subseteq ToSet(c)
  <2>1. \A i \in 1..Len(a) : i \in DOMAIN c
    BY <1>1, <1>3
  <2>2. \A i \in 1..Len(b) : Len(a) + i \in DOMAIN c
    BY <1>1, <1>3
  <2> QED
    BY <1>1, <1>2, <2>1, <2>2 DEF ToSet
<1>5. ASSUME NEW i \in DOMAIN c PROVE c[i] \in ToSet(a) \cup ToSet(b)
  <2>1. i \in 1..Len(a) \/ (i - Len(a) \in 1..Len(b) /\ Len(a) + (i - Len(a)) = i)
    BY <1>1, <1>3
  <2> QED
    BY <1>1, <1>2, <2>1 DEF ToSet
<1> QED
    BY <1>4, <1>5 DEF c, ToSet

(* m is items with the category merged, as the name key sees it.           *)
Adds(m, items, item, key) ==
    /\ key # item.key => /\ Positions(m, key) = Positions(items, key)
                         /\ RangesOf(m, key) = RangesOf(items, key)
    /\ key = item.key =>
          /\ Positions(items, key) # {} => Positions(m, key) = Positions(items, key)
          /\ Positions(items, key) = {} => \E p : Positions(m, key) = {p}
          /\ RangesOf(m, key) = RangesOf(items, key) \cup ToSet(item.cidrs)

\* Merging a category adds its ranges to those of its name, once; the others stay.
LEMMA MergedIs ==
    ASSUME NEW items \in Seq(Item), NEW item \in Item
    PROVE  /\ Merged(items, item) \in Seq(Item)
           /\ \A key : Adds(Merged(items, item), items, item, key)
<1>0. SUFFICES ASSUME NEW key
               PROVE  Merged(items, item) \in Seq(Item) /\ Adds(Merged(items, item), items, item, key)
    OBVIOUS
<1> DEFINE m == Merged(items, item)
<1>1. CASE \E i \in DOMAIN items : items[i].key = item.key
  <2>1. PICK p \in DOMAIN items :
              /\ p = SelectInSeq(items, LAMBDA x : x.key = item.key)
              /\ items[p].key = item.key
    BY <1>1, FirstWith
  <2> DEFINE new == [items[p] EXCEPT !.val = IF item.val # 0 THEN item.val ELSE @,
                                     !.cidrs = @ \o item.cidrs]
  <2>2. m = [items EXCEPT ![p] = new]
    BY <1>1, <2>1 DEF Merged, Upsert
  <2>3. items[p] \in Item /\ items[p].cidrs \in Seq(Nat) /\ item.cidrs \in Seq(Nat)
    <3>1. items[p] \in Item
      BY <2>1
    <3> QED
      BY <3>1 DEF Item
  <2>4. new \in Item /\ new.key = items[p].key /\ new.cidrs = items[p].cidrs \o item.cidrs
    <3> DEFINE old == items[p]
               v == IF item.val # 0 THEN item.val ELSE old.val
               c == old.cidrs \o item.cidrs
    <3>1. v \in Nat /\ c \in Seq(Nat) /\ old \in Item
      BY <2>3 DEF Item
    <3>2. new = [old EXCEPT !.val = v, !.cidrs = c]
      BY <2>3 DEF Item
    <3> HIDE DEF new, old, v, c
    <3>3. new \in Item /\ new.key = old.key /\ new.cidrs = c
      BY <3>1, <3>2 DEF Item
    <3> QED
      BY <3>3 DEF c, old
  <2>5. ToSet(new.cidrs) = ToSet(items[p].cidrs) \cup ToSet(item.cidrs)
    BY <2>3, <2>4, RangesJoin
  <2> HIDE DEF new
  <2>6. /\ m \in Seq(Item) /\ DOMAIN m = DOMAIN items /\ m[p] = new
        /\ \A i \in DOMAIN items : i # p => m[i] = items[i]
    BY <2>1, <2>2, <2>4
  <2> HIDE DEF m
  <2>7. \A i \in DOMAIN items : m[i].key = items[i].key
    BY <2>4, <2>6
  <2>8. Positions(m, key) = Positions(items, key)
    BY <2>6, <2>7 DEF Positions
  <2>9. ASSUME key # item.key PROVE RangesOf(m, key) = RangesOf(items, key)
    <3>1. \A i \in Positions(items, key) : m[i] = items[i]
      BY <2>1, <2>6, <2>9 DEF Positions
    <3> QED
      BY <2>8, <3>1 DEF RangesOf
  <2>10. ASSUME key = item.key
         PROVE  RangesOf(m, key) = RangesOf(items, key) \cup ToSet(item.cidrs)
    <3>1. p \in Positions(items, key) /\ \A i \in Positions(items, key) : i \in DOMAIN items
      BY <2>1, <2>10 DEF Positions
    <3>2. \A i \in Positions(items, key) : i # p => m[i].cidrs = items[i].cidrs
      BY <2>6, <3>1
    <3> QED
      BY <2>5, <2>6, <2>8, <3>1, <3>2 DEF RangesOf
  <2>11. key = item.key => Positions(items, key) # {}
    BY <2>1 DEF Positions
  <2> QED
    BY <2>6, <2>8, <2>9, <2>10, <2>11 DEF m, Adds
<1>2. CASE ~ \E i \in DOMAIN items : items[i].key = item.key
  <2> DEFINE l == Len(items) + 1
  <2>1. m = Append(items, item)
    BY <1>2 DEF Merged, Upsert
  <2>2. /\ m \in Seq(Item) /\ DOMAIN m = 1..l /\ m[l] = item /\ l \in Nat /\ l \notin DOMAIN items
        /\ \A i \in DOMAIN items : m[i] = items[i]
    BY <2>1
  <2>3. DOMAIN m = DOMAIN items \cup {l}
    BY <2>2
  <2> HIDE DEF m, l
  <2>4. ASSUME key # item.key
        PROVE  Positions(m, key) = Positions(items, key) /\ RangesOf(m, key) = RangesOf(items, key)
    <3>1. Positions(m, key) = Positions(items, key)
      BY <2>2, <2>3, <2>4 DEF Positions
    <3>2. \A i \in Positions(items, key) : m[i] = items[i]
      BY <2>2 DEF Positions
    <3> QED
      BY <3>1, <3>2 DEF RangesOf
  <2>5. ASSUME key = item.key
        PROVE  /\ Positions(items, key) = {} /\ Positions(m, key) = {l}
               /\ RangesOf(m, key) = RangesOf(items, key) \cup ToSet(item.cidrs)
    <3>1. Positions(items, key) = {} /\ Positions(m, key) = {l}
      BY <1>2, <2>2, <2>3, <2>5 DEF Positions
    <3> QED
      BY <2>2, <3>1 DEF RangesOf
  <2> QED
    BY <2>2, <2>4, <2>5 DEF m, Adds
<1> QED
    BY <1>1, <1>2

(* The values of Overwritten after each element.                           *)
OverwrittenSteps(r, n, list, old) ==
    /\ r[0] = old /\ Overwritten(old, list) = r[n]
    /\ \A k \in 1..n : r[k] = Put(r[k - 1], list[k])
    /\ \A k \in 0..n : r[k] \in Seq(Item)

\* Overwritten is computed in as many steps as there are elements.
LEMMA OverwrittenTrace ==
    ASSUME NEW n \in Nat, NEW list \in [1..n -> Item], NEW old \in Seq(Item)
    PROVE  \E r : OverwrittenSteps(r, n, list, old)
<1> DEFINE S == Seq(Item)
           E == Item
           O == [p \in S \X E |-> Put(p[1], p[2])]
           It(g) == g = [s \in SUBSET (1..n) |->
                     IF s = {} THEN old ELSE Put(g[s \ {Max(s)}], list[Max(s)])]
           F == CHOOSE g : It(g)
<1>0. ASSUME NEW a \in S, NEW x \in E PROVE Put(a, x) \in S
    BY PutIs
<1>1. O \in [S \X E -> S]
    BY <1>0
<1>2. old \in S /\ list \in [1..n -> E]
    OBVIOUS
<1>3. PICK g : IsFold(g, S, O, old, n, list)
  <2> HIDE DEF O, S, E
  <2> QED
    BY <1>1, <1>2, FoldExists
<1>4. It(g)
  <2>1. ASSUME NEW s \in SUBSET (1..n), s # {}
        PROVE  g[s] = Put(g[s \ {Max(s)}], list[Max(s)])
    <3>1. g[s \ {Max(s)}] \in S /\ list[Max(s)] \in E
      <4>1. s \ {Max(s)} \in SUBSET (1..n)
        OBVIOUS
      <4>2. Max(s) \in 1..n
        BY <2>1, MaxIn
      <4> QED
        BY <1>3, <4>1, <4>2 DEF IsFold
    <3>2. O[<<g[s \ {Max(s)}], list[Max(s)]>>] = Put(g[s \ {Max(s)}], list[Max(s)])
      BY <3>1
    <3>3. g[s] = O[<<g[s \ {Max(s)}], list[Max(s)]>>]
      <4> HIDE DEF O, S
      <4> QED
        BY <1>3, <2>1 DEF IsFold
    <3> QED
      BY <3>2, <3>3
  <2>2. g[{}] = old /\ DOMAIN g = SUBSET (1..n)
    BY <1>3 DEF IsFold
  <2>3. g = [s \in SUBSET (1..n) |-> g[s]]
    BY <1>3 DEF IsFold
  <2> QED
    BY <2>1, <2>2, <2>3
<1>5. It(F)
  <2> HIDE DEF It
  <2> QED
    BY <1>4
<1>6. Overwritten(old, list) = F[1..n]
  <2>1. DOMAIN list = 1..n
    OBVIOUS
  <2> QED
    BY <2>1 DEF Overwritten, Put, FoldLeft, MapThenFoldSet
<1> DEFINE r == [k \in 0..n |-> F[1..k]]
<1> HIDE DEF F
<1>7. r[0] = old
    BY <1>5, 1..0 = {}
<1>8. ASSUME NEW k \in 1..n PROVE r[k] = Put(r[k - 1], list[k])
  <2>1. 1..k # {} /\ Max(1..k) = k /\ (1..k) \ {k} = 1..(k - 1)
    <3>1. k \in Nat \ {0}
      OBVIOUS
    <3> QED
      BY <3>1, UpTo
  <2>2. 1..k \in SUBSET (1..n)
    OBVIOUS
  <2>3. F[1..k] = Put(F[1..(k - 1)], list[k])
    BY <1>5, <2>1, <2>2
  <2>4. k \in 0..n /\ k - 1 \in 0..n
    OBVIOUS
  <2>5. r[k] = F[1..k] /\ r[k - 1] = F[1..(k - 1)]
    BY <2>4
  <2> HIDE DEF r
  <2> QED
    BY <2>3, <2>5
<1>9. r[n] = F[1..n]
    OBVIOUS
<1> HIDE DEF r
<1>10. \A k \in 0..n : r[k] \in S
  <2> HIDE DEF S, E
  <2>1. r[0] \in S
    BY <1>2, <1>7
  <2>2. \A k \in 1..n : r[k - 1] \in S => r[k] \in S
    BY <1>0, <1>2, <1>8
  <2> QED
    BY <2>1, <2>2, TraceTyped
<1> QED
    BY <1>6, <1>7, <1>8, <1>9, <1>10 DEF OverwrittenSteps

(* The values of MergedInto after each element.                            *)
MergedIntoSteps(r, n, list, old) ==
    /\ r[0] = old /\ MergedInto(old, list) = r[n]
    /\ \A k \in 1..n : r[k] = Merged(r[k - 1], list[k])
    /\ \A k \in 0..n : r[k] \in Seq(Item)

\* MergedInto is computed in as many steps as there are elements.
LEMMA MergedIntoTrace ==
    ASSUME NEW n \in Nat, NEW list \in [1..n -> Item], NEW old \in Seq(Item)
    PROVE  \E r : MergedIntoSteps(r, n, list, old)
<1> DEFINE S == Seq(Item)
           E == Item
           O == [p \in S \X E |-> Merged(p[1], p[2])]
           It(g) == g = [s \in SUBSET (1..n) |->
                     IF s = {} THEN old ELSE Merged(g[s \ {Max(s)}], list[Max(s)])]
           F == CHOOSE g : It(g)
<1>0. ASSUME NEW a \in S, NEW x \in E PROVE Merged(a, x) \in S
    BY MergedIs
<1>1. O \in [S \X E -> S]
    BY <1>0
<1>2. old \in S /\ list \in [1..n -> E]
    OBVIOUS
<1>3. PICK g : IsFold(g, S, O, old, n, list)
  <2> HIDE DEF O, S, E
  <2> QED
    BY <1>1, <1>2, FoldExists
<1>4. It(g)
  <2>1. ASSUME NEW s \in SUBSET (1..n), s # {}
        PROVE  g[s] = Merged(g[s \ {Max(s)}], list[Max(s)])
    <3>1. g[s \ {Max(s)}] \in S /\ list[Max(s)] \in E
      <4>1. s \ {Max(s)} \in SUBSET (1..n)
        OBVIOUS
      <4>2. Max(s) \in 1..n
        BY <2>1, MaxIn
      <4> QED
        BY <1>3, <4>1, <4>2 DEF IsFold
    <3>2. O[<<g[s \ {Max(s)}], list[Max(s)]>>] = Merged(g[s \ {Max(s)}], list[Max(s)])
      BY <3>1
    <3>3. g[s] = O[<<g[s \ {Max(s)}], list[Max(s)]>>]
      <4> HIDE DEF O, S
      <4> QED
        BY <1>3, <2>1 DEF IsFold
    <3> QED
      BY <3>2, <3>3
  <2>2. g[{}] = old /\ DOMAIN g = SUBSET (1..n)
    BY <1>3 DEF IsFold
  <2>3. g = [s \in SUBSET (1..n) |-> g[s]]
    BY <1>3 DEF IsFold
  <2> QED
    BY <2>1, <2>2, <2>3
<1>5. It(F)
  <2> HIDE DEF It
  <2> QED
    BY <1>4
<1>6. MergedInto(old, list) = F[1..n]
  <2>1. DOMAIN list = 1..n
    OBVIOUS
  <2> QED
    BY <2>1 DEF MergedInto, FoldLeft, MapThenFoldSet
<1> DEFINE r == [k \in 0..n |-> F[1..k]]
<1> HIDE DEF F
<1>7. r[0] = old
    BY <1>5, 1..0 = {}
<1>8. ASSUME NEW k \in 1..n PROVE r[k] = Merged(r[k - 1], list[k])
  <2>1. 1..k # {} /\ Max(1..k) = k /\ (1..k) \ {k} = 1..(k - 1)
    <3>1. k \in Nat \ {0}
      OBVIOUS
    <3> QED
      BY <3>1, UpTo
  <2>2. 1..k \in SUBSET (1..n)
    OBVIOUS
  <2>3. F[1..k] = Merged(F[1..(k - 1)], list[k])
    BY <1>5, <2>1, <2>2
  <2>4. k \in 0..n /\ k - 1 \in 0..n
    OBVIOUS
  <2>5. r[k] = F[1..k] /\ r[k - 1] = F[1..(k - 1)]
    BY <2>4
  <2> HIDE DEF r
  <2> QED
    BY <2>3, <2>5
<1>9. r[n] = F[1..n]
    OBVIOUS
<1> HIDE DEF r
<1>10. \A k \in 0..n : r[k] \in S
  <2> HIDE DEF S, E
  <2>1. r[0] \in S
    BY <1>2, <1>7
  <2>2. \A k \in 1..n : r[k - 1] \in S => r[k] \in S
    BY <1>0, <1>2, <1>8
  <2> QED
    BY <2>1, <2>2, TraceTyped
<1> QED
    BY <1>6, <1>7, <1>8, <1>9, <1>10 DEF MergedIntoSteps

-----------------------------------------------------------------------------
(***************************************************************************)
(* What is loaded and published.                                           *)
(***************************************************************************)
\* The names of the files.
LEMMA FilesAre ==
    /\ Cardinality(Files) \in Nat \ {0} /\ Files = 1..Cardinality(Files) /\ 1 \in Files
<1>1. Cardinality(Files) \in Nat
    BY RuleReloadAssumption, FS_CardinalityType DEF RuleReloadAssumption
<1> DEFINE n == Cardinality(Files)
<1>2. n \in Nat /\ Files = 1..n /\ 1 \in Files
    BY <1>1, RuleReloadAssumption DEF RuleReloadAssumption
<1> HIDE DEF n
<1>3. n \in Nat \ {0}
    BY <1>2
<1> QED
    BY <1>2, <1>3 DEF n

\* No file counts as a rule set.
LEMMA EmptyIsRules ==
    Empty \in RuleSet
BY DEF Empty, RuleSet

\* What a loader puts together is one.
LEMMA RulesTyped ==
    ASSUME NEW knob \in Nat, NEW fixed \in Nat, NEW items \in Seq(Item)
    PROVE  Rules(knob, fixed, items) \in RuleSet
BY DEF Rules, RuleSet

\* What the folds return.
LEMMA ConcatTyped ==
    ASSUME NEW n \in Nat, NEW list \in [1..n -> RuleSet]
    PROVE  Concat(list) \in Seq(Item) /\ LastSet(list) \in Nat
<1>1. n \in 0..n
    OBVIOUS
<1>2. Concat(list) \in Seq(Item)
  <2>1. PICK r : ConcatSteps(r, n, list)
    BY ConcatTrace
  <2> QED
    BY <1>1, <2>1 DEF ConcatSteps
<1>3. LastSet(list) \in Nat
  <2>1. PICK r : LastSetSteps(r, n, list)
    BY LastSetTrace
  <2> QED
    BY <1>1, <2>1 DEF LastSetSteps
<1> QED
    BY <1>2, <1>3

\* A list as a function of its positions.
LEMMA ListsAreFunctions ==
    ASSUME NEW E, NEW list \in Seq(E)
    PROVE  Len(list) \in Nat /\ list \in [1..Len(list) -> E] /\ Len(list) \in 0..Len(list)
OBVIOUS

\* What is overwritten, merged or sorted out is a list of rules.
LEMMA ItemFoldsTyped ==
    ASSUME NEW old \in Seq(Item), NEW list \in Seq(Item), NEW any \in BOOLEAN
    PROVE  /\ Overwritten(old, list) \in Seq(Item) /\ MergedInto(old, list) \in Seq(Item)
           /\ Routes(list, any) \in Seq(Item)
<1> DEFINE n == Len(list)
<1>1. n \in Nat /\ list \in [1..n -> Item] /\ n \in 0..n
    BY ListsAreFunctions
<1> HIDE DEF n
<1>2. Overwritten(old, list) \in Seq(Item)
  <2>1. PICK r : OverwrittenSteps(r, n, list, old)
    BY <1>1, OverwrittenTrace
  <2> QED
    BY <1>1, <2>1 DEF OverwrittenSteps
<1>3. MergedInto(old, list) \in Seq(Item)
  <2>1. PICK r : MergedIntoSteps(r, n, list, old)
    BY <1>1, MergedIntoTrace
  <2> QED
    BY <1>1, <2>1 DEF MergedIntoSteps
<1>4. Routes(list, any) \in Seq(Item)
  <2>1. PICK r : RoutesSteps(r, n, list, any)
    BY <1>1, RoutesTrace
  <2> QED
    BY <1>1, <2>1 DEF RoutesSteps
<1> QED
    BY <1>2, <1>3, <1>4

\* Ranges that parse are ranges.
LEMMA ParsedTyped ==
    ASSUME NEW list \in Seq(Nat)
    PROVE  Parsed(list) \in Seq(Nat)
<1> DEFINE n == Len(list)
<1>1. n \in Nat /\ list \in [1..n -> Nat] /\ n \in 0..n
    BY ListsAreFunctions
<1> HIDE DEF n
<1>2. PICK r : ParsedSteps(r, n, list)
    BY <1>1, ParsedTrace
<1> QED
    BY <1>1, <1>2 DEF ParsedSteps

\* The files of the subdirectory.
LEMMA TailTyped ==
    ASSUME NEW n \in Nat \ {0}, NEW list \in [1..n -> RuleSet]
    PROVE  n - 1 \in Nat /\ Tail(list) \in [1..(n - 1) -> RuleSet]
           /\ \A i \in 1..(n - 1) : Tail(list)[i] = list[i + 1]
<1>1. list \in Seq(RuleSet) /\ Len(list) = n
    OBVIOUS
<1>2. Tail(list) \in Seq(RuleSet) /\ Len(Tail(list)) = n - 1
    BY <1>1
<1>3. Tail(list) \in [1..(n - 1) -> RuleSet]
    BY <1>2, ListsAreFunctions
<1>4. \A i \in 1..(n - 1) : Tail(list)[i] = list[i + 1]
    BY <1>1
<1> QED
    BY <1>3, <1>4

RootOf(seen) == IF seen[1] = Absent THEN Empty ELSE seen[1]
FilesOf(seen) == [f \in DOMAIN seen |-> IF seen[f] = Absent THEN Empty ELSE seen[f]]
Fails(k, seen) ==
    \/ seen[1] = Broken
    \/ k \in Required /\ seen[1] = Absent
    \/ k \notin RootOnly /\ Broken \in ToSet(seen)

\* The files of a load that does not fail are rule sets.
LEMMA FilesTyped ==
    ASSUME NEW k, NEW seen \in [Files -> File], ~Fails(k, seen)
    PROVE  /\ RootOf(seen) \in RuleSet
           /\ k \notin RootOnly => FilesOf(seen) \in [1..Cardinality(Files) -> RuleSet]
<1>1. seen[1] \in File /\ seen[1] # Broken
    BY FilesAre DEF Fails
<1>2. RootOf(seen) \in RuleSet
    BY <1>1, EmptyIsRules DEF RootOf, File
<1>3. ASSUME k \notin RootOnly PROVE FilesOf(seen) \in [Files -> RuleSet]
  <2>1. \A f \in Files : seen[f] # Broken /\ seen[f] \in File
    BY <1>3 DEF Fails, ToSet
  <2> QED
    BY <2>1, EmptyIsRules DEF FilesOf, File
<1> QED
    BY <1>2, <1>3, FilesAre

\* A category list of which the ranges are parsed.
LEMMA ReputationTyped ==
    ASSUME NEW root \in RuleSet, NEW n \in Nat \ {0}, NEW files \in [1..n -> RuleSet]
    PROVE  LoadIPReputation(root, files) \in RuleSet
<1> DEFINE c == MergedInto(root.items, Concat(Tail(files)))
           parsed == [i \in DOMAIN c |-> [c[i] EXCEPT !.cidrs = Parsed(@)]]
<1>1. c \in Seq(Item)
  <2>1. Concat(Tail(files)) \in Seq(Item)
    BY TailTyped, ConcatTyped
  <2>2. root.items \in Seq(Item)
    BY DEF RuleSet
  <2> QED
    BY <2>1, <2>2, ItemFoldsTyped
<1>2. LastSet(files) \in Nat
    BY ConcatTyped
<1> HIDE DEF c
<1>3. \A i \in DOMAIN c : [c[i] EXCEPT !.cidrs = Parsed(@)] \in Item
  <2> TAKE i \in DOMAIN c
  <2>1. c[i] \in Item
    BY <1>1
  <2>2. Parsed(c[i].cidrs) \in Seq(Nat)
    <3>1. c[i].cidrs \in Seq(Nat)
      BY <2>1 DEF Item
    <3> QED
      BY <3>1, ParsedTyped
  <2> QED
    BY <2>1, <2>2 DEF Item
<1>4. parsed \in Seq(Item)
  <2>1. DOMAIN c = 1..Len(c) /\ Len(c) \in Nat
    BY <1>1
  <2> QED
    BY <1>3, <2>1
<1> HIDE DEF parsed
<1>5. Rules(LastSet(files), 0, parsed) \in RuleSet
    BY <1>2, <1>4, RulesTyped
<1> QED
    BY <1>5 DEF LoadIPReputation, c, parsed

\* The routes of all files are rules.
LEMMA StrategyTyped ==
    ASSUME NEW root \in RuleSet, NEW n \in Nat \ {0}, NEW files \in [1..n -> RuleSet]
    PROVE  LoadInjectionStrategy(root, files) \in RuleSet
<1> DEFINE c == Concat(Tail(files)) \o root.items
<1>1. c \in Seq(Item)
  <2>1. Concat(Tail(files)) \in Seq(Item)
    BY TailTyped, ConcatTyped
  <2>2. root.items \in Seq(Item)
    BY DEF RuleSet
  <2> QED
    BY <2>1, <2>2
<1>2. LastSet(files) \in Nat
    BY ConcatTyped
<1> HIDE DEF c
<1>3. Routes(c, FALSE) \in Seq(Item) /\ Routes(c, TRUE) \in Seq(Item)
    BY <1>1, ItemFoldsTyped
<1>4. moveCatchAllRoutesLast(c) \in Seq(Item)
  <2> DEFINE a == Routes(c, FALSE)
             b == Routes(c, TRUE)
  <2>1. a \in Seq(Item) /\ b \in Seq(Item)
    BY <1>3
  <2> HIDE DEF a, b
  <2>2. a \o b \in Seq(Item)
    BY <2>1
  <2> QED
    BY <2>2 DEF moveCatchAllRoutesLast, a, b
<1>5. Rules(LastSet(files), 0, moveCatchAllRoutesLast(c)) \in RuleSet
    BY <1>2, <1>4, RulesTyped
<1> QED
    BY <1>5 DEF LoadInjectionStrategy, CommunityFirst, c

\* A load returns a rule set, or fails.
LEMMA LoadTyped ==
    ASSUME NEW k \in Kinds, NEW seen \in [Files -> File]
    PROVE  \/ Load(k, seen) = Failed /\ Fails(k, seen)
           \/ Load(k, seen) \in RuleSet /\ ~Fails(k, seen)
<1>1. CASE Fails(k, seen)
    BY <1>1 DEF Load, Fails
<1>2. CASE ~Fails(k, seen)
  <2> DEFINE root == RootOf(seen)
             files == FilesOf(seen)
             n == Cardinality(Files)
  <2>1. root \in RuleSet /\ n \in Nat \ {0} /\ (k \notin RootOnly => files \in [1..n -> RuleSet])
    BY <1>2, FilesTyped, FilesAre
  <2>2. root.knob \in Nat /\ root.fixed \in Nat /\ root.items \in Seq(Item)
    BY <2>1 DEF RuleSet
  <2> HIDE DEF n
  <2>3. k \notin RootOnly => Concat(files) \in Seq(Item) /\ LastSet(files) \in Nat
    <3> HIDE DEF files
    <3> QED
      BY <2>1, ConcatTyped
  <2>4. Load(k, seen) =
          CASE k = "detector" -> LoadDetector(root, files)
              [] k = "ip_reputation" -> LoadIPReputation(root, files)
              [] k = "injection_strategy" -> LoadInjectionStrategy(root, files)
              [] k = "templates" -> LoadTemplates(files)
              [] k = "tls_fingerprints" -> LoadTLS(files)
              [] k = "payloads" -> LoadPayloads(files)
              [] k = "fake_data" -> LoadFakeData(files)
              [] k = "vulnerabilities" -> LoadVulnerabilities(files)
              [] k = "route-manifest" -> LoadRouteManifest(files)
              [] k = "learned" -> LoadLearned(files)
              [] k = "signals" -> LoadSignals(root)
              [] k = "challenge" -> LoadChallenge(root)
              [] k = "ml" -> LoadML(root)
              [] k = "dashboard" -> LoadDashboard(root)
    BY <1>2 DEF Load, Fails, RootOf, FilesOf
  <2> HIDE DEF root, files
  <2>5. k \notin RootOnly =>
           /\ LoadDetector(root, files) \in RuleSet
           /\ LoadTemplates(files) \in RuleSet
           /\ LoadTLS(files) \in RuleSet
           /\ LoadPayloads(files) \in RuleSet
           /\ LoadFakeData(files) \in RuleSet
           /\ LoadVulnerabilities(files) \in RuleSet
           /\ LoadRouteManifest(files) \in RuleSet
           /\ LoadLearned(files) \in RuleSet
    <3>1. <<>> \in Seq(Item)
      OBVIOUS
    <3> QED
      BY <2>1, <2>2, <2>3, <3>1, RulesTyped, ItemFoldsTyped
         DEF LoadDetector, LoadTemplates, LoadTLS, LoadPayloads, LoadFakeData,
             LoadVulnerabilities, LoadRouteManifest, LoadLearned
  <2>6. k \notin RootOnly => LoadIPReputation(root, files) \in RuleSet
                             /\ LoadInjectionStrategy(root, files) \in RuleSet
    BY <2>1, ReputationTyped, StrategyTyped
  <2>7. /\ LoadSignals(root) \in RuleSet /\ LoadChallenge(root) \in RuleSet
        /\ LoadML(root) \in RuleSet /\ LoadDashboard(root) \in RuleSet
    BY <2>1, <2>2, RulesTyped DEF LoadSignals, LoadChallenge, LoadML, LoadDashboard, RuleSet
  <2>8. k \in {"detector", "ip_reputation", "injection_strategy", "templates",
               "tls_fingerprints", "payloads", "fake_data", "vulnerabilities",
               "route-manifest", "learned", "signals", "challenge", "ml", "dashboard"}
    BY RuleReloadAssumption DEF RuleReloadAssumption
  <2>9. k \in RootOnly <=> k \in {"challenge", "ml", "dashboard", "signals"}
    BY DEF RootOnly, Required
  <2>10. Load(k, seen) \in RuleSet
    BY <2>4, <2>5, <2>6, <2>7, <2>8, <2>9
  <2> QED
    BY <1>2, <2>10
<1> QED
    BY <1>1, <1>2

\* Of the items written over a list, the last of each key is in the result.
LEMMA LastIsKept ==
    ASSUME NEW old \in Seq(Item), NEW list \in Seq(Item), NEW i \in DOMAIN list,
           \A j \in DOMAIN list : list[j].key = list[i].key => j <= i
    PROVE  list[i] \in ToSet(Overwritten(old, list))
<1> DEFINE n == Len(list)
<1>1. n \in Nat /\ list \in [1..n -> Item] /\ i \in 1..n /\ DOMAIN list = 1..n
    BY ListsAreFunctions
<1> HIDE DEF n
<1>2. PICK r : OverwrittenSteps(r, n, list, old)
    BY <1>1, OverwrittenTrace
<1> DEFINE G == {k \in Nat : i <= k /\ k <= n => list[i] \in ToSet(r[k])}
<1>3. 0 \in G
    BY <1>1
<1>4. ASSUME NEW k \in G PROVE k + 1 \in G
  <2>1. k \in Nat /\ (i <= k /\ k <= n => list[i] \in ToSet(r[k]))
    BY <1>4
  <2>0. k + 1 \in Nat
    BY <2>1
  <2>2. SUFFICES ASSUME i <= k + 1, k + 1 <= n PROVE list[i] \in ToSet(r[k + 1])
    BY <2>0
  <2> DEFINE m == k + 1
  <2>3. m \in 1..n /\ m - 1 = k /\ k \in 0..n /\ (m = i \/ (i <= k /\ k <= n))
    BY <1>1, <2>1, <2>2
  <2> HIDE DEF m
  <2>4. r[m] = Put(r[k], list[m]) /\ r[k] \in Seq(Item) /\ list[m] \in Item /\ list[i] \in Item
    BY <1>1, <1>2, <2>3 DEF OverwrittenSteps
  <2>5. ASSUME m = i PROVE list[i] \in ToSet(r[m])
    BY <2>4, <2>5, PutIs
  <2>6. ASSUME m # i PROVE list[i] \in ToSet(r[m])
    <3>1. list[i] \in ToSet(r[k])
      BY <2>1, <2>3, <2>6
    <3>2. list[m].key # list[i].key
      <4>1. ~ (m <= i)
        BY <1>1, <2>3, <2>1, <2>6
      <4> QED
        BY <1>1, <2>3, <4>1
    <3> QED
      BY <2>4, <3>1, <3>2, PutIs
  <2>7. list[i] \in ToSet(r[m])
    BY <2>5, <2>6
  <2> QED
    BY <2>7 DEF m
<1>5. G \in SUBSET Nat
    OBVIOUS
<1> HIDE DEF G
<1>6. n \in G
    BY <1>1, <1>3, <1>4, <1>5, Induct
<1> QED
    BY <1>1, <1>2, <1>6 DEF G, OverwrittenSteps

\* What a handler of the TLS rules or of the learned candidates builds on.
LEMMA BaseTyped ==
    ASSUME published \in RuleSet \cup {Nil}
    PROVE  Base \in RuleSet /\ Base.items \in Seq(Item)
<1>1. Base \in RuleSet
    BY EmptyIsRules DEF Base
<1> QED
    BY <1>1 DEF RuleSet

\* What a handler publishes is a rule set.
LEMMA SwapTyped ==
    ASSUME published \in RuleSet \cup {Nil}, NEW v \in RuleSet
    PROVE  Swap(v) \in RuleSet /\ (kind = "ml" => Swap(v) = v)
<1>1. v.items \in Seq(Item) /\ v.knob \in Nat /\ v.fixed \in Nat
    BY DEF RuleSet
<1>2. Overwritten(Base.items, v.items) \in Seq(Item) /\ Base.items \o v.items \in Seq(Item)
  <2>1. Base.items \in Seq(Item)
    BY BaseTyped
  <2>2. Overwritten(Base.items, v.items) \in Seq(Item)
    BY <1>1, <2>1, ItemFoldsTyped
  <2> QED
    BY <1>1, <2>1, <2>2
<1>3. Apply(v) \in RuleSet
    BY <1>2 DEF Apply, RuleSet
<1>4. SeedFromLearned(v) \in RuleSet
    BY <1>2 DEF SeedFromLearned, RuleSet
<1> QED
    BY <1>3, <1>4 DEF Swap

\* What is published shows the rules that were loaded, of the TLS database and of the
\* learned candidates too, which keep what they had.
LEMMA SwapShows ==
    ASSUME published \in RuleSet \cup {Nil}, NEW v \in RuleSet,
           published' = Swap(v), kind' = kind
    PROVE  Shows(v)'
<1>1. v.items \in Seq(Item)
    BY DEF RuleSet
<1>2. Swap(v) \in RuleSet /\ Swap(v) # Nil
    BY SwapTyped, RuleReloadAssumption DEF RuleReloadAssumption
<1>3. CASE kind = "tls_fingerprints"
  <2>1. Swap(v) = Apply(v)
    BY <1>3 DEF Swap
  <2>2. Apply(v).items = Overwritten(Base.items, v.items)
    BY DEF Apply, RuleSet
  <2>3. \A i \in DOMAIN v.items :
           (\A j \in DOMAIN v.items : v.items[j].key = v.items[i].key => j <= i)
           => v.items[i] \in ToSet(Overwritten(Base.items, v.items))
    BY <1>1, BaseTyped, LastIsKept
  <2> QED
    BY <1>2, <1>3, <2>1, <2>2, <2>3 DEF Shows
<1>4. CASE kind = "learned"
  <2>1. Swap(v) = SeedFromLearned(v)
    BY <1>4 DEF Swap
  <2>2. SeedFromLearned(v).items = Base.items \o v.items
    BY DEF SeedFromLearned, RuleSet
  <2>3. ToSet(v.items) \subseteq ToSet(Base.items \o v.items)
    BY <1>1, BaseTyped, ConcatKeeps
  <2> QED
    BY <1>2, <1>4, <2>1, <2>2, <2>3 DEF Shows
<1>5. CASE kind # "tls_fingerprints" /\ kind # "learned"
    BY <1>5 DEF Swap, Shows
<1> QED
    BY <1>3, <1>4, <1>5

\* Rules show themselves.
LEMMA ShowsItself ==
    ASSUME published \in RuleSet
    PROVE  Shows(published)
<1>1. published # Nil
    BY RuleReloadAssumption DEF RuleReloadAssumption
<1> QED
    BY <1>1 DEF Shows, ToSet

\* The directory as a load sees it, and what a handler found.
LEMMA DiskIs ==
    ASSUME Typed
    PROVE  /\ Disk = disk
           /\ \A h \in loads : Found(h) = Load(kind, h.seen)
           /\ \A h \in loads : Found(h) \in RuleSet \cup {Failed}
           /\ Load(kind, Disk) \in RuleSet \cup {Failed}
<1>1. Disk = disk
    BY FilesAre DEF Typed, Disk
<1>2. ASSUME NEW h \in loads PROVE Found(h) = Load(kind, h.seen) /\ h.seen \in [Files -> File]
  <2>1. h.seen \in [Files -> File]
    BY DEF Typed, Handler
  <2>2. [f \in 1..Cardinality(Files) |-> h.seen[f]] = h.seen
    BY <2>1, FilesAre
  <2> QED
    BY <2>1, <2>2 DEF Found
<1>3. kind \in Kinds /\ disk \in [Files -> File]
    BY DEF Typed
<1>4. \A k \in Kinds, seen \in [Files -> File] : Load(k, seen) \in RuleSet \cup {Failed}
    BY LoadTyped
<1> QED
    BY <1>1, <1>2, <1>3, <1>4

-----------------------------------------------------------------------------
(***************************************************************************)
(* The steps of the writers.                                               *)
(***************************************************************************)
Watching == AloneIsAlone /\ LoadsSeeDisk /\ RedactsServed /\ RedactorFollows /\ ServesDisk
Installing == FilesOfKind /\ UpdateIsWhole

\* Initially nothing is loading and what is served is what is on disk.
LEMMA InitIInv ==
    ASSUME Init
    PROVE  IInv
<1>1. disk \in [Files -> File]
  <2>1. Contents \subseteq RuleSet
    BY RuleReloadAssumption DEF RuleReloadAssumption
  <2> QED
    BY <2>1 DEF Init, File
<1>2. Disk = disk /\ kind \in Kinds
    BY <1>1, FilesAre DEF Init, Disk
<1>3. Load(kind, Disk) \in RuleSet \cup {Failed}
    BY <1>1, <1>2, LoadTyped
<1>4. published \in RuleSet \cup {Nil} /\ redactor = published
      /\ (Load(kind, Disk) # Failed => published = Load(kind, Disk))
    BY <1>3, EmptyIsRules DEF Init, AtStart
<1>5. Typed
    BY <1>1, <1>2, <1>4 DEF Init, Typed
<1>6. FilesOfKind
    BY <1>2 DEF Init, FilesOfKind
<1>7. ShowsDisk
  <2>1. SUFFICES ASSUME Load(kind, Disk) # Failed PROVE Shows(Load(kind, Disk))
    BY DEF ShowsDisk
  <2>2. published = Load(kind, Disk) /\ published \in RuleSet
    BY <1>3, <1>4, <2>1
  <2> QED
    BY <2>2, ShowsItself
<1>8. Timers /\ Watching
    BY <1>4, <1>7 DEF Init, Timers, Watching, AloneIsAlone, LoadsSeeDisk, RedactsServed,
                      RedactorFollows, ServesDisk
<1>9. UpdateIsWhole
    BY DEF Init, UpdateIsWhole
<1> QED
    BY <1>5, <1>6, <1>8, <1>9 DEF IInv, Watching

\* What the writers of the files do leaves the handlers alone; what they change is either
\* noticed or remembered as unseen.
LEMMA Apart ==
    ASSUME Watching, UNCHANGED <<kind, loads, published, redactor, overlapped>>,
           UpToDate' => UpToDate /\ disk' = disk
    PROVE  Watching'
<1>1. AloneIsAlone'
    BY DEF Watching, AloneIsAlone
<1>2. LoadsSeeDisk'
    BY DEF Watching, LoadsSeeDisk, SeesDisk
<1>3. RedactsServed'
    BY DEF Watching, RedactsServed, Found
<1>4. RedactorFollows'
    BY DEF Watching, RedactorFollows
<1>5. ServesDisk'
    BY DEF Watching, ServesDisk, ShowsDisk, Shows, Disk
<1> QED
    BY <1>1, <1>2, <1>3, <1>4, <1>5 DEF Watching

\* The writers' state stays.
LEMMA StillInstalled ==
    ASSUME Installing, UNCHANGED <<kind, disk, writing, update, installed, mixed>>
    PROVE  Installing'
BY DEF Installing, FilesOfKind, UpdateIsWhole, MayHave

\* A change that is not noticed is unseen, so nothing is up to date after a change.
LEMMA ChangedShows ==
    ASSUME Typed, NEW f, NEW content, Changed(f, content)
    PROVE  ~UpToDate'
<1>1. CASE Unnoticed(f) = {}
    BY <1>1 DEF Changed, UpToDate, NothingPending, Typed
<1>2. CASE Unnoticed(f) # {}
    BY <1>2 DEF Changed, UpToDate
<1> QED
    BY <1>1, <1>2

\* ... and the directory still holds files.
LEMMA ChangedTyped ==
    ASSUME Typed, NEW f \in Files, NEW content \in File, Changed(f, content)
    PROVE  disk' \in [Files -> File] /\ events' \in Nat /\ unseen' \subseteq Causes
<1>1. disk' \in [Files -> File]
    BY DEF Changed, Typed
<1>2. events' \in Nat
    BY DEF Changed, Typed
<1>3. Unnoticed(f) \subseteq Causes
    BY DEF Unnoticed, Causes
<1>4. unseen' \subseteq Causes
    BY <1>3 DEF Changed, Typed
<1> QED
    BY <1>1, <1>2, <1>4

\* Truncating a file; like all that writers do, it leaves the handlers alone.
LEMMA TruncateIInv ==
    ASSUME IInv, Truncate
    PROVE  IInv'
<1>1. PICK f \in Files, c \in Contents :
        /\ writing = <<>> /\ changes < MaxChanges[kind] /\ MayHave(f)
        /\ writing' = <<f, c>> /\ Changed(f, Empty)
        /\ changes' = changes + 1 /\ mixed' = TRUE
        /\ UNCHANGED <<kind, boot, subdir, watched, watcher, installed, update, faults>>
    BY DEF Truncate
<1>2. Typed /\ Watching /\ Installing
    BY DEF IInv, Watching, Installing
<1>3. c \in RuleSet /\ Empty \in File
    BY RuleReloadAssumption, EmptyIsRules DEF RuleReloadAssumption, File
<1>4. Typed'
    BY <1>1, <1>2, <1>3, ChangedTyped DEF Typed, watcher
<1>5. Watching'
    BY <1>1, <1>2, ChangedShows, Apart DEF watcher
<1>6. Installing'
    BY <1>1, <1>2 DEF Installing, FilesOfKind, UpdateIsWhole, MayHave, Changed, Typed
<1> QED
    BY <1>1, <1>4, <1>5, <1>6 DEF IInv, Watching, Installing, Timers, watcher

\* The write that follows a truncation.
LEMMA FillIInv ==
    ASSUME IInv, Fill
    PROVE  IInv'
<1>1. /\ writing # <<>> /\ writing' = <<>> /\ Changed(writing[1], writing[2]) /\ mixed' = TRUE
      /\ UNCHANGED <<kind, boot, subdir, watched, watcher, installed, update, changes, faults>>
    BY DEF Fill
<1>2. Typed /\ Watching /\ Installing
    BY DEF IInv, Watching, Installing
<1>3. writing[1] \in Files /\ writing[2] \in File
    BY <1>1, <1>2 DEF Typed, File
<1>4. Typed'
    BY <1>1, <1>2, <1>3, ChangedTyped DEF Typed, watcher
<1>5. Watching'
    BY <1>1, <1>2, ChangedShows, Apart DEF watcher
<1>6. Installing'
    BY <1>1, <1>2 DEF Installing, FilesOfKind, UpdateIsWhole, MayHave, Changed, Typed
<1> QED
    BY <1>1, <1>4, <1>5, <1>6 DEF IInv, Watching, Installing, Timers, watcher

\* A deletion, which the watcher is not told of.
LEMMA DeleteIInv ==
    ASSUME IInv, Delete
    PROVE  IInv'
<1>1. PICK f \in Files :
        /\ disk' = [disk EXCEPT ![f] = Absent]
        /\ unseen' = unseen \cup {"removed"}
        /\ changes' = changes + 1 /\ mixed' = TRUE
        /\ UNCHANGED <<kind, boot, writing, subdir, watched, events, watcher, installed, update, faults>>
    BY DEF Delete
<1>2. Typed /\ Watching /\ Installing
    BY DEF IInv, Watching, Installing
<1>3. disk' \in [Files -> File] /\ unseen' \subseteq Causes
    BY <1>1, <1>2 DEF Typed, File, Causes
<1>4. Typed'
    BY <1>1, <1>2, <1>3 DEF Typed, watcher
<1>5. ~UpToDate'
    BY <1>1 DEF UpToDate
<1>6. Watching'
    BY <1>1, <1>2, <1>5, Apart DEF watcher
<1>7. Installing'
    BY <1>1, <1>2 DEF Installing, FilesOfKind, UpdateIsWhole, MayHave, Typed
<1> QED
    BY <1>1, <1>4, <1>6, <1>7 DEF IInv, Watching, Installing, Timers, watcher

\* `update-rules` begins with nothing mixed in.
LEMMA UpdateStartIInv ==
    ASSUME IInv, UpdateStart
    PROVE  IInv'
<1>1. PICK r \in DOMAIN Release :
        /\ update = <<>>
        /\ update' = <<r, {f \in DOMAIN Release[r] : MayHave(f)}>>
        /\ changes' = changes + 1 /\ mixed' = FALSE
        /\ UNCHANGED <<kind, boot, disk, writing, subdir, watched, events, watcher, installed,
                       faults, unseen>>
    BY DEF UpdateStart
<1>2. Typed /\ Watching /\ Installing
    BY DEF IInv, Watching, Installing
<1>3. {f \in DOMAIN Release[r] : MayHave(f)} \in SUBSET Files
    BY RuleReloadAssumption DEF RuleReloadAssumption
<1>4. Typed'
  <2>1. update' \in (DOMAIN Release) \X SUBSET Files
    BY <1>1, <1>3
  <2>2. changes' \in Nat
    BY <1>1, <1>2 DEF Typed
  <2>3. mixed' \in BOOLEAN
    BY <1>1
  <2> QED
    BY <1>1, <1>2, <2>1, <2>2, <2>3 DEF Typed, watcher
<1>5. Watching'
    BY <1>1, <1>2, Apart DEF watcher, UpToDate, NothingPending
<1>6. Installing'
    BY <1>1, <1>2 DEF Installing, FilesOfKind, UpdateIsWhole, MayHave
<1> QED
    BY <1>1, <1>4, <1>5, <1>6 DEF IInv, Watching, Installing, Timers, watcher

\* Each file of the release comes to be as the release has it.
LEMMA UpdateFileIInv ==
    ASSUME IInv, UpdateFile
    PROVE  IInv'
<1>1. PICK f \in Files :
        /\ update # <<>> /\ f \in update[2]
        /\ update' = <<update[1], update[2] \ {f}>>
        /\ Changed(f, Release[update[1]][f])
        /\ UNCHANGED <<kind, boot, writing, subdir, watched, watcher, installed, changes, faults, mixed>>
    BY DEF UpdateFile
<1>2. Typed /\ Watching /\ Installing
    BY DEF IInv, Watching, Installing
<1>3. /\ update[1] \in DOMAIN Release /\ update[2] \in SUBSET Files
      /\ f \in DOMAIN Release[update[1]] /\ MayHave(f)
    BY <1>1, <1>2 DEF Typed, Installing, FilesOfKind
<1>4. Release[update[1]][f] \in File
    BY <1>3, RuleReloadAssumption DEF RuleReloadAssumption, File
<1>5. Typed'
  <2>1. update' \in (DOMAIN Release) \X SUBSET Files
    BY <1>1, <1>3
  <2> QED
    BY <1>1, <1>2, <1>4, <2>1, ChangedTyped DEF Typed, watcher
<1>6. Watching'
    BY <1>1, <1>2, ChangedShows, Apart DEF watcher
<1>7. update'[1] = update[1] /\ update'[2] = update[2] \ {f} /\ update' # <<>>
    BY <1>1
<1>8. disk' = [disk EXCEPT ![f] = Release[update[1]][f]] /\ disk \in [Files -> File]
    BY <1>1, <1>2 DEF Changed, Typed
<1>9. FilesOfKind'
    BY <1>1, <1>2, <1>3, <1>7, <1>8 DEF Installing, FilesOfKind, MayHave
<1>10. UpdateIsWhole'
  <2>1. SUFFICES ASSUME ~mixed', NEW g \in DOMAIN Release[update[1]], MayHave(g), g \notin update[2] \ {f}
                 PROVE  disk'[g] = Release[update[1]][g]
    BY <1>1, <1>7 DEF UpdateIsWhole, MayHave
  <2>2. g \in Files
    BY <1>3, RuleReloadAssumption DEF RuleReloadAssumption
  <2> QED
    BY <1>1, <1>2, <1>8, <2>1, <2>2 DEF Installing, UpdateIsWhole
<1> QED
    BY <1>1, <1>5, <1>6, <1>9, <1>10 DEF IInv, Watching, Timers, watcher

\* A file that is cut mixes the release with something else.
LEMMA UpdateCutFileIInv ==
    ASSUME IInv, UpdateCutFile
    PROVE  IInv'
<1>1. PICK f \in Files, rest \in {Empty, Broken} :
        /\ update # <<>> /\ f \in update[2]
        /\ update' = <<update[1], update[2] \ {f}>>
        /\ Changed(f, rest)
        /\ faults' = faults + 1 /\ mixed' = TRUE
        /\ UNCHANGED <<kind, boot, writing, subdir, watched, watcher, installed, changes>>
    BY DEF UpdateCutFile
<1>2. Typed /\ Watching /\ Installing
    BY DEF IInv, Watching, Installing
<1>3. /\ update[1] \in DOMAIN Release /\ update[2] \in SUBSET Files /\ MayHave(f)
    BY <1>1, <1>2 DEF Typed, Installing, FilesOfKind
<1>4. rest \in File
    BY EmptyIsRules DEF File
<1>5. Typed'
  <2>1. update' \in (DOMAIN Release) \X SUBSET Files
    BY <1>1, <1>3
  <2>2. faults' \in Nat
    BY <1>1, <1>2 DEF Typed
  <2> QED
    BY <1>1, <1>2, <1>4, <2>1, <2>2, ChangedTyped DEF Typed, watcher
<1>6. Watching'
    BY <1>1, <1>2, ChangedShows, Apart DEF watcher
<1>7. update'[1] = update[1] /\ update'[2] = update[2] \ {f} /\ update' # <<>>
    BY <1>1
<1>8. disk' = [disk EXCEPT ![f] = rest] /\ disk \in [Files -> File]
    BY <1>1, <1>2 DEF Changed, Typed
<1>9. FilesOfKind'
    BY <1>1, <1>2, <1>3, <1>7, <1>8 DEF Installing, FilesOfKind, MayHave
<1>10. UpdateIsWhole'
    BY <1>1 DEF UpdateIsWhole
<1> QED
    BY <1>1, <1>5, <1>6, <1>9, <1>10 DEF IInv, Watching, Timers, watcher

\* A run that fails half-way leaves a mixture.
LEMMA UpdateFailIInv ==
    ASSUME IInv, UpdateFail
    PROVE  IInv'
<1>1. Typed /\ Watching /\ Installing
    BY DEF IInv, Watching, Installing
<1>2. Typed'
    BY <1>1 DEF Typed, UpdateFail, watcher
<1>3. Watching'
    BY <1>1, Apart DEF UpdateFail, watcher, UpToDate, NothingPending
<1>4. Installing'
    BY <1>1 DEF UpdateFail, Installing, FilesOfKind, UpdateIsWhole, MayHave
<1> QED
    BY <1>2, <1>3, <1>4 DEF UpdateFail, IInv, Watching, Installing, Timers, watcher

\* The version file is written when all files are.
LEMMA UpdateDoneIInv ==
    ASSUME IInv, UpdateDone
    PROVE  IInv'
<1>1. PICK written \in BOOLEAN :
        /\ update # <<>> /\ update[2] = {}
        /\ faults' = IF written THEN faults ELSE faults + 1
        /\ installed' = IF written THEN update[1] ELSE installed
        /\ mixed' = (mixed \/ ~written)
        /\ update' = <<>>
        /\ UNCHANGED <<kind, boot, disk, writing, subdir, watched, events, watcher, changes, unseen>>
    BY DEF UpdateDone, Done
<1>2. Typed /\ Watching /\ Installing
    BY DEF IInv, Watching, Installing
<1>3. update[1] \in DOMAIN Release
    BY <1>1, <1>2 DEF Typed
<1>4. Typed'
  <2>1. mixed' \in BOOLEAN
    BY <1>1, <1>2 DEF Typed
  <2> QED
    BY <1>1, <1>2, <1>3, <2>1 DEF Typed, watcher
<1>5. Watching'
    BY <1>1, <1>2, Apart DEF watcher, UpToDate, NothingPending
<1>6. Installing'
    BY <1>1, <1>2 DEF Installing, FilesOfKind, UpdateIsWhole, MayHave
<1> QED
    BY <1>1, <1>4, <1>5, <1>6 DEF IInv, Watching, Installing, Timers, watcher

\* Beginning to watch, losing the watch and watching again.
LEMMA WatchIInv ==
    ASSUME IInv, WatchRoot \/ WatchSubdir \/ LoseWatch \/ WatchError
    PROVE  IInv'
<1>1. Typed /\ Watching /\ Installing /\ Timers
    BY DEF IInv, Watching, Installing
<1>2. Typed'
  <2>1. watched' \in BOOLEAN /\ subdir' \in BOOLEAN /\ boot' \in {"load", "watch", "done"}
    BY <1>1 DEF Typed, WatchRoot, WatchSubdir, LoseWatch, WatchError
  <2>2. faults' \in Nat
    <3>1. faults \in Nat
      BY <1>1 DEF Typed
    <3>2. faults' = faults \/ faults' = faults + 1
      BY DEF WatchRoot, WatchSubdir, LoseWatch, WatchError
    <3> QED
      BY <3>1, <3>2
  <2>3. UNCHANGED <<kind, disk, writing, events, watcher, installed, update, changes, mixed>>
    BY DEF WatchRoot, WatchSubdir, LoseWatch, WatchError
  <2>4. unseen' \subseteq Causes
    BY <1>1 DEF Typed, Causes, WatchRoot, WatchSubdir, LoseWatch, WatchError
  <2> QED
    BY <1>1, <2>1, <2>2, <2>3, <2>4 DEF Typed, watcher
<1>3. Watching'
  <2>1. /\ UNCHANGED <<kind, loads, published, redactor, overlapped>>
        /\ UpToDate' => UpToDate /\ disk' = disk
    BY DEF WatchRoot, WatchSubdir, LoseWatch, WatchError, watcher, UpToDate, NothingPending
  <2> QED
    BY <1>1, <2>1, Apart
<1>4. Installing'
    BY <1>1, StillInstalled DEF WatchRoot, WatchSubdir, LoseWatch, WatchError
<1>5. Timers'
    BY <1>1 DEF WatchRoot, WatchSubdir, LoseWatch, WatchError, Timers, watcher
<1> QED
    BY <1>2, <1>3, <1>4, <1>5 DEF IInv, Watching, Installing

-----------------------------------------------------------------------------
(***************************************************************************)
(* The steps of the watcher and of its handlers.                           *)
(***************************************************************************)
\* The watcher's timers do not touch the handlers, and none of them makes it up to date.
LEMMA TimersIInv ==
    ASSUME IInv, Deliver \/ Expire \/ Outdated
    PROVE  IInv'
<1>1. Typed /\ Watching /\ Installing /\ Timers
    BY DEF IInv, Watching, Installing
<1>2. /\ UNCHANGED <<kind, boot, disk, writing, subdir, watched, loads, published, redactor, overlapped,
                     installed, update, changes, faults, unseen, mixed>>
    BY DEF Deliver, Expire, Outdated
<1>3. CASE Deliver
  <2>1. /\ events \in Nat /\ seq \in Nat /\ events > 0 /\ events' = events - 1
        /\ seq' = seq + 1 /\ timer' = seq + 1 /\ due' = due
    BY <1>1, <1>3 DEF Deliver, Schedule, Typed
  <2>2. events' \in Nat /\ seq' \in Nat /\ timer' \in Nat /\ timer' = seq' /\ timer' # 0
    BY <2>1
  <2>3. Typed' /\ Timers' /\ ~UpToDate'
    BY <1>1, <1>2, <2>1, <2>2 DEF Typed, Timers, UpToDate, NothingPending
  <2>4. Watching' /\ Installing'
    BY <1>1, <1>2, <2>3, Apart, StillInstalled
  <2> QED
    BY <2>3, <2>4 DEF IInv, Watching, Installing
<1>4. CASE Expire
  <2>1. /\ timer # 0 /\ timer' = 0 /\ due' = due \cup {timer} /\ UNCHANGED <<events, seq>>
        /\ timer = seq
    BY <1>1, <1>4 DEF Expire, Timers
  <2>2. Typed' /\ Timers' /\ ~UpToDate'
    BY <1>1, <1>2, <2>1 DEF Typed, Timers, UpToDate, NothingPending
  <2>3. Watching' /\ Installing'
    BY <1>1, <1>2, <2>2, Apart, StillInstalled
  <2> QED
    BY <2>2, <2>3 DEF IInv, Watching, Installing
<1>5. CASE Outdated
  <2>1. PICK s \in due : s # seq /\ due' = due \ {s} /\ UNCHANGED <<events, timer, seq>>
    BY <1>5 DEF Outdated
  <2>2. Typed' /\ Timers' /\ (UpToDate' => UpToDate)
    BY <1>1, <1>2, <2>1 DEF Typed, Timers, UpToDate, NothingPending
  <2>3. Watching' /\ Installing'
    BY <1>1, <1>2, <2>2, Apart, StillInstalled
  <2> QED
    BY <2>2, <2>3 DEF IInv, Watching, Installing
<1> QED
    BY <1>3, <1>4, <1>5

\* A handler that starts has read nothing; those that run no longer run alone.
LEMMA StartLoadIInv ==
    ASSUME IInv, StartLoad
    PROVE  IInv'
<1> DEFINE new == [id |-> seq, step |-> "root", seen |-> [f \in Files |-> Absent],
                   left |-> {}, alone |-> loads = {}]
           others == {[h EXCEPT !.alone = FALSE] : h \in loads}
<1>1. Typed /\ Watching /\ Installing /\ Timers
    BY DEF IInv, Watching, Installing
<1>2. /\ due' = due \ {seq} /\ loads' = others \cup {new}
      /\ overlapped' = (overlapped \/ loads # {}) /\ unseen' = {}
      /\ UNCHANGED <<kind, boot, disk, writing, subdir, watched, events, timer, seq, published,
                     redactor, installed, update, changes, faults, mixed>>
    BY DEF StartLoad
<1>3. new \in Handler /\ new.step = "root" /\ new.left = {} /\ (\A f \in Files : new.seen[f] = Absent)
      /\ new.alone = (loads = {})
    BY <1>1 DEF Typed, Handler, File
<1>4. \A h \in loads : LET g == [h EXCEPT !.alone = FALSE]
                       IN g \in Handler /\ g.alone = FALSE /\ g.step = h.step /\ g.seen = h.seen
    BY <1>1 DEF Typed, Handler
<1> HIDE DEF new
<1>5. \A g \in others : /\ g \in Handler /\ g.alone = FALSE
                        /\ \E h \in loads : g.step = h.step /\ g.seen = h.seen
    BY <1>4
<1>6. loads = {} => others = {}
    OBVIOUS
<1> HIDE DEF others
<1>7. Typed' /\ Timers'
  <2>1. overlapped' \in BOOLEAN
    BY <1>2
  <2> QED
    BY <1>1, <1>2, <1>3, <1>5, <2>1 DEF Typed, Timers
<1>8. AloneIsAlone'
    BY <1>2, <1>3, <1>5, <1>6 DEF AloneIsAlone
<1>9. LoadsSeeDisk'
    BY <1>2, <1>3, <1>5 DEF LoadsSeeDisk, SeesDisk
<1>10. RedactsServed'
    BY <1>1, <1>2, <1>3, <1>5 DEF Watching, RedactsServed, Found
<1>11. RedactorFollows'
    BY <1>1, <1>2, <1>6 DEF Watching, RedactorFollows
<1>12. ServesDisk'
    BY <1>2 DEF ServesDisk
<1>13. Installing'
    BY <1>1, <1>2, StillInstalled
<1> QED
    BY <1>7, <1>8, <1>9, <1>10, <1>11, <1>12, <1>13 DEF IInv, Installing

\* A handler that reads on stays the handler it was, and sees what is on disk.
LEMMA ReadsOn ==
    ASSUME IInv, Reading, NEW h \in loads, NEW g \in Handler, loads' = (loads \ {h}) \cup {g},
           g.alone = h.alone, h.step # "redact", g.step # "redact",
           UpToDate /\ SeesDisk(h) => SeesDisk(g)
    PROVE  IInv'
<1>1. Typed /\ Watching /\ Installing /\ Timers
    BY DEF IInv, Watching, Installing
<1>2. UNCHANGED <<kind, boot, disk, writing, subdir, watched, events, timer, seq, due, published,
                  redactor, overlapped, installed, update, changes, faults, unseen, mixed>>
    BY DEF Reading
<1>3. Typed' /\ Timers'
    BY <1>1, <1>2 DEF Typed, Timers
<1>4. AloneIsAlone'
    BY <1>1, <1>2 DEF Watching, AloneIsAlone
<1>5. LoadsSeeDisk'
  <2>1. UpToDate' => UpToDate
    BY <1>2 DEF UpToDate, NothingPending
  <2>2. SUFFICES ASSUME UpToDate, NEW i \in loads', i.alone PROVE SeesDisk(i)'
    BY <2>1 DEF LoadsSeeDisk
  <2>3. SeesDisk(i)
    BY <1>1, <2>2 DEF Watching, LoadsSeeDisk
  <2> QED
    BY <1>2, <2>3 DEF SeesDisk
<1>6. RedactsServed'
    BY <1>1, <1>2 DEF Watching, RedactsServed, Found
<1>7. RedactorFollows'
    BY <1>1, <1>2 DEF Watching, RedactorFollows
<1>8. ServesDisk'
    BY DEF ServesDisk
<1>9. Installing'
    BY <1>1, <1>2, StillInstalled
<1> QED
    BY <1>3, <1>4, <1>5, <1>6, <1>7, <1>8, <1>9 DEF IInv, Installing

\* Reading the root file.
LEMMA ReadRootIInv ==
    ASSUME IInv, ReadRoot
    PROVE  IInv'
<1>1. PICK h \in loads :
        /\ h.step = "root"
        /\ Advance(h, {[h EXCEPT !.seen[1] = disk[1],
                                 !.step = IF kind \in RootOnly THEN "walk" ELSE "list"]})
        /\ Reading
    BY DEF ReadRoot
<1> DEFINE next == IF kind \in RootOnly THEN "walk" ELSE "list"
           g == [h EXCEPT !.seen[1] = disk[1], !.step = next]
<1>2. h \in Handler /\ disk \in [Files -> File] /\ 1 \in Files /\ disk[1] \in File
    BY FilesAre DEF IInv, Typed
<1>3. next \in {"root", "list", "walk", "redact"} /\ next # "redact"
    OBVIOUS
<1>4. g = [h EXCEPT !.seen = [h.seen EXCEPT ![1] = disk[1]], !.step = next]
    BY <1>2 DEF Handler
<1>5. [h.seen EXCEPT ![1] = disk[1]] \in [Files -> File] /\ h.seen \in [Files -> File]
    BY <1>2 DEF Handler
<1>6. /\ g \in Handler /\ g.alone = h.alone /\ g.left = h.left /\ g.step = next
      /\ g.seen = [h.seen EXCEPT ![1] = disk[1]]
  <2> DEFINE s == [h.seen EXCEPT ![1] = disk[1]]
  <2>1. s \in [Files -> File]
    BY <1>5
  <2> HIDE DEF s, next
  <2> QED
    BY <1>2, <1>3, <1>4, <2>1 DEF Handler, s
<1>7. loads' = (loads \ {h}) \cup {g}
    BY <1>1 DEF Advance
<1> HIDE DEF g
<1>8. SeesDisk(h) => SeesDisk(g)
  <2>1. kind \in RootOnly => \A f \in Files \ {1} : disk[f] = Absent
    BY DEF IInv, FilesOfKind
  <2>2. SUFFICES ASSUME SeesDisk(h) PROVE SeesDisk(g)
    OBVIOUS
  <2>3. h.left = {} /\ \A f \in Files : h.seen[f] = Absent
    BY <1>1, <2>2 DEF SeesDisk
  <2>4. g.seen[1] = disk[1] /\ \A f \in Files \ {1} : g.seen[f] = Absent
    BY <1>2, <1>5, <1>6, <2>3
  <2> QED
    BY <1>6, <2>1, <2>3, <2>4 DEF SeesDisk
<1> QED
    BY <1>1, <1>3, <1>6, <1>7, <1>8, ReadsOn

\* Listing the subdirectory.
LEMMA ListIInv ==
    ASSUME IInv, List
    PROVE  IInv'
<1>1. PICK h \in loads :
        /\ h.step = "list"
        /\ Advance(h, {[h EXCEPT !.left = {f \in Files \ {1} : disk[f] # Absent}, !.step = "walk"]})
        /\ Reading
    BY DEF List
<1> DEFINE found == {f \in Files \ {1} : disk[f] # Absent}
           g == [h EXCEPT !.left = found, !.step = "walk"]
<1>2. h \in Handler /\ found \in SUBSET (Files \ {1})
    BY DEF IInv, Typed
<1>3. loads' = (loads \ {h}) \cup {g}
    BY <1>1 DEF Advance
<1>4. /\ g \in Handler /\ g.alone = h.alone /\ g.left = found /\ g.step = "walk"
      /\ g.seen = h.seen
  <2> HIDE DEF found
  <2>1. "walk" \in {"root", "list", "walk", "redact"}
    OBVIOUS
  <2> QED
    BY <1>2, <2>1 DEF Handler
<1> HIDE DEF g
<1>5. SeesDisk(h) => SeesDisk(g)
    BY <1>1, <1>4 DEF SeesDisk
<1> QED
    BY <1>1, <1>3, <1>4, <1>5, ReadsOn

\* Reading one of its files.
LEMMA WalkIInv ==
    ASSUME IInv, Walk
    PROVE  IInv'
<1>1. PICK h \in loads, f \in Files :
        /\ h.step = "walk" /\ f \in h.left
        /\ Advance(h, {[h EXCEPT !.left = @ \ {f},
                                 !.seen[f] = IF disk[f] = Absent THEN Broken ELSE disk[f]]})
        /\ Reading
    BY DEF Walk
<1> DEFINE c == IF disk[f] = Absent THEN Broken ELSE disk[f]
           s == [h.seen EXCEPT ![f] = c]
           l == h.left \ {f}
           g == [h EXCEPT !.left = @ \ {f}, !.seen[f] = c]
<1>2. h \in Handler /\ disk \in [Files -> File] /\ c \in File
    BY DEF IInv, Typed, File
<1>3. loads' = (loads \ {h}) \cup {g}
    BY <1>1 DEF Advance
<1>4. s \in [Files -> File] /\ h.seen \in [Files -> File] /\ l \in SUBSET (Files \ {1})
    BY <1>2 DEF Handler
<1>5. g = [h EXCEPT !.left = l, !.seen = s]
    BY <1>2 DEF Handler
<1>6. g \in Handler /\ g.alone = h.alone /\ g.left = l /\ g.step = h.step /\ g.seen = s
  <2> HIDE DEF g, s, l
  <2> QED
    BY <1>2, <1>4, <1>5 DEF Handler
<1> HIDE DEF g
<1>7. SeesDisk(h) => SeesDisk(g)
  <2>1. SUFFICES ASSUME SeesDisk(h) PROVE SeesDisk(g)
    OBVIOUS
  <2>2. /\ h.seen[1] = disk[1]
        /\ \A i \in Files \ {1} :
              IF i \in h.left THEN disk[i] # Absent ELSE h.seen[i] = disk[i]
    BY <1>1, <2>1 DEF SeesDisk
  <2>3. f # 1 /\ f \in Files /\ disk[f] # Absent
    BY <1>1, <1>2, <2>2 DEF Handler
  <2>4. \A i \in Files : g.seen[i] = IF i = f THEN disk[f] ELSE h.seen[i]
    BY <1>4, <1>6, <2>3
  <2>5. 1 \in Files
    BY FilesAre
  <2> QED
    BY <1>1, <1>6, <2>2, <2>3, <2>4, <2>5 DEF SeesDisk
<1> QED
    BY <1>1, <1>3, <1>6, <1>7, ReadsOn

\* A handler that saw all of the directory loads what is on disk.
LEMMA SeenIsDisk ==
    ASSUME Typed, NEW h \in loads, SeesDisk(h),
           \/ h.step = "walk" /\ h.left = {}
           \/ h.step = "redact"
    PROVE  Found(h) = Load(kind, Disk)
<1>1. h.seen \in [Files -> File] /\ disk \in [Files -> File] /\ 1 \in Files
    BY FilesAre DEF Typed, Handler
<1>2. \A f \in Files : h.seen[f] = disk[f]
    BY <1>1 DEF SeesDisk
<1>3. h.seen = disk
    BY <1>1, <1>2
<1> QED
    BY <1>3, DiskIs

\* A load that fails leaves what is served as it is.
LEMMA LoadFailsIInv ==
    ASSUME IInv, LoadFails
    PROVE  IInv'
<1>1. Typed /\ Watching /\ Installing /\ Timers
    BY DEF IInv, Watching, Installing
<1>2. PICK h \in loads :
        /\ h.step = "walk" /\ h.left = {} /\ Found(h) = Failed
        /\ loads' = loads \ {h} /\ due' = due
        /\ UNCHANGED <<kind, boot, disk, writing, subdir, watched, events, timer, seq, published,
                       redactor, overlapped, installed, update, changes, faults, unseen, mixed>>
  <2>1. PICK h \in loads :
        /\ h.step = "walk" /\ h.left = {} /\ Found(h) = Failed
        /\ Advance(h, {}) /\ GiveUp
        /\ UNCHANGED <<kind, boot, disk, writing, subdir, watched, events, timer, seq, published,
                       redactor, overlapped, installed, update, changes, faults, unseen, mixed>>
    BY DEF LoadFails
  <2> QED
    BY <2>1 DEF Advance, GiveUp
<1>3. Typed' /\ Timers'
    BY <1>1, <1>2 DEF Typed, Timers
<1>4. AloneIsAlone'
    BY <1>1, <1>2 DEF Watching, AloneIsAlone
<1>5. LoadsSeeDisk'
    BY <1>1, <1>2 DEF Watching, LoadsSeeDisk, SeesDisk, UpToDate, NothingPending
<1>6. RedactsServed'
    BY <1>1, <1>2 DEF Watching, RedactsServed, Found
<1>7. RedactorFollows'
    BY <1>1, <1>2 DEF Watching, RedactorFollows
<1>8. ServesDisk'
  <2>1. SUFFICES ASSUME UpToDate', ~overlapped', loads' = {} PROVE ShowsDisk'
    BY DEF ServesDisk
  <2>2. UpToDate /\ ~overlapped
    BY <1>2, <2>1 DEF UpToDate, NothingPending
  <2>3. h.alone /\ SeesDisk(h)
    BY <1>1, <2>2 DEF Watching, AloneIsAlone, LoadsSeeDisk
  <2>4. Load(kind, Disk) = Failed
    BY <1>1, <1>2, <2>3, SeenIsDisk
  <2>5. Load(kind, Disk)' = Failed
    BY <1>2, <2>4 DEF Disk
  <2> QED
    BY <2>5 DEF ShowsDisk
<1>9. Installing'
    BY <1>1, <1>2, StillInstalled
<1> QED
    BY <1>3, <1>4, <1>5, <1>6, <1>7, <1>8, <1>9 DEF IInv, Installing

\* What a handler publishes is what it found; if it ran alone and nothing changed since it
\* started, that is what is on disk.
LEMMA PublishIInv ==
    ASSUME IInv, Publish
    PROVE  IInv'
<1>1. Typed /\ Watching /\ Installing /\ Timers
    BY DEF IInv, Watching, Installing
<1>2. PICK h \in loads :
        /\ h.step = "walk" /\ h.left = {} /\ Found(h) # Failed
        /\ published' = Swap(Found(h))
        /\ IF kind = "ml"
           THEN Advance(h, {[h EXCEPT !.step = "redact"]}) /\ UNCHANGED overlapped
           ELSE Advance(h, {}) /\ overlapped' = (overlapped /\ ~h.alone)
        /\ UNCHANGED <<kind, boot, disk, writing, subdir, watched, events, timer, seq, due, redactor,
                       installed, update, changes, faults, unseen, mixed>>
    BY DEF Publish
<1> DEFINE v == Found(h)
           g == [h EXCEPT !.step = "redact"]
<1>3. v \in RuleSet /\ published \in RuleSet \cup {Nil} /\ h \in Handler /\ h.alone \in BOOLEAN
    BY <1>1, <1>2, DiskIs DEF Typed, Handler
<1>4. published' \in RuleSet /\ (kind = "ml" => published' = v)
    BY <1>2, <1>3, SwapTyped
<1>5. /\ g \in Handler /\ g.alone = h.alone /\ g.left = {} /\ g.step = "redact"
      /\ g.seen = h.seen
  <2>1. "redact" \in {"root", "list", "walk", "redact"}
    OBVIOUS
  <2> QED
    BY <1>2, <1>3, <2>1 DEF Handler
<1> HIDE DEF g
<1>6. loads' = IF kind = "ml" THEN (loads \ {h}) \cup {g} ELSE loads \ {h}
    BY <1>2 DEF Advance, g
<1>7. Typed' /\ Timers'
  <2>1. overlapped' \in BOOLEAN
    BY <1>1, <1>2, <1>3 DEF Typed
  <2>2. loads' \subseteq Handler
    BY <1>1, <1>5, <1>6 DEF Typed
  <2> QED
    BY <1>1, <1>2, <1>4, <2>1, <2>2 DEF Typed, Timers
<1>8. AloneIsAlone'
  <2>1. CASE kind = "ml"
    <3>1. overlapped' = overlapped /\ loads' = (loads \ {h}) \cup {g}
      BY <1>2, <1>6, <2>1
    <3> QED
      BY <1>1, <1>5, <3>1 DEF Watching, AloneIsAlone
  <2>2. CASE kind # "ml"
    <3>1. (overlapped' <=> overlapped /\ ~h.alone) /\ loads' = loads \ {h}
      BY <1>2, <1>6, <2>2
    <3> QED
      BY <1>1, <3>1 DEF Watching, AloneIsAlone
  <2> QED
    BY <2>1, <2>2
<1>9. Found(h)' = v /\ Found(g)' = v /\ Found(g) = v
    BY <1>2, <1>5 DEF Found
<1>10. LoadsSeeDisk'
  <2>1. SUFFICES ASSUME UpToDate', NEW i \in loads', i.alone PROVE SeesDisk(i)'
    BY DEF LoadsSeeDisk
  <2>2. UpToDate
    BY <1>2, <2>1 DEF UpToDate, NothingPending
  <2>3. CASE i \in loads
    <3>1. SeesDisk(i)
      BY <1>1, <2>1, <2>2, <2>3 DEF Watching, LoadsSeeDisk
    <3> QED
      BY <1>2, <3>1 DEF SeesDisk
  <2>4. CASE i \notin loads
    <3>1. i = g
      BY <1>6, <2>1, <2>4
    <3>2. SeesDisk(h)
      BY <1>1, <1>5, <2>1, <2>2, <3>1 DEF Watching, LoadsSeeDisk
    <3>3. \A f \in Files : h.seen[f] = disk[f]
      BY <1>2, <3>2 DEF SeesDisk
    <3> QED
      BY <1>2, <1>5, <3>1, <3>3 DEF SeesDisk
  <2> QED
    BY <2>3, <2>4
<1>11. RedactsServed'
  <2>1. SUFFICES ASSUME NEW i \in loads', i.step = "redact"
                 PROVE  kind' = "ml" /\ Found(i)' # Failed /\ (i.alone => published' = Found(i)')
    BY DEF RedactsServed
  <2>2. CASE i \in loads /\ i # h
    <3>1. kind = "ml" /\ Found(i) # Failed
      BY <1>1, <2>1, <2>2 DEF Watching, RedactsServed
    <3>2. ~i.alone
      BY <1>1, <2>2 DEF Watching, AloneIsAlone
    <3>3. Found(i)' = Found(i)
      BY <1>2 DEF Found
    <3> QED
      BY <1>2, <3>1, <3>2, <3>3
  <2>3. CASE ~ (i \in loads /\ i # h)
    <3>1. i = g /\ kind = "ml"
      BY <1>6, <2>1, <2>3, <1>2
    <3> QED
      BY <1>2, <1>4, <1>9, <3>1
  <2> QED
    BY <2>2, <2>3
<1>12. RedactorFollows'
    BY <1>2, <1>5, <1>6 DEF RedactorFollows
<1>13. ServesDisk'
  <2>1. SUFFICES ASSUME UpToDate', ~overlapped', loads' = {}
                 PROVE  ShowsDisk'
    BY DEF ServesDisk
  <2>2. kind # "ml" /\ UpToDate
    BY <1>2, <1>6, <2>1 DEF UpToDate, NothingPending
  <2>3. h.alone
    BY <1>1, <1>2, <2>1, <2>2 DEF Watching, AloneIsAlone
  <2>4. SeesDisk(h)
    BY <1>1, <2>2, <2>3 DEF Watching, LoadsSeeDisk
  <2>5. v = Load(kind, Disk)
    BY <1>1, <1>2, <2>4, SeenIsDisk
  <2>6. Load(kind, Disk)' = Load(kind, Disk)
    BY <1>2 DEF Disk
  <2> DEFINE w == Load(kind, Disk)
  <2> HIDE DEF w
  <2>7. \A x \in RuleSet : published' = Swap(x) => Shows(x)'
    BY <1>2, <1>3, SwapShows
  <2>8. \A x : Load(kind, Disk)' = x /\ Shows(x)' => ShowsDisk'
    BY DEF ShowsDisk, Shows
  <2> QED
    BY <1>2, <1>3, <2>5, <2>6, <2>7, <2>8
<1>14. Installing'
    BY <1>1, <1>2, StillInstalled
<1> QED
    BY <1>7, <1>8, <1>10, <1>11, <1>12, <1>13, <1>14 DEF IInv, Installing

\* The redactor is the one of the rules that were published.
LEMMA RedactIInv ==
    ASSUME IInv, Redact
    PROVE  IInv'
<1>1. Typed /\ Watching /\ Installing /\ Timers
    BY DEF IInv, Watching, Installing
<1>2. PICK h \in loads :
        /\ h.step = "redact" /\ redactor' = Found(h)
        /\ loads' = loads \ {h} /\ overlapped' = (overlapped /\ ~h.alone)
        /\ UNCHANGED <<kind, boot, disk, writing, subdir, watched, events, timer, seq, due,
                       published, installed, update, changes, faults, unseen, mixed>>
  <2>1. PICK h \in loads :
        /\ h.step = "redact" /\ SetActiveRedactor(h)
        /\ Advance(h, {}) /\ overlapped' = (overlapped /\ ~h.alone)
        /\ UNCHANGED <<kind, boot, disk, writing, subdir, watched, events, timer, seq, due,
                       published, installed, update, changes, faults, unseen, mixed>>
    BY DEF Redact
  <2> QED
    BY <2>1 DEF Advance, SetActiveRedactor
<1>3. /\ kind = "ml" /\ Found(h) \in RuleSet /\ (h.alone => published = Found(h))
      /\ h.alone \in BOOLEAN
    BY <1>1, <1>2, DiskIs DEF Watching, RedactsServed, Typed, Handler
<1>4. Typed' /\ Timers'
  <2>1. overlapped' \in BOOLEAN
    BY <1>1, <1>2, <1>3 DEF Typed
  <2> QED
    BY <1>1, <1>2, <1>3, <2>1 DEF Typed, Timers
<1>5. overlapped' <=> overlapped /\ ~h.alone
    BY <1>2
<1>6. AloneIsAlone'
    BY <1>1, <1>2, <1>5 DEF Watching, AloneIsAlone
<1>7. LoadsSeeDisk'
    BY <1>1, <1>2 DEF Watching, LoadsSeeDisk, SeesDisk, UpToDate, NothingPending
<1>8. RedactsServed'
    BY <1>1, <1>2 DEF Watching, RedactsServed, Found
<1>9. ~overlapped' => h.alone
    BY <1>1, <1>5 DEF Watching, AloneIsAlone
<1>10. RedactorFollows'
    BY <1>2, <1>3, <1>9 DEF RedactorFollows
<1>11. ServesDisk'
  <2>1. SUFFICES ASSUME UpToDate', ~overlapped', loads' = {} PROVE ShowsDisk'
    BY DEF ServesDisk
  <2>2. UpToDate
    BY <1>2, <2>1 DEF UpToDate, NothingPending
  <2>3. h.alone /\ SeesDisk(h)
    BY <1>1, <1>9, <2>1, <2>2 DEF Watching, LoadsSeeDisk
  <2>4. published = Load(kind, Disk)
    BY <1>1, <1>2, <1>3, <2>3, SeenIsDisk
  <2> QED
    BY <1>2, <1>3, <2>4 DEF ShowsDisk, Shows, Disk
<1>12. Installing'
    BY <1>1, <1>2, StillInstalled
<1> QED
    BY <1>4, <1>6, <1>7, <1>8, <1>10, <1>11, <1>12 DEF IInv, Installing

\* Nothing happens.
LEMMA StutterIInv ==
    ASSUME IInv, UNCHANGED vars
    PROVE  IInv'
<1>1. Typed /\ Watching /\ Installing /\ Timers
    BY DEF IInv, Watching, Installing
<1>2. Typed' /\ Timers'
    BY <1>1 DEF Typed, Timers, vars, watcher
<1>3. Watching'
    BY <1>1, Apart DEF vars, watcher, UpToDate, NothingPending
<1>4. Installing'
    BY <1>1, StillInstalled DEF vars, watcher
<1> QED
    BY <1>2, <1>3, <1>4 DEF IInv, Watching, Installing

\* So every step keeps the invariant.
LEMMA NextIInv ==
    ASSUME IInv, [Next]_vars
    PROVE  IInv'
<1>1. CASE Write
    BY <1>1, TruncateIInv, FillIInv, DeleteIInv, UpdateStartIInv, UpdateFileIInv,
       UpdateCutFileIInv, UpdateFailIInv, UpdateDoneIInv DEF Write
<1>2. CASE WatchRoot \/ WatchSubdir \/ LoseWatch \/ WatchError
    BY <1>2, WatchIInv
<1>3. CASE Reload
    BY <1>3, TimersIInv, StartLoadIInv, ReadRootIInv, ListIInv, WalkIInv, LoadFailsIInv,
       PublishIInv, RedactIInv DEF Reload
<1>4. CASE UNCHANGED vars
    BY <1>4, StutterIInv
<1> QED
    BY <1>1, <1>2, <1>3, <1>4 DEF Next

\* The inductive invariant, for any rule sets, contents, releases and bounds.
THEOREM Invariance == Spec => []IInv
<1>1. Init => IInv
    BY InitIInv
<1>2. IInv /\ [Next]_vars => IInv'
    BY NextIInv
<1> QED
    BY <1>1, <1>2, PTL DEF Spec

\* Whatever is loaded, merged, written or published is a rule set, in every state.
THEOREM RulesTypeCorrect == Spec => []TypeOK
<1>1. IInv => TypeOK
  <2> SUFFICES ASSUME IInv PROVE TypeOK
    OBVIOUS
  <2>1. Typed
    BY DEF IInv
  <2>2. \A f \in Files : disk[f] \in {Absent, Broken} \/ disk[f] \in RuleSet
    BY <2>1 DEF Typed, File
  <2>3. writing = <<>> \/ writing[1] \in Files
    BY <2>1 DEF Typed
  <2>4. \A h \in loads : h.step \in {"root", "list", "walk", "redact"} /\ h.left \subseteq Files
    BY <2>1 DEF Typed, Handler
  <2>5. update = <<>> \/ update[1] \in DOMAIN Release
    BY <2>1 DEF Typed
  <2>6. {subdir, watched, overlapped, mixed} \subseteq BOOLEAN
    BY <2>1 DEF Typed
  <2>7. {events, timer, seq, changes, faults} \cup due \subseteq Nat
    BY <2>1 DEF Typed
  <2>8. \A v \in {published, redactor} : v = Nil \/ v \in RuleSet
    BY <2>1 DEF Typed
  <2> QED
    BY <2>1, <2>2, <2>3, <2>4, <2>5, <2>6, <2>7, <2>8 DEF Typed, TypeOK
<1> QED
    BY <1>1, Invariance, PTL

\* Once the watcher rests, what is served is what the files hold, and the path redactor is
\* the one of the rules that are served (watcher.go: schedule; main.go: the handlers).
THEOREM ServedIsOnDisk == Spec => []CaughtUp
<1>1. IInv => CaughtUp
    BY DEF IInv, CaughtUp, Quiet, ServesDisk, RedactorFollows, UpToDate, NothingPending
<1> QED
    BY <1>1, Invariance, PTL

\* The version file names a release only when its files are on disk (update_rules.go).
THEOREM VersionFileIsTrue == Spec => []InstalledIsComplete
<1>1. IInv => InstalledIsComplete
    BY DEF IInv, InstalledIsComplete, UpdateIsWhole
<1> QED
    BY <1>1, Invariance, PTL

-----------------------------------------------------------------------------
(***************************************************************************)
(* What the loaders keep. A rule of file f at position i has a place in the *)
(* list of all files, and the places are those of the list.                *)
(***************************************************************************)
(* b begins with a.                                                        *)
Begins(a, b) == Len(a) <= Len(b) /\ \A i \in 1..Len(a) : b[i] = a[i]

\* The values of a fold that only appends begin with one another.
LEMMA Grows ==
    ASSUME NEW S, NEW n \in Nat, NEW r, \A k \in 0..n : r[k] \in Seq(S),
           \A k \in 1..n : Begins(r[k - 1], r[k]), NEW j \in 0..n
    PROVE  \A k \in j..n : Begins(r[j], r[k])
<1> DEFINE G == {k \in Nat : j <= k /\ k <= n => Begins(r[j], r[k])}
<1>1. Begins(r[j], r[j])
    BY DEF Begins
<1>2. 0 \in G
    BY <1>1
<1>3. ASSUME NEW k \in G PROVE k + 1 \in G
  <2>1. k \in Nat /\ (j <= k /\ k <= n => Begins(r[j], r[k]))
    BY <1>3
  <2> DEFINE m == k + 1
  <2>2. m \in Nat /\ m - 1 = k
    BY <2>1
  <2> SUFFICES ASSUME j <= m, m <= n PROVE Begins(r[j], r[m])
    BY <2>2
  <2>3. CASE j = m
    BY <1>1, <2>3
  <2>4. CASE j # m
    <3>1. j <= k /\ k <= n /\ m \in 1..n /\ k \in 0..n /\ m \in 0..n
      BY <2>1, <2>4
    <3> HIDE DEF m
    <3>2. Begins(r[j], r[k]) /\ Begins(r[k], r[m])
      BY <2>1, <2>2, <3>1
    <3>3. r[j] \in Seq(S) /\ r[k] \in Seq(S) /\ r[m] \in Seq(S)
      BY <3>1
    <3> DEFINE a == r[j]
               b == r[k]
               c == r[m]
    <3>4. Begins(a, b) /\ Begins(b, c) /\ a \in Seq(S) /\ b \in Seq(S) /\ c \in Seq(S)
      BY <3>2, <3>3
    <3> HIDE DEF a, b, c
    <3>5. Len(a) \in Nat /\ Len(b) \in Nat /\ Len(c) \in Nat
      BY <3>4
    <3>6. Begins(a, c)
      BY <3>4, <3>5 DEF Begins
    <3> QED
      BY <3>6 DEF a, c
  <2> QED
    BY <2>3, <2>4
<1>4. G \in SUBSET Nat
    OBVIOUS
<1> HIDE DEF G
<1>5. Nat \subseteq G
    BY <1>2, <1>3, <1>4, Induct
<1> QED
    BY <1>5 DEF G

(* at[k] is where the rules of file k + 1 begin in the list.               *)
Offsets(at, n, list) ==
    /\ at[0] = 0 /\ \A k \in 0..n : at[k] \in Nat
    /\ \A k \in 1..n : at[k] = at[k - 1] + Len(list[k].items)
    /\ Len(Concat(list)) = at[n]
    /\ \A k \in 1..n : at[k] <= at[n]
    /\ \A k \in 1..n : \A i \in DOMAIN list[k].items :
          at[k - 1] + i \in DOMAIN Concat(list) /\ Concat(list)[at[k - 1] + i] = list[k].items[i]

\* Concat holds the rules of every file, in order.
LEMMA ConcatHolds ==
    ASSUME NEW n \in Nat, NEW list \in [1..n -> RuleSet]
    PROVE  \E at : Offsets(at, n, list)
<1>1. PICK r : ConcatSteps(r, n, list)
    BY ConcatTrace
<1>2. \A k \in 0..n : r[k] \in Seq(Item)
    BY <1>1 DEF ConcatSteps
<1>3. ASSUME NEW k \in 1..n
      PROVE  /\ Begins(r[k - 1], r[k]) /\ list[k].items \in Seq(Item)
             /\ Len(r[k]) = Len(r[k - 1]) + Len(list[k].items)
             /\ \A i \in 1..Len(list[k].items) : r[k][Len(r[k - 1]) + i] = list[k].items[i]
  <2>1. k \in 0..n /\ k - 1 \in 0..n
    OBVIOUS
  <2>2. r[k - 1] \in Seq(Item) /\ list[k].items \in Seq(Item)
    BY <1>2, <2>1 DEF RuleSet
  <2>3. r[k] = r[k - 1] \o list[k].items
    BY <1>1 DEF ConcatSteps
  <2> DEFINE a == r[k - 1]
             b == list[k].items
  <2>4. a \in Seq(Item) /\ b \in Seq(Item)
    BY <2>2
  <2> HIDE DEF a, b
  <2>5. /\ Len(a \o b) = Len(a) + Len(b) /\ Len(a) \in Nat /\ Len(b) \in Nat
        /\ \A i \in 1..Len(a) : (a \o b)[i] = a[i]
        /\ \A i \in 1..Len(b) : (a \o b)[Len(a) + i] = b[i]
    BY <2>4, ConcatKeeps
  <2>6. Begins(a, a \o b)
    BY <2>5 DEF Begins
  <2> QED
    BY <2>2, <2>3, <2>5, <2>6 DEF a, b
<1> DEFINE at == [k \in 0..n |-> Len(r[k])]
<1>4. r[0] = <<>> /\ Concat(list) = r[n]
    BY <1>1 DEF ConcatSteps
<1>5. at[0] = 0 /\ \A k \in 0..n : at[k] \in Nat
    BY <1>2, <1>4
<1>6. ASSUME NEW k \in 1..n
      PROVE  /\ at[k] = at[k - 1] + Len(list[k].items) /\ at[k] <= at[n]
             /\ \A i \in DOMAIN list[k].items :
                   at[k - 1] + i \in DOMAIN r[n] /\ r[n][at[k - 1] + i] = list[k].items[i]
  <2>1. k \in 0..n /\ k - 1 \in 0..n /\ n \in k..n /\ n \in 0..n
    OBVIOUS
  <2>2. Begins(r[k], r[n])
    BY <1>2, <1>3, <2>1, Grows
  <2>3. at[k] = Len(r[k]) /\ at[k - 1] = Len(r[k - 1]) /\ at[n] = Len(r[n])
    BY <2>1
  <2>4. at[k] \in Nat /\ at[k - 1] \in Nat /\ at[n] \in Nat
    BY <1>5, <2>1
  <2>5. r[n] \in Seq(Item) /\ list[k].items \in Seq(Item)
    BY <1>2, <1>3, <2>1
  <2> HIDE DEF at
  <2>6. at[k] = at[k - 1] + Len(list[k].items) /\ at[k] <= at[n]
    BY <1>3, <2>2, <2>3 DEF Begins
  <2>7. ASSUME NEW i \in DOMAIN list[k].items
        PROVE  at[k - 1] + i \in DOMAIN r[n] /\ r[n][at[k - 1] + i] = list[k].items[i]
    <3>1. i \in 1..Len(list[k].items) /\ Len(list[k].items) \in Nat /\ DOMAIN r[n] = 1..Len(r[n])
      BY <2>5
    <3>2. at[k - 1] + i \in 1..Len(r[k]) /\ at[k - 1] + i \in 1..Len(r[n])
      <4> DEFINE a == at[k - 1]
                 b == at[k]
                 c == at[n]
                 l == Len(list[k].items)
      <4>1. /\ a \in Nat /\ b \in Nat /\ c \in Nat /\ l \in Nat
            /\ b = a + l /\ b <= c /\ i \in 1..l
        BY <2>4, <2>6, <3>1
      <4> HIDE DEF a, b, c, l
      <4>2. a + i \in 1..b /\ a + i \in 1..c
        BY <4>1
      <4> QED
        BY <2>3, <4>2 DEF a, b, c
    <3>3. r[n][at[k - 1] + i] = r[k][at[k - 1] + i]
      BY <2>2, <3>2 DEF Begins
    <3>4. r[k][at[k - 1] + i] = list[k].items[i]
      BY <1>3, <2>3, <3>1
    <3> QED
      BY <3>1, <3>2, <3>3, <3>4
  <2> QED
    BY <2>6, <2>7
<1>7. Len(Concat(list)) = at[n]
    BY <1>4
<1> HIDE DEF at
<1> QED
    BY <1>4, <1>5, <1>6, <1>7 DEF Offsets

(* Every rule of the files, by file and position.                          *)
Given(n, list) == UNION {{f} \X DOMAIN list[f].items : f \in 1..n}

\* Each of them is a position of a file and a position of a rule in it.
LEMMA GivenAre ==
    ASSUME NEW n \in Nat, NEW list \in [1..n -> RuleSet], NEW g
    PROVE  /\ g \in Given(n, list) =>
                /\ g = <<g[1], g[2]>> /\ g[1] \in 1..n
                /\ list[g[1]].items \in Seq(Item) /\ g[2] \in DOMAIN list[g[1]].items
                /\ DOMAIN list[g[1]].items = 1..Len(list[g[1]].items)
                /\ list[g[1]].items[g[2]] \in Item
           /\ \A f \in 1..n : \A i \in DOMAIN list[f].items : <<f, i>> \in Given(n, list)
<1>1. \A f \in 1..n : list[f].items \in Seq(Item)
    BY DEF RuleSet
<1>2. ASSUME g \in Given(n, list)
      PROVE  g = <<g[1], g[2]>> /\ g[1] \in 1..n /\ g[2] \in DOMAIN list[g[1]].items
    BY <1>2 DEF Given
<1>3. ASSUME g \in Given(n, list)
      PROVE  /\ list[g[1]].items \in Seq(Item)
             /\ DOMAIN list[g[1]].items = 1..Len(list[g[1]].items)
             /\ list[g[1]].items[g[2]] \in Item
  <2>1. list[g[1]].items \in Seq(Item)
    BY <1>1, <1>2, <1>3
  <2> QED
    BY <1>2, <1>3, <2>1
<1>4. \A f \in 1..n : \A i \in DOMAIN list[f].items : <<f, i>> \in Given(n, list)
    BY DEF Given
<1> QED
    BY <1>2, <1>3, <1>4

\* The files follow one another in the list.
LEMMA OffsetsRise ==
    ASSUME NEW n \in Nat, NEW list \in [1..n -> RuleSet], NEW at, Offsets(at, n, list), NEW j \in 0..n
    PROVE  \A k \in j..n : at[j] <= at[k]
<1> DEFINE G == {k \in Nat : j <= k /\ k <= n => at[j] <= at[k]}
<1>1. at[j] \in Nat
    BY DEF Offsets
<1>2. 0 \in G
    BY <1>1
<1>3. ASSUME NEW k \in G PROVE k + 1 \in G
  <2>1. k \in Nat /\ (j <= k /\ k <= n => at[j] <= at[k])
    BY <1>3
  <2> DEFINE m == k + 1
  <2>2. m \in Nat /\ m - 1 = k
    BY <2>1
  <2> SUFFICES ASSUME j <= m, m <= n PROVE at[j] <= at[m]
    BY <2>2
  <2>3. CASE j = m
    BY <1>1, <2>3
  <2>4. CASE j # m
    <3>1. j <= k /\ k <= n /\ m \in 1..n /\ k \in 0..n /\ m \in 0..n
      BY <2>1, <2>4
    <3> HIDE DEF m
    <3>2. at[m] = at[k] + Len(list[m].items) /\ at[m] \in Nat /\ at[k] \in Nat
      BY <2>2, <3>1 DEF Offsets
    <3>3. Len(list[m].items) \in Nat
      <4>1. list[m].items \in Seq(Item)
        BY <3>1 DEF RuleSet
      <4> QED
        BY <4>1
    <3> QED
      BY <1>1, <2>1, <3>1, <3>2, <3>3
  <2> QED
    BY <2>3, <2>4
<1>4. G \in SUBSET Nat
    OBVIOUS
<1> HIDE DEF G
<1>5. Nat \subseteq G
    BY <1>2, <1>3, <1>4, Induct
<1> QED
    BY <1>5 DEF G

Place(at, g) == at[g[1] - 1] + g[2]

\* A place in a part of a list is a place in the list.
LEMMA Within ==
    ASSUME NEW a \in Nat, NEW l \in Nat, NEW b \in Nat, NEW c \in Nat, NEW i \in 1..l,
           b = a + l, b <= c
    PROVE  a + i \in Nat /\ a + i > a /\ a + i <= b /\ a + i \in 1..c
OBVIOUS

\* A rule given later has a later place.
LEMMA PlacesRise ==
    ASSUME NEW n \in Nat, NEW list \in [1..n -> RuleSet], NEW at, Offsets(at, n, list),
           NEW g \in Given(n, list), NEW h \in Given(n, list)
    PROVE  /\ Place(at, g) \in 1..at[n] /\ at[n] \in Nat
           /\ Concat(list)[Place(at, g)] = list[g[1]].items[g[2]]
           /\ h[1] > g[1] \/ (h[1] = g[1] /\ h[2] > g[2]) => Place(at, g) < Place(at, h)
           /\ Place(at, g) = Place(at, h) => g = h
<1>1. /\ g = <<g[1], g[2]>> /\ g[1] \in 1..n /\ g[2] \in 1..Len(list[g[1]].items)
      /\ g[2] \in DOMAIN list[g[1]].items
      /\ Len(list[g[1]].items) \in Nat
    BY GivenAre
<1>2. h = <<h[1], h[2]>> /\ h[1] \in 1..n /\ h[2] \in 1..Len(list[h[1]].items)
      /\ Len(list[h[1]].items) \in Nat
    BY GivenAre
<1>3. /\ at[n] \in Nat /\ at[g[1] - 1] \in Nat /\ at[h[1] - 1] \in Nat
      /\ at[g[1]] \in Nat /\ at[h[1]] \in Nat
      /\ at[g[1]] = at[g[1] - 1] + Len(list[g[1]].items) /\ at[g[1]] <= at[n]
      /\ at[h[1]] = at[h[1] - 1] + Len(list[h[1]].items)
  <2>1. g[1] - 1 \in 0..n /\ h[1] - 1 \in 0..n /\ g[1] \in 0..n /\ h[1] \in 0..n /\ n \in 0..n
    BY <1>1, <1>2
  <2> QED
    BY <1>1, <1>2, <2>1 DEF Offsets
<1>4. Place(at, g) \in 1..at[n] /\ Place(at, g) <= at[g[1]] /\ Place(at, g) \in Nat
  <2> DEFINE a == at[g[1] - 1]
             l == Len(list[g[1]].items)
             b == at[g[1]]
             c == at[n]
             i == g[2]
  <2>1. a \in Nat /\ l \in Nat /\ b \in Nat /\ c \in Nat /\ i \in 1..l /\ b = a + l /\ b <= c
    BY <1>1, <1>3
  <2>2. Place(at, g) = a + i
    BY DEF Place
  <2> HIDE DEF a, l, b, c, i
  <2>3. Place(at, g) \in 1..c /\ Place(at, g) <= b /\ Place(at, g) \in Nat
    BY <2>1, <2>2, Within
  <2> QED
    BY <2>3 DEF b, c
<1>5. Place(at, h) \in Nat /\ Place(at, h) > at[h[1] - 1] /\ Place(at, h) <= at[h[1]]
  <2> DEFINE a == at[h[1] - 1]
             l == Len(list[h[1]].items)
             b == at[h[1]]
             i == h[2]
  <2>1. a \in Nat /\ l \in Nat /\ b \in Nat /\ i \in 1..l /\ b = a + l
    BY <1>2, <1>3
  <2>2. Place(at, h) = a + i
    BY DEF Place
  <2> HIDE DEF a, l, b, i
  <2>3. b <= b
    BY <2>1
  <2>4. Place(at, h) \in Nat /\ Place(at, h) > a /\ Place(at, h) <= b
    BY <2>1, <2>2, <2>3, Within
  <2> QED
    BY <2>4 DEF a, b
<1>6. Concat(list)[Place(at, g)] = list[g[1]].items[g[2]]
    BY <1>1 DEF Offsets, Place
<1>7. ASSUME h[1] > g[1] PROVE Place(at, g) < Place(at, h)
  <2>1. g[1] \in 0..n /\ h[1] - 1 \in g[1]..n
    BY <1>1, <1>2, <1>7
  <2>2. at[g[1]] <= at[h[1] - 1]
    BY <2>1, OffsetsRise
  <2> QED
    BY <1>3, <1>4, <1>5, <2>2
<1>8. ASSUME g[1] > h[1] PROVE Place(at, h) < Place(at, g)
  <2>1. h[1] \in 0..n /\ g[1] - 1 \in h[1]..n
    BY <1>1, <1>2, <1>8
  <2>2. at[h[1]] <= at[g[1] - 1]
    BY <2>1, OffsetsRise
  <2>3. Place(at, g) > at[g[1] - 1]
    BY <1>1, <1>3 DEF Place
  <2> QED
    BY <1>3, <1>4, <1>5, <2>2, <2>3
<1>9. ASSUME h[1] = g[1]
      PROVE  /\ h[2] > g[2] => Place(at, g) < Place(at, h)
             /\ Place(at, g) = Place(at, h) => g = h
    BY <1>1, <1>2, <1>3, <1>9 DEF Place
<1>10. Place(at, g) = Place(at, h) => g = h
    BY <1>1, <1>2, <1>4, <1>5, <1>7, <1>8, <1>9
<1>11. h[1] > g[1] \/ (h[1] = g[1] /\ h[2] > g[2]) => Place(at, g) < Place(at, h)
    BY <1>7, <1>9
<1> QED
    BY <1>3, <1>4, <1>6, <1>10, <1>11

\* The list has nothing but the rules of the files.
LEMMA PlacesFill ==
    ASSUME NEW n \in Nat, NEW list \in [1..n -> RuleSet], NEW at, Offsets(at, n, list),
           NEW p \in 1..at[n]
    PROVE  \E g \in Given(n, list) : Place(at, g) = p
<1> DEFINE T == {k \in 0..n : p <= at[k]}
           k == Min(T)
<1>1. n \in T /\ T \in SUBSET Nat
    BY DEF Offsets
<1>2. k \in T /\ \A y \in T : k <= y
    BY <1>1, HasLeast
<1> HIDE DEF k
<1>3. k \in 0..n /\ p <= at[k] /\ k # 0
    BY <1>2 DEF Offsets
<1>4. k - 1 \in 0..n /\ k \in 1..n /\ k - 1 \notin T
    BY <1>2, <1>3
<1>5. /\ at[k - 1] \in Nat /\ at[k] = at[k - 1] + Len(list[k].items) /\ ~ (p <= at[k - 1])
      /\ at[n] \in Nat /\ at[k] \in Nat
    BY <1>1, <1>3, <1>4 DEF Offsets
<1>6. list[k].items \in Seq(Item)
    BY <1>4 DEF RuleSet
<1> DEFINE i == p - at[k - 1]
<1>7. i \in 1..Len(list[k].items) /\ at[k - 1] + i = p
    BY <1>3, <1>5, <1>6
<1> HIDE DEF i
<1>8. i \in DOMAIN list[k].items
    BY <1>6, <1>7
<1>9. <<k, i>> \in Given(n, list)
    BY <1>4, <1>8 DEF Given
<1>10. Place(at, <<k, i>>) = p
    BY <1>7 DEF Place
<1> QED
    BY <1>9, <1>10

\* So it has as many rules as the files.
LEMMA ConcatCounts ==
    ASSUME NEW n \in Nat, NEW list \in [1..n -> RuleSet]
    PROVE  Len(Concat(list)) = Cardinality(Given(n, list))
<1>1. PICK at : Offsets(at, n, list)
    BY ConcatHolds
<1> DEFINE m == at[n]
           b == [g \in Given(n, list) |-> Place(at, g)]
<1>2. m \in Nat /\ Len(Concat(list)) = m
    BY <1>1 DEF Offsets
<1>3. b \in Bijection(Given(n, list), 1..m)
  <2>1. b \in [Given(n, list) -> 1..m]
    BY <1>1, PlacesRise
  <2>2. \A g, h \in Given(n, list) : b[g] = b[h] => g = h
    BY <1>1, PlacesRise
  <2>3. \A p \in 1..m : \E g \in Given(n, list) : b[g] = p
    BY <1>1, PlacesFill
  <2> HIDE DEF b, m
  <2> QED
    BY <2>1, <2>2, <2>3 DEF Bijection, Injection, Surjection, IsInjective
<1> HIDE DEF b, m
<1>4. ExistsBijection(1..m, Given(n, list))
    BY <1>3, Fun_ExistsBijSymmetric DEF ExistsBijection
<1>5. IsFiniteSet(1..m) /\ Cardinality(1..m) = m
    BY <1>2, FS_Interval
<1>6. Cardinality(Given(n, list)) = m
    BY <1>4, <1>5, FS_Bijection
<1> QED
    BY <1>2, <1>6

UniqueKeys(items) == \A i, j \in DOMAIN items : items[i].key = items[j].key => i = j
HasKey(items, key) == \E i \in DOMAIN items : items[i].key = key

\* Writing an item adds its key and removes none.
LEMMA PutKeys ==
    ASSUME NEW items \in Seq(Item), NEW item \in Item
    PROVE  /\ HasKey(Put(items, item), item.key)
           /\ \A key : HasKey(items, key) => HasKey(Put(items, item), key)
           /\ UniqueKeys(items) => UniqueKeys(Put(items, item))
<1> DEFINE p == Put(items, item)
<1>1. /\ item \in ToSet(p)
      /\ \A y \in ToSet(items) : y.key # item.key => y \in ToSet(p)
      /\ UniqueKeys(items) => UniqueKeys(p)
    BY PutIs DEF UniqueKeys
<1> HIDE DEF p
<1>2. \A y \in ToSet(p) : HasKey(p, y.key)
    BY DEF ToSet, HasKey
<1>3. ASSUME NEW key, HasKey(items, key) PROVE HasKey(p, key)
  <2>1. PICK i \in DOMAIN items : items[i].key = key
    BY <1>3 DEF HasKey
  <2>2. items[i] \in ToSet(items)
    BY DEF ToSet
  <2>3. CASE key = item.key
    BY <1>1, <1>2, <2>3
  <2>4. CASE key # item.key
    BY <1>1, <1>2, <2>1, <2>2, <2>4
  <2> QED
    BY <2>3, <2>4
<1> QED
    BY <1>1, <1>2, <1>3 DEF p

\* Items written one over the other: each key is there, and once.
LEMMA OverwrittenKeys ==
    ASSUME NEW list \in Seq(Item)
    PROVE  /\ UniqueKeys(Overwritten(<<>>, list))
           /\ \A i \in DOMAIN list : HasKey(Overwritten(<<>>, list), list[i].key)
<1> DEFINE n == Len(list)
<1>1. n \in Nat /\ list \in [1..n -> Item] /\ DOMAIN list = 1..n /\ <<>> \in Seq(Item)
    BY ListsAreFunctions
<1> HIDE DEF n
<1>2. PICK r : OverwrittenSteps(r, n, list, <<>>)
    BY <1>1, OverwrittenTrace
<1> DEFINE Good(k) == UniqueKeys(r[k]) /\ \A i \in 1..k : HasKey(r[k], list[i].key)
           G == {k \in Nat : k <= n => Good(k)}
<1>3. 0 \in G
  <2>1. r[0] = <<>>
    BY <1>2 DEF OverwrittenSteps
  <2> QED
    BY <2>1 DEF UniqueKeys
<1>4. ASSUME NEW k \in G PROVE k + 1 \in G
  <2>1. k \in Nat /\ (k <= n => Good(k))
    BY <1>4
  <2> DEFINE m == k + 1
  <2>2. m \in Nat /\ m - 1 = k
    BY <2>1
  <2> SUFFICES ASSUME m <= n PROVE Good(m)
    BY <2>2
  <2>3. Good(k) /\ m \in 1..n /\ k \in 0..n /\ \A i \in 1..m : i = m \/ i \in 1..k
    BY <1>1, <2>1
  <2> HIDE DEF m
  <2>4. r[m] = Put(r[k], list[m]) /\ r[k] \in Seq(Item) /\ list[m] \in Item
    BY <1>1, <1>2, <2>2, <2>3 DEF OverwrittenSteps
  <2>5. /\ HasKey(r[m], list[m].key)
        /\ \A key : HasKey(r[k], key) => HasKey(r[m], key)
        /\ UniqueKeys(r[k]) => UniqueKeys(r[m])
    BY <2>4, PutKeys
  <2> QED
    BY <2>3, <2>5
<1>5. G \in SUBSET Nat
    OBVIOUS
<1> HIDE DEF G
<1>6. n \in G
    BY <1>1, <1>3, <1>4, <1>5, Induct
<1>7. Good(n)
    BY <1>1, <1>6 DEF G
<1> QED
    BY <1>1, <1>2, <1>7 DEF OverwrittenSteps

(* The ranges the first k of the given categories have for a name.         *)
Ranges(list, k, key) == UNION {ToSet(list[i].cidrs) : i \in {j \in 1..k : list[j].key = key}}

(* m is old with the categories of list merged, as the name key sees it.   *)
AddsAll(m, old, list, key) ==
    /\ Positions(old, key) # {} => Positions(m, key) = Positions(old, key)
    /\ Positions(old, key) = {} =>
          IF Positions(list, key) = {} THEN Positions(m, key) = {}
          ELSE \E p : Positions(m, key) = {p}
    /\ RangesOf(m, key) = RangesOf(old, key) \cup RangesOf(list, key)

\* Merging categories into others adds a name that is new once, leaves the others where they
\* are, and gives each name the ranges it had and those merged.
LEMMA MergedIntoKeeps ==
    ASSUME NEW old \in Seq(Item), NEW list \in Seq(Item), NEW key
    PROVE  AddsAll(MergedInto(old, list), old, list, key)
<1> DEFINE n == Len(list)
<1>1. n \in Nat /\ list \in [1..n -> Item] /\ DOMAIN list = 1..n
    BY ListsAreFunctions
<1> HIDE DEF n
<1>2. PICK r : MergedIntoSteps(r, n, list, old)
    BY <1>1, MergedIntoTrace
<1> DEFINE Good(k) == /\ Positions(old, key) # {} => Positions(r[k], key) = Positions(old, key)
                      /\ Positions(old, key) = {} =>
                            IF \E i \in 1..k : list[i].key = key
                            THEN \E p : Positions(r[k], key) = {p}
                            ELSE Positions(r[k], key) = {}
                      /\ RangesOf(r[k], key) = RangesOf(old, key) \cup Ranges(list, k, key)
           G == {k \in Nat : k <= n => Good(k)}
<1>3. 0 \in G
  <2>1. r[0] = old
    BY <1>2 DEF MergedIntoSteps
  <2>2. Ranges(list, 0, key) = {} /\ ~ \E i \in 1..0 : list[i].key = key
    BY DEF Ranges
  <2> QED
    BY <2>1, <2>2
<1>4. ASSUME NEW k \in G PROVE k + 1 \in G
  <2>1. k \in Nat /\ (k <= n => Good(k))
    BY <1>4
  <2> DEFINE m == k + 1
  <2>2. m \in Nat /\ m - 1 = k
    BY <2>1
  <2> SUFFICES ASSUME m <= n PROVE Good(m)
    BY <2>2
  <2>3. Good(k) /\ m \in 1..n /\ k \in 0..n /\ 1..m = (1..k) \cup {m}
    <3>1. k <= n /\ m \in 1..n /\ k \in 0..n /\ 1..m = (1..k) \cup {m}
      BY <1>1, <2>1
    <3> HIDE DEF Good
    <3> QED
      BY <2>1, <3>1
  <2> HIDE DEF m
  <2>4. r[m] = Merged(r[k], list[m]) /\ r[k] \in Seq(Item) /\ list[m] \in Item
    BY <1>1, <1>2, <2>2, <2>3 DEF MergedIntoSteps
  <2> DEFINE a == r[k]
             x == list[m]
             b == Merged(a, x)
  <2>a. a \in Seq(Item) /\ x \in Item /\ b = r[m]
    BY <2>4
  <2> HIDE DEF a, x
  <2>5. /\ key # x.key => Positions(b, key) = Positions(a, key) /\ RangesOf(b, key) = RangesOf(a, key)
        /\ key = x.key =>
              /\ Positions(a, key) # {} => Positions(b, key) = Positions(a, key)
              /\ Positions(a, key) = {} => \E p : Positions(b, key) = {p}
              /\ RangesOf(b, key) = RangesOf(a, key) \cup ToSet(x.cidrs)
    <3>1. Adds(b, a, x, key)
      BY <2>a, MergedIs
    <3> QED
      BY <3>1 DEF Adds
  <2>6. IF key = x.key THEN Ranges(list, m, key) = Ranges(list, k, key) \cup ToSet(x.cidrs)
        ELSE Ranges(list, m, key) = Ranges(list, k, key)
    <3>1. {j \in 1..m : list[j].key = key}
             = {j \in 1..k : list[j].key = key} \cup (IF key = x.key THEN {m} ELSE {})
      BY <2>3 DEF x
    <3> QED
      BY <3>1 DEF Ranges, x
  <2>7. (\E i \in 1..m : list[i].key = key) <=> (\E i \in 1..k : list[i].key = key) \/ key = x.key
    BY <2>3 DEF x
  <2> HIDE DEF b
  <2>8. CASE key # x.key
    BY <2>3, <2>a, <2>5, <2>6, <2>7, <2>8 DEF a
  <2>9. CASE key = x.key
    BY <2>3, <2>a, <2>5, <2>6, <2>7, <2>9 DEF a
  <2> QED
    BY <2>8, <2>9
<1>5. G \in SUBSET Nat
    OBVIOUS
<1> HIDE DEF G
<1>6. n \in G
    BY <1>1, <1>3, <1>4, <1>5, Induct
<1>7. Good(n) /\ MergedInto(old, list) = r[n]
  <2>1. n <= n /\ MergedInto(old, list) = r[n]
    BY <1>1, <1>2 DEF MergedIntoSteps
  <2> HIDE DEF Good
  <2> QED
    BY <1>6, <2>1 DEF G
<1>8. /\ Ranges(list, n, key) = RangesOf(list, key)
      /\ (\E i \in 1..n : list[i].key = key) <=> Positions(list, key) # {}
    BY <1>1 DEF Ranges, RangesOf, Positions
<1> QED
    BY <1>7, <1>8 DEF AddsAll

\* Only what does not parse is dropped.
LEMMA ParsedKeeps ==
    ASSUME NEW list \in Seq(Nat)
    PROVE  ToSet(Parsed(list)) = ToSet(list) \ {0}
<1> DEFINE n == Len(list)
<1>1. n \in Nat /\ list \in [1..n -> Nat] /\ DOMAIN list = 1..n
    BY ListsAreFunctions
<1> HIDE DEF n
<1>2. PICK r : ParsedSteps(r, n, list)
    BY <1>1, ParsedTrace
<1> DEFINE Good(k) == ToSet(r[k]) = {list[i] : i \in 1..k} \ {0}
           G == {k \in Nat : k <= n => Good(k)}
<1>3. 0 \in G
  <2>1. r[0] = <<>> /\ ToSet(<<>>) = {}
    BY <1>2 DEF ParsedSteps, ToSet
  <2> QED
    BY <2>1
<1>4. ASSUME NEW k \in G PROVE k + 1 \in G
  <2>1. k \in Nat /\ (k <= n => Good(k))
    BY <1>4
  <2> DEFINE m == k + 1
  <2>2. m \in Nat /\ m - 1 = k
    BY <2>1
  <2> SUFFICES ASSUME m <= n PROVE Good(m)
    BY <2>2
  <2>3. Good(k) /\ m \in 1..n /\ k \in 0..n /\ 1..m = (1..k) \cup {m}
    BY <1>1, <2>1
  <2> HIDE DEF m
  <2>4. /\ r[m] = (IF list[m] # 0 THEN Append(r[k], list[m]) ELSE r[k])
        /\ r[k] \in Seq(Nat) /\ list[m] \in Nat
    BY <1>1, <1>2, <2>2, <2>3 DEF ParsedSteps
  <2> DEFINE a == r[k]
             x == list[m]
  <2>5. a \in Seq(Nat) /\ x \in Nat
    BY <2>4
  <2> HIDE DEF a, x
  <2>6. ToSet(Append(a, x)) = ToSet(a) \cup {x}
    <3>1. /\ DOMAIN Append(a, x) = 1..(Len(a) + 1) /\ DOMAIN a = 1..Len(a) /\ Len(a) \in Nat
          /\ Append(a, x)[Len(a) + 1] = x /\ \A i \in 1..Len(a) : Append(a, x)[i] = a[i]
      BY <2>5
    <3> QED
      BY <3>1 DEF ToSet
  <2>7. {list[i] : i \in 1..m} = {list[i] : i \in 1..k} \cup {x}
    BY <2>3 DEF x
  <2>8. ToSet(r[m]) = IF x # 0 THEN ToSet(a) \cup {x} ELSE ToSet(a)
    BY <2>4, <2>6 DEF a, x
  <2> QED
    BY <2>3, <2>7, <2>8 DEF a
<1>5. G \in SUBSET Nat
    OBVIOUS
<1> HIDE DEF G
<1>6. n \in G
    BY <1>1, <1>3, <1>4, <1>5, Induct
<1>7. Good(n) /\ Parsed(list) = r[n]
    BY <1>1, <1>2, <1>6 DEF G, ParsedSteps
<1> QED
    BY <1>1, <1>7 DEF ToSet

Grown(r, list, any, k) ==
    /\ Len(r[k - 1]) \in Nat /\ Len(r[k]) \in Nat
    /\ Begins(r[k - 1], r[k])
    /\ list[k].any = any => Len(r[k]) = Len(r[k - 1]) + 1 /\ r[k][Len(r[k])] = list[k]
    /\ list[k].any # any => r[k] = r[k - 1]

\* A route of the kind is appended, any other is left out.
LEMMA RoutesGrow ==
    ASSUME NEW n \in Nat, NEW list \in [1..n -> Item], NEW any \in BOOLEAN, NEW r,
           RoutesSteps(r, n, list, any), NEW k \in 1..n
    PROVE  Grown(r, list, any, k)
<1>1. k - 1 \in 0..n /\ k \in 0..n /\ list[k] \in Item
    OBVIOUS
<1>2. r[k - 1] \in Seq(Item) /\ r[k] \in Seq(Item)
    BY <1>1 DEF RoutesSteps
<1> DEFINE a == r[k - 1]
           b == r[k]
           x == list[k]
<1>3. a \in Seq(Item) /\ b \in Seq(Item) /\ x \in Item
    BY <1>1, <1>2
<1>4. b = (IF x.any = any THEN Append(a, x) ELSE a)
    BY DEF RoutesSteps
<1> HIDE DEF a, b, x
<1>5. /\ Len(Append(a, x)) = Len(a) + 1 /\ Append(a, x)[Len(a) + 1] = x
      /\ Begins(a, Append(a, x)) /\ Begins(a, a) /\ Len(a) \in Nat /\ Len(b) \in Nat
    BY <1>3 DEF Begins
<1>6. /\ Len(a) \in Nat /\ Len(b) \in Nat /\ Begins(a, b)
      /\ x.any = any => Len(b) = Len(a) + 1 /\ b[Len(b)] = x
      /\ x.any # any => b = a
    BY <1>4, <1>5
<1> QED
    BY <1>6 DEF a, b, x, Grown

\* The routes of both kinds are all of them.
LEMMA RoutesCount ==
    ASSUME NEW list \in Seq(Item)
    PROVE  /\ Len(Routes(list, FALSE)) \in Nat /\ Len(Routes(list, TRUE)) \in Nat
           /\ Len(Routes(list, FALSE)) + Len(Routes(list, TRUE)) = Len(list)
<1> DEFINE n == Len(list)
           no == FALSE
           yes == TRUE
<1>0. no \in BOOLEAN /\ yes \in BOOLEAN /\ \A b \in BOOLEAN : b # no => b = yes
    OBVIOUS
<1>a. yes # no
    OBVIOUS
<1>1. n \in Nat /\ list \in [1..n -> Item] /\ DOMAIN list = 1..n /\ n \in 0..n
    BY ListsAreFunctions
<1> HIDE DEF n, no, yes
<1>2. PICK f : RoutesSteps(f, n, list, no)
    BY <1>0, <1>1, RoutesTrace
<1>3. PICK t : RoutesSteps(t, n, list, yes)
    BY <1>0, <1>1, RoutesTrace
<1> DEFINE c == [k \in 0..n |-> Len(f[k])]
           d == [k \in 0..n |-> Len(t[k])]
<1>4. ASSUME NEW k \in 1..n
      PROVE  /\ c[k - 1] \in Nat /\ c[k] \in Nat /\ d[k - 1] \in Nat /\ d[k] \in Nat
             /\ c[k] + d[k] = c[k - 1] + d[k - 1] + 1
  <2>1. c[k] = Len(f[k]) /\ c[k - 1] = Len(f[k - 1]) /\ d[k] = Len(t[k]) /\ d[k - 1] = Len(t[k - 1])
    BY <1>1
  <2>2. /\ Len(f[k - 1]) \in Nat /\ Len(f[k]) \in Nat
        /\ list[k].any = no => Len(f[k]) = Len(f[k - 1]) + 1
        /\ list[k].any # no => f[k] = f[k - 1]
    <3>1. Grown(f, list, no, k)
      BY <1>0, <1>1, <1>2, RoutesGrow
    <3> QED
      BY <3>1 DEF Grown
  <2>3. /\ Len(t[k - 1]) \in Nat /\ Len(t[k]) \in Nat
        /\ list[k].any = yes => Len(t[k]) = Len(t[k - 1]) + 1
        /\ list[k].any # yes => t[k] = t[k - 1]
    <3>1. Grown(t, list, yes, k)
      BY <1>0, <1>1, <1>3, RoutesGrow
    <3> QED
      BY <3>1 DEF Grown
  <2>4. list[k].any = yes \/ list[k].any = no
    <3>1. list[k] \in Item
      BY <1>1
    <3> QED
      BY <1>0, <3>1 DEF Item
  <2> HIDE DEF c, d
  <2>a. c[k - 1] \in Nat /\ c[k] \in Nat /\ d[k - 1] \in Nat /\ d[k] \in Nat
    BY <2>1, <2>2, <2>3
  <2>5. CASE list[k].any = yes
    <3>1. list[k].any # no
      BY <1>a, <2>5
    <3>2. Len(t[k]) = Len(t[k - 1]) + 1 /\ Len(f[k]) = Len(f[k - 1])
      BY <2>2, <2>3, <2>5, <3>1
    <3>3. d[k] = d[k - 1] + 1 /\ c[k] = c[k - 1]
      BY <2>1, <3>2
    <3> QED
      BY <2>a, <3>3
  <2>6. CASE list[k].any = no
    <3>1. list[k].any # yes
      BY <1>a, <2>6
    <3>2. Len(f[k]) = Len(f[k - 1]) + 1 /\ Len(t[k]) = Len(t[k - 1])
      BY <2>2, <2>3, <2>6, <3>1
    <3>3. c[k] = c[k - 1] + 1 /\ d[k] = d[k - 1]
      BY <2>1, <3>2
    <3> QED
      BY <2>a, <3>3
  <2> QED
    BY <2>4, <2>5, <2>6
<1>5. f[0] = <<>> /\ t[0] = <<>> /\ Routes(list, no) = f[n] /\ Routes(list, yes) = t[n]
    BY <1>2, <1>3 DEF RoutesSteps
<1>6. c[0] = 0 /\ d[0] = 0 /\ c[n] = Len(f[n]) /\ d[n] = Len(t[n])
    BY <1>1, <1>5
<1> HIDE DEF c, d
<1> DEFINE G == {k \in Nat : k <= n => c[k] \in Nat /\ d[k] \in Nat /\ c[k] + d[k] = k}
<1>7. 0 \in G
    BY <1>6
<1>8. ASSUME NEW k \in G PROVE k + 1 \in G
  <2>1. k \in Nat /\ (k <= n => c[k] \in Nat /\ d[k] \in Nat /\ c[k] + d[k] = k)
    BY <1>8
  <2> DEFINE m == k + 1
  <2>2. m \in Nat /\ m - 1 = k /\ m = k + 1
    BY <2>1
  <2> HIDE DEF m
  <2>3. ASSUME m <= n PROVE c[m] \in Nat /\ d[m] \in Nat /\ c[m] + d[m] = m
    <3>1. m \in 1..n /\ k <= n
      BY <1>1, <2>1, <2>2, <2>3
    <3>2. c[m] \in Nat /\ d[m] \in Nat /\ c[m] + d[m] = c[k] + d[k] + 1
      BY <1>4, <2>2, <3>1
    <3> QED
      BY <2>1, <2>2, <3>1, <3>2
  <2>4. m \in G
    BY <2>2, <2>3
  <2> QED
    BY <2>4 DEF m
<1>9. G \in SUBSET Nat
    OBVIOUS
<1> HIDE DEF G
<1>10. n \in G
    BY <1>1, <1>7, <1>8, <1>9, Induct
<1>11. c[n] \in Nat /\ d[n] \in Nat /\ c[n] + d[n] = n
    BY <1>1, <1>10 DEF G
<1> QED
    BY <1>5, <1>6, <1>11 DEF n, no, yes

(* x stands before y in the list.                                          *)
Before(list, x, y) == \E i, j \in DOMAIN list : i < j /\ list[i] = x /\ list[j] = y

\* The routes of one kind keep their order.
LEMMA RoutesInOrder ==
    ASSUME NEW list \in Seq(Item), NEW any \in BOOLEAN, NEW p \in DOMAIN list,
           NEW q \in DOMAIN list, p < q, list[p].any = any, list[q].any = any
    PROVE  Before(Routes(list, any), list[p], list[q])
<1> DEFINE n == Len(list)
<1>1. n \in Nat /\ list \in [1..n -> Item] /\ p \in 1..n /\ q \in 1..n
    BY ListsAreFunctions
<1> HIDE DEF n
<1>2. PICK r : RoutesSteps(r, n, list, any)
    BY <1>1, RoutesTrace
<1>3. (\A k \in 0..n : r[k] \in Seq(Item)) /\ Routes(list, any) = r[n]
    BY <1>2 DEF RoutesSteps
<1>4. \A k \in 1..n : Begins(r[k - 1], r[k])
  <2>1. \A k \in 1..n : Grown(r, list, any, k)
    BY <1>1, <1>2, RoutesGrow
  <2> QED
    BY <2>1 DEF Grown
<1>5. p \in 0..n /\ q \in 0..n /\ q - 1 \in p..n /\ n \in p..n /\ n \in q..n /\ n \in 0..n
    BY <1>1
<1>6. Begins(r[p], r[n]) /\ Begins(r[p], r[q - 1])
  <2>1. \A k \in p..n : Begins(r[p], r[k])
    BY <1>1, <1>3, <1>4, <1>5, Grows
  <2> QED
    BY <1>5, <2>1
<1>7. Begins(r[q], r[n])
  <2>1. \A k \in q..n : Begins(r[q], r[k])
    BY <1>1, <1>3, <1>4, <1>5, Grows
  <2> QED
    BY <1>5, <2>1
<1>8. Len(r[p]) \in Nat /\ Len(r[p - 1]) \in Nat /\ Len(r[p]) = Len(r[p - 1]) + 1 /\ r[p][Len(r[p])] = list[p]
  <2>1. Grown(r, list, any, p)
    BY <1>1, <1>2, RoutesGrow
  <2> QED
    BY <2>1 DEF Grown
<1>9. /\ Len(r[q]) \in Nat /\ Len(r[q - 1]) \in Nat
      /\ Len(r[q]) = Len(r[q - 1]) + 1 /\ r[q][Len(r[q])] = list[q]
  <2>1. Grown(r, list, any, q)
    BY <1>1, <1>2, RoutesGrow
  <2> QED
    BY <2>1 DEF Grown
<1>10. DOMAIN r[n] = 1..Len(r[n]) /\ Len(r[n]) \in Nat
  <2>1. r[n] \in Seq(Item)
    BY <1>3, <1>5
  <2> QED
    BY <2>1
<1> DEFINE i == Len(r[p])
           j == Len(r[q])
           a == Len(r[p - 1])
           b == Len(r[q - 1])
           l == Len(r[n])
<1>11. i \in Nat /\ j \in Nat /\ a \in Nat /\ b \in Nat /\ l \in Nat /\ i = a + 1 /\ j = b + 1
    BY <1>8, <1>9, <1>10
<1>12. i <= l /\ j <= l /\ i <= b
    BY <1>6, <1>7 DEF Begins
<1>13. \A k \in 1..i : r[n][k] = r[p][k]
    BY <1>6 DEF Begins
<1>14. \A k \in 1..j : r[n][k] = r[q][k]
    BY <1>7 DEF Begins
<1>15. r[p][i] = list[p] /\ r[q][j] = list[q] /\ DOMAIN r[n] = 1..l
    BY <1>8, <1>9, <1>10
<1> HIDE DEF i, j, a, b, l
<1>16. i < j /\ i \in 1..i /\ j \in 1..j /\ i \in 1..l /\ j \in 1..l
    BY <1>11, <1>12
<1>17. i < j /\ i \in DOMAIN r[n] /\ j \in DOMAIN r[n] /\ r[n][i] = list[p] /\ r[n][j] = list[q]
    BY <1>13, <1>14, <1>15, <1>16
<1> QED
    BY <1>3, <1>17 DEF Before

RuleAt(list, g) == list[g[1]].items[g[2]]

\* A rule of a file is in the list of all, at its place.
LEMMA Listed ==
    ASSUME NEW n \in Nat, NEW list \in [1..n -> RuleSet], NEW at, Offsets(at, n, list),
           NEW g \in Given(n, list)
    PROVE  /\ Place(at, g) \in 1..at[n] /\ DOMAIN Concat(list) = 1..at[n] /\ at[n] \in Nat
           /\ Concat(list)[Place(at, g)] = RuleAt(list, g)
           /\ RuleAt(list, g) \in Item /\ Concat(list) \in Seq(Item)
<1>1. /\ Place(at, g) \in 1..at[n] /\ at[n] \in Nat
      /\ Concat(list)[Place(at, g)] = list[g[1]].items[g[2]]
    BY PlacesRise
<1>2. Concat(list) \in Seq(Item) /\ Len(Concat(list)) = at[n]
    BY ConcatTyped DEF Offsets
<1>3. DOMAIN Concat(list) = 1..at[n]
    BY <1>2
<1>4. list[g[1]].items[g[2]] \in Item
    BY GivenAre
<1> QED
    BY <1>1, <1>2, <1>3, <1>4 DEF RuleAt

Later(g, h) == h[1] > g[1] \/ (h[1] = g[1] /\ h[2] > g[2])

\* Templates: each name once, and with the rule given last.
LEMMA TemplatesKept ==
    ASSUME NEW n \in Nat, NEW list \in [1..n -> RuleSet], NEW g \in Given(n, list)
    PROVE  /\ Cardinality(Positions(LoadTemplates(list).items, RuleAt(list, g).key)) = 1
           /\ (\A h \in Given(n, list) : Later(g, h) => RuleAt(list, h).key # RuleAt(list, g).key)
              => RuleAt(list, g) \in ToSet(LoadTemplates(list).items)
<1> DEFINE c == Concat(list)
           v == Overwritten(<<>>, c)
           x == RuleAt(list, g)
<1>1. LoadTemplates(list).items = v
    BY DEF LoadTemplates, Rules
<1>2. PICK at : Offsets(at, n, list)
    BY ConcatHolds
<1> DEFINE p == Place(at, g)
<1>3. p \in 1..at[n] /\ DOMAIN c = 1..at[n] /\ at[n] \in Nat /\ c[p] = x /\ x \in Item /\ c \in Seq(Item)
    BY <1>2, Listed
<1>4. UniqueKeys(v) /\ \A i \in DOMAIN c : HasKey(v, c[i].key)
    BY <1>3, OverwrittenKeys
<1>5. Cardinality(Positions(v, x.key)) = 1
  <2> HIDE DEF c, v, x, p
  <2>1. PICK i \in DOMAIN v : v[i].key = x.key
    BY <1>3, <1>4 DEF HasKey
  <2>2. Positions(v, x.key) = {i}
    BY <1>4, <2>1 DEF Positions, UniqueKeys
  <2> QED
    BY <2>2, FS_Singleton
<1>6. ASSUME \A h \in Given(n, list) : Later(g, h) => RuleAt(list, h).key # x.key
      PROVE  x \in ToSet(v)
  <2>1. ASSUME NEW j \in 1..at[n], c[j].key = x.key PROVE j <= p
    <3>1. PICK h \in Given(n, list) : Place(at, h) = j
      BY <1>2, PlacesFill
    <3>2. c[j] = RuleAt(list, h)
      BY <1>2, <3>1, Listed
    <3>3. ~Later(g, h)
      BY <1>6, <2>1, <3>2
    <3>4. Later(h, g) => Place(at, h) < p
      BY <1>2, PlacesRise DEF Later
    <3>5. h = g \/ Later(h, g)
      <4>1. g = <<g[1], g[2]>> /\ g[1] \in Nat /\ g[2] \in Nat
        <5>1. g = <<g[1], g[2]>> /\ g[1] \in 1..n /\ g[2] \in 1..Len(list[g[1]].items)
          BY GivenAre
        <5> QED
          BY <5>1
      <4>2. h = <<h[1], h[2]>> /\ h[1] \in Nat /\ h[2] \in Nat
        <5>1. h = <<h[1], h[2]>> /\ h[1] \in 1..n /\ h[2] \in 1..Len(list[h[1]].items)
          BY GivenAre
        <5> QED
          BY <5>1
      <4> QED
        BY <3>3, <4>1, <4>2 DEF Later
    <3> HIDE DEF p, c, x
    <3> QED
      BY <1>3, <3>1, <3>4, <3>5 DEF p
  <2> HIDE DEF c, p
  <2>2. c[p] \in ToSet(Overwritten(<<>>, c))
    <3>1. p \in DOMAIN c /\ \A j \in DOMAIN c : c[j].key = c[p].key => j <= p
      BY <1>3, <2>1
    <3>2. <<>> \in Seq(Item) /\ c \in Seq(Item)
      BY <1>3
    <3> QED
      BY <3>1, <3>2, LastIsKept
  <2> QED
    BY <1>3, <2>2
<1> QED
    BY <1>1, <1>5, <1>6

\* A rule of a file of the subdirectory is in the list of those files.
LEMMA TailListed ==
    ASSUME NEW n \in Nat \ {0}, NEW list \in [1..n -> RuleSet], NEW g \in Given(n, list), g[1] # 1
    PROVE  /\ Concat(Tail(list)) \in Seq(Item)
           /\ \E p \in DOMAIN Concat(Tail(list)) : Concat(Tail(list))[p] = RuleAt(list, g)
<1> DEFINE m == n - 1
           t == Tail(list)
           h == <<g[1] - 1, g[2]>>
<1>1. m \in Nat /\ t \in [1..m -> RuleSet] /\ \A i \in 1..m : t[i] = list[i + 1]
    BY TailTyped
<1>2. g[1] \in 1..n /\ g[2] \in DOMAIN list[g[1]].items
    BY GivenAre
<1>3. g[1] - 1 \in 1..m /\ t[g[1] - 1] = list[g[1]]
  <2> HIDE DEF t
  <2> QED
    BY <1>1, <1>2
<1> HIDE DEF m, t
<1>4. h \in Given(m, t) /\ RuleAt(t, h) = RuleAt(list, g)
    BY <1>2, <1>3 DEF Given, RuleAt
<1> HIDE DEF h
<1>5. PICK at : Offsets(at, m, t)
    BY <1>1, ConcatHolds
<1>6. Place(at, h) \in DOMAIN Concat(t) /\ Concat(t)[Place(at, h)] = RuleAt(t, h) /\ Concat(t) \in Seq(Item)
    BY SMTT(30), <1>1, <1>4, <1>5, Listed
<1> QED
    BY <1>4, <1>6 DEF t

\* ... and that list has nothing else.
LEMMA TailGiven ==
    ASSUME NEW n \in Nat \ {0}, NEW list \in [1..n -> RuleSet],
           NEW p \in DOMAIN Concat(Tail(list))
    PROVE  \E g \in Given(n, list) : g[1] # 1 /\ RuleAt(list, g) = Concat(Tail(list))[p]
<1> DEFINE m == n - 1
           t == Tail(list)
<1>1. m \in Nat /\ t \in [1..m -> RuleSet] /\ (\A i \in 1..m : t[i] = list[i + 1]) /\ n = m + 1
    BY TailTyped
<1>2. p \in DOMAIN Concat(t)
    OBVIOUS
<1> HIDE DEF m, t
<1>3. PICK at : Offsets(at, m, t)
    BY <1>1, ConcatHolds
<1>4. Len(Concat(t)) = at[m] /\ Concat(t) \in Seq(Item)
    BY <1>1, <1>3, ConcatTyped DEF Offsets
<1>5. p \in 1..at[m]
    BY <1>2, <1>4
<1>6. PICK h \in Given(m, t) : Place(at, h) = p
    BY <1>1, <1>3, <1>5, PlacesFill
<1>7. Concat(t)[p] = RuleAt(t, h)
    BY <1>1, <1>3, <1>6, Listed
<1>8. h[1] \in 1..m /\ h[2] \in DOMAIN t[h[1]].items
    BY <1>1, GivenAre
<1> DEFINE f == h[1] + 1
           g == <<f, h[2]>>
<1>9. f \in 1..n /\ f # 1 /\ t[h[1]] = list[f]
    BY <1>1, <1>8
<1> HIDE DEF f
<1>10. g \in Given(n, list) /\ RuleAt(list, g) = RuleAt(t, h) /\ g[1] # 1
    BY <1>8, <1>9 DEF Given, RuleAt
<1> QED
    BY <1>7, <1>10 DEF t

(* The given rules of a name, and the positions of the root's among them.  *)
Named(n, list, key) == {h \in Given(n, list) : RuleAt(list, h).key = key}
OwnOf(n, list, key) == {g[2] : g \in {h \in Given(n, list) : h[1] = 1 /\ RuleAt(list, h).key = key}}

(* v has the categories of the files, as the name key sees it.             *)
Reputed(v, n, list, key) ==
    /\ OwnOf(n, list, key) # {} => Positions(v, key) = OwnOf(n, list, key)
    /\ OwnOf(n, list, key) = {} /\ Named(n, list, key) # {} => Cardinality(Positions(v, key)) = 1
    /\ Named(n, list, key) = {} => Positions(v, key) = {}
    /\ RangesOf(v, key)
          = (UNION {ToSet(RuleAt(list, g).cidrs) : g \in Named(n, list, key)}) \ {0}

\* Categories: a name of the root stays where it is, another is there once, and each has the
\* ranges given for it.
LEMMA ReputationKept ==
    ASSUME NEW n \in Nat \ {0}, NEW list \in [1..n -> RuleSet], NEW root, root = list[1], NEW key
    PROVE  Reputed(LoadIPReputation(root, list).items, n, list, key)
<1> DEFINE c == MergedInto(root.items, Concat(Tail(list)))
           v == [i \in DOMAIN c |-> [c[i] EXCEPT !.cidrs = Parsed(@)]]
           t == Concat(Tail(list))
           o == root.items
           own == OwnOf(n, list, key)
           named == Named(n, list, key)
<1>1. LoadIPReputation(root, list).items = v
    BY DEF LoadIPReputation, Rules
<1>2. o \in Seq(Item) /\ t \in Seq(Item)
  <2>1. root \in RuleSet
    OBVIOUS
  <2>2. t \in Seq(Item)
    BY TailTyped, ConcatTyped
  <2> QED
    BY <2>1, <2>2 DEF RuleSet
<1>3. c \in Seq(Item)
    BY <1>2, ItemFoldsTyped
<1>4. /\ Positions(o, key) # {} => Positions(c, key) = Positions(o, key)
      /\ Positions(o, key) = {} =>
            IF Positions(t, key) = {} THEN Positions(c, key) = {}
            ELSE \E p : Positions(c, key) = {p}
      /\ RangesOf(c, key) = RangesOf(o, key) \cup RangesOf(t, key)
  <2>1. AddsAll(c, o, t, key)
    <3> HIDE DEF o, t
    <3> QED
      BY <1>2, MergedIntoKeeps DEF t, o
  <2> HIDE DEF c, o, t
  <2> QED
    BY <2>1 DEF AddsAll
<1>5. ASSUME NEW i \in DOMAIN c
      PROVE  /\ i \in DOMAIN v /\ v[i].key = c[i].key
             /\ ToSet(v[i].cidrs) = ToSet(c[i].cidrs) \ {0}
  <2>1. c[i] \in Item
    BY <1>3
  <2>2. i \in DOMAIN v /\ v[i].key = c[i].key /\ v[i].cidrs = Parsed(c[i].cidrs)
        /\ c[i].cidrs \in Seq(Nat)
    BY <2>1 DEF Item
  <2> HIDE DEF v, c
  <2> QED
    BY <2>2, ParsedKeeps
<1>6. DOMAIN v = DOMAIN c
    OBVIOUS
<1>t. \A g \in Given(n, list) : g[1] # 1 => \E p \in DOMAIN t : t[p] = RuleAt(list, g)
    BY TailListed
<1>g. \A p \in DOMAIN t : \E g \in Given(n, list) : g[1] # 1 /\ RuleAt(list, g) = t[p]
    BY TailGiven
<1>o. /\ \A g \in Given(n, list) : g[1] = 1 => g[2] \in DOMAIN o /\ o[g[2]] = RuleAt(list, g)
      /\ \A p \in DOMAIN o : <<1, p>> \in Given(n, list) /\ RuleAt(list, <<1, p>>) = o[p]
    BY 1 \in 1..n, GivenAre DEF RuleAt
<1> HIDE DEF v, c, t, o
<1>7. Positions(v, key) = Positions(c, key)
    BY <1>5, <1>6 DEF Positions
<1>8. RangesOf(v, key) = RangesOf(c, key) \ {0}
  <2>1. \A i \in Positions(c, key) : ToSet(v[i].cidrs) = ToSet(c[i].cidrs) \ {0}
    BY <1>5 DEF Positions
  <2>2. ASSUME NEW x
        PROVE  x \in RangesOf(v, key) <=> x \in RangesOf(c, key) /\ x # 0
    BY <1>7, <2>1 DEF RangesOf
  <2> QED
    BY <2>2
<1>9. own = Positions(o, key)
  <2>1. \A p \in own : p \in Positions(o, key)
    BY <1>o DEF OwnOf, Positions
  <2>2. ASSUME NEW p \in Positions(o, key) PROVE p \in own
    <3>1. <<1, p>> \in {h \in Given(n, list) : h[1] = 1 /\ RuleAt(list, h).key = key}
      BY <1>o DEF Positions
    <3> QED
      BY <3>1 DEF OwnOf
  <2> QED
    BY <2>1, <2>2
<1>10. named = {} <=> own = {} /\ Positions(t, key) = {}
  <2>1. ASSUME NEW g \in named PROVE own # {} \/ Positions(t, key) # {}
    <3>1. g \in Given(n, list) /\ RuleAt(list, g).key = key
      BY DEF Named
    <3>2. CASE g[1] = 1
      BY <1>o, <1>9, <3>1, <3>2 DEF Positions
    <3>3. CASE g[1] # 1
      BY <1>t, <3>1, <3>3 DEF Positions
    <3> QED
      BY <3>2, <3>3
  <2>2. ASSUME NEW p \in Positions(t, key) PROVE named # {}
    <3>1. p \in DOMAIN t /\ t[p].key = key
      BY DEF Positions
    <3> QED
      BY <1>g, <3>1 DEF Named
  <2>3. ASSUME NEW p \in own PROVE named # {}
    BY DEF Named, OwnOf
  <2> QED
    BY <2>1, <2>2, <2>3
<1>11. RangesOf(o, key) \cup RangesOf(t, key) = UNION {ToSet(RuleAt(list, g).cidrs) : g \in named}
  <2>1. ASSUME NEW x \in RangesOf(o, key)
        PROVE  \E g \in named : x \in ToSet(RuleAt(list, g).cidrs)
    <3>1. PICK p \in DOMAIN o : o[p].key = key /\ x \in ToSet(o[p].cidrs)
      BY DEF RangesOf, Positions
    <3> QED
      BY <1>o, <3>1 DEF Named
  <2>2. ASSUME NEW x \in RangesOf(t, key)
        PROVE  \E g \in named : x \in ToSet(RuleAt(list, g).cidrs)
    <3>1. PICK p \in DOMAIN t : t[p].key = key /\ x \in ToSet(t[p].cidrs)
      BY DEF RangesOf, Positions
    <3> QED
      BY <1>g, <3>1 DEF Named
  <2>3. ASSUME NEW g \in named, NEW x \in ToSet(RuleAt(list, g).cidrs)
        PROVE  x \in RangesOf(o, key) \/ x \in RangesOf(t, key)
    <3>1. g \in Given(n, list) /\ RuleAt(list, g).key = key
      BY DEF Named
    <3>2. CASE g[1] = 1
      BY <1>o, <3>1, <3>2 DEF RangesOf, Positions
    <3>3. CASE g[1] # 1
      <4>1. PICK p \in DOMAIN t : t[p] = RuleAt(list, g)
        BY <1>t, <3>1, <3>3
      <4> QED
        BY <3>1, <4>1 DEF RangesOf, Positions
    <3> QED
      BY <3>2, <3>3
  <2> QED
    BY <2>1, <2>2, <2>3
<1>12. own = {} /\ named # {} => Cardinality(Positions(v, key)) = 1
    BY <1>4, <1>7, <1>9, <1>10, FS_Singleton
<1>13. /\ own # {} => Positions(v, key) = own
       /\ named = {} => Positions(v, key) = {}
    BY <1>4, <1>7, <1>9, <1>10
<1> HIDE DEF own, named
<1>14. RangesOf(v, key) = (UNION {ToSet(RuleAt(list, g).cidrs) : g \in named}) \ {0}
    BY <1>4, <1>8, <1>11
<1> QED
    BY <1>1, <1>12, <1>13, <1>14 DEF own, named, Reputed

\* The list of all files is the root's and then that of the others.
LEMMA TailCounts ==
    ASSUME NEW n \in Nat \ {0}, NEW list \in [1..n -> RuleSet]
    PROVE  /\ Len(list[1].items) \in Nat /\ Len(Concat(Tail(list))) \in Nat
           /\ Len(Concat(list)) = Len(list[1].items) + Len(Concat(Tail(list)))
<1> DEFINE m == n - 1
           t == Tail(list)
           l == Len(list[1].items)
<1>1. m \in Nat /\ t \in [1..m -> RuleSet] /\ (\A i \in 1..m : t[i] = list[i + 1])
    BY TailTyped
<1>2. n = m + 1
    OBVIOUS
<1>3. l \in Nat
  <2>1. list[1] \in RuleSet
    OBVIOUS
  <2>2. list[1].items \in Seq(Item)
    BY <2>1 DEF RuleSet
  <2> QED
    BY <2>2
<1> HIDE DEF m, t
<1>4. PICK at : Offsets(at, n, list)
    BY ConcatHolds
<1>5. PICK bt : Offsets(bt, m, t)
    BY <1>1, ConcatHolds
<1>6. at[1] = l
  <2>1. 1 \in 1..n
    BY <1>1, <1>2
  <2>2. at[1] = at[1 - 1] + Len(list[1].items) /\ at[0] = 0
    BY <1>4, <2>1 DEF Offsets
  <2> QED
    BY <1>3, <2>2
<1> HIDE DEF l
<1> DEFINE G == {k \in Nat : k <= m => at[k + 1] = l + bt[k]}
<1>7. 0 \in G
  <2>1. bt[0] = 0
    BY <1>5 DEF Offsets
  <2> QED
    BY <1>3, <1>6, <2>1
<1>8. ASSUME NEW k \in G PROVE k + 1 \in G
  <2>1. k \in Nat /\ (k <= m => at[k + 1] = l + bt[k])
    BY <1>8
  <2> DEFINE i == k + 1
             j == i + 1
  <2>2. i \in Nat /\ j \in Nat /\ i - 1 = k /\ j - 1 = i
    BY <2>1
  <2>3. ASSUME i <= m PROVE at[j] = l + bt[i]
    <3>1. i \in 1..m /\ j \in 1..n /\ k <= m /\ k \in 0..m /\ i \in 0..m /\ i \in 0..n /\ j \in 0..n
      BY <1>1, <1>2, <2>1, <2>3
    <3>2. t[i] = list[j]
      BY <1>1, <3>1
    <3>3. at[i] = l + bt[k]
      BY <2>1, <3>1
    <3> HIDE DEF i, j
    <3>4. at[j] = at[i] + Len(list[j].items) /\ bt[i] = bt[k] + Len(list[j].items)
      <4>1. at[j] = at[j - 1] + Len(list[j].items)
        BY <1>4, <3>1 DEF Offsets
      <4>2. bt[i] = bt[i - 1] + Len(t[i].items)
        BY <1>5, <3>1 DEF Offsets
      <4> QED
        BY <2>2, <3>2, <4>1, <4>2
    <3> DEFINE a == at[i]
               b == bt[k]
               c == Len(list[j].items)
    <3>5. a \in Nat /\ b \in Nat /\ c \in Nat
      <4>1. list[j].items \in Seq(Item)
        BY <3>1 DEF RuleSet
      <4>2. c \in Nat
        BY <4>1
      <4> QED
        BY <1>4, <1>5, <3>1, <4>2 DEF Offsets
    <3>6. a = l + b /\ at[j] = a + c /\ bt[i] = b + c
      BY <3>3, <3>4
    <3> HIDE DEF a, b, c
    <3> QED
      BY <1>3, <3>5, <3>6
  <2> HIDE DEF j
  <2>4. i \in G
    BY <2>2, <2>3 DEF j
  <2> QED
    BY <2>4
<1>9. G \in SUBSET Nat
    OBVIOUS
<1> HIDE DEF G
<1>10. m \in G
    BY <1>1, <1>7, <1>8, <1>9, Induct
<1>11. at[n] = l + bt[m]
    BY <1>1, <1>2, <1>10 DEF G
<1>12. Len(Concat(list)) = at[n] /\ Len(Concat(t)) = bt[m] /\ bt[m] \in Nat
  <2>1. m \in 0..m
    BY <1>1
  <2> QED
    BY <1>4, <1>5, <2>1 DEF Offsets
<1>13. l \in Nat /\ Len(Concat(t)) \in Nat /\ Len(Concat(list)) = l + Len(Concat(t))
    BY <1>3, <1>11, <1>12
<1> QED
    BY <1>13 DEF l, t

\* What stands in order in a list does so in one that contains it.
LEMMA BeforeInBoth ==
    ASSUME NEW a \in Seq(Item), NEW b \in Seq(Item), NEW x, NEW y
    PROVE  /\ Before(a, x, y) => Before(a \o b, x, y)
           /\ Before(b, x, y) => Before(a \o b, x, y)
<1>1. /\ Len(a) \in Nat /\ Len(b) \in Nat /\ DOMAIN a = 1..Len(a) /\ DOMAIN b = 1..Len(b)
      /\ DOMAIN (a \o b) = 1..(Len(a) + Len(b))
      /\ \A i \in 1..Len(a) : (a \o b)[i] = a[i]
      /\ \A i \in 1..Len(b) : (a \o b)[Len(a) + i] = b[i]
    BY ConcatKeeps
<1> DEFINE s == a \o b
           l == Len(a)
           m == Len(b)
<1>2. /\ l \in Nat /\ m \in Nat /\ DOMAIN a = 1..l /\ DOMAIN b = 1..m /\ DOMAIN s = 1..(l + m)
      /\ (\A i \in 1..l : s[i] = a[i]) /\ (\A i \in 1..m : s[l + i] = b[i])
    BY <1>1
<1> HIDE DEF s, l, m
<1>3. ASSUME Before(a, x, y) PROVE Before(s, x, y)
  <2>1. PICK i, j \in DOMAIN a : i < j /\ a[i] = x /\ a[j] = y
    BY <1>3 DEF Before
  <2>2. i \in DOMAIN s /\ j \in DOMAIN s /\ s[i] = x /\ s[j] = y
    BY <1>2, <2>1
  <2> QED
    BY <2>1, <2>2 DEF Before
<1>4. ASSUME Before(b, x, y) PROVE Before(s, x, y)
  <2>1. PICK i, j \in DOMAIN b : i < j /\ b[i] = x /\ b[j] = y
    BY <1>4 DEF Before
  <2>2. l + i \in DOMAIN s /\ l + j \in DOMAIN s /\ s[l + i] = x /\ s[l + j] = y /\ l + i < l + j
    BY <1>2, <2>1
  <2> QED
    BY <2>2 DEF Before
<1> QED
    BY <1>3, <1>4 DEF s

\* Routes: all are kept, and a community route stands before the root's of its kind.
LEMMA StrategyKept ==
    ASSUME NEW n \in Nat \ {0}, NEW list \in [1..n -> RuleSet], NEW root, root = list[1]
    PROVE  /\ Len(LoadInjectionStrategy(root, list).items) = Cardinality(Given(n, list))
           /\ \A g, h \in Given(n, list) :
                 RuleAt(list, g).any = RuleAt(list, h).any /\ g[1] # 1 /\ h[1] = 1
                 => Before(LoadInjectionStrategy(root, list).items, RuleAt(list, g), RuleAt(list, h))
<1> DEFINE t == Concat(Tail(list))
           c == t \o root.items
           f == Routes(c, FALSE)
           a == Routes(c, TRUE)
           v == f \o a
<1>1. LoadInjectionStrategy(root, list).items = v
    BY DEF LoadInjectionStrategy, CommunityFirst, moveCatchAllRoutesLast, Rules
<1>2. root.items \in Seq(Item) /\ t \in Seq(Item)
  <2>1. root \in RuleSet
    OBVIOUS
  <2>2. t \in Seq(Item)
    BY TailTyped, ConcatTyped
  <2> QED
    BY <2>1, <2>2 DEF RuleSet
<1>3. c \in Seq(Item)
    BY <1>2
<1>4. f \in Seq(Item) /\ a \in Seq(Item)
    BY <1>3, ItemFoldsTyped
<1>5. /\ Len(c) = Len(t) + Len(root.items) /\ Len(t) \in Nat
      /\ DOMAIN t = 1..Len(t) /\ DOMAIN root.items = 1..Len(root.items)
      /\ (\A i \in 1..Len(t) : c[i] = t[i])
      /\ \A i \in 1..Len(root.items) : c[Len(t) + i] = root.items[i]
      /\ DOMAIN c = 1..(Len(t) + Len(root.items)) /\ Len(root.items) \in Nat
  <2> HIDE DEF t
  <2> QED
    BY <1>2, ConcatKeeps
<1>6. Len(v) = Cardinality(Given(n, list))
  <2>1. Len(v) = Len(f) + Len(a)
    BY <1>4, ConcatKeeps
  <2>2. Len(f) + Len(a) = Len(c)
    BY <1>3, RoutesCount
  <2>3. Len(Concat(list)) = Len(root.items) + Len(t)
    BY TailCounts
  <2>4. Len(Concat(list)) = Cardinality(Given(n, list))
    BY ConcatCounts
  <2> HIDE DEF v, f, a, c, t
  <2> QED
    BY SMTT(30), <1>5, <2>1, <2>2, <2>3, <2>4
<1>7. ASSUME NEW g \in Given(n, list), NEW h \in Given(n, list),
             RuleAt(list, g).any = RuleAt(list, h).any, g[1] # 1, h[1] = 1
      PROVE  Before(v, RuleAt(list, g), RuleAt(list, h))
  <2> DEFINE x == RuleAt(list, g)
             y == RuleAt(list, h)
             any == x.any
  <2>1. PICK p \in DOMAIN t : t[p] = x
    BY <1>7, TailListed
  <2>2. h[2] \in DOMAIN root.items /\ y = root.items[h[2]]
    BY <1>7, GivenAre DEF RuleAt
  <2>3. any \in BOOLEAN /\ y.any = any
    <3>1. x \in Item
      BY GivenAre DEF RuleAt
    <3> QED
      BY <1>7, <3>1 DEF Item
  <2> DEFINE q == Len(t) + h[2]
             l == Len(t)
             m == Len(root.items)
             i == h[2]
  <2> HIDE DEF x, y, any, c, t
  <2>4. l \in Nat /\ m \in Nat /\ i \in 1..m /\ p \in 1..l /\ DOMAIN c = 1..(l + m)
    BY <1>5, <2>1, <2>2
  <2>5. q = l + i
    OBVIOUS
  <2>6. c[p] = x /\ c[q] = y
    BY <1>5, <2>1, <2>2, <2>4
  <2> HIDE DEF q, l, m, i
  <2>7. p \in DOMAIN c /\ q \in DOMAIN c /\ p < q
    BY <2>4, <2>5
  <2>8. c[p].any = any /\ c[q].any = any
    BY <2>3, <2>6 DEF any
  <2>9. Before(Routes(c, any), x, y)
    BY <1>3, <2>3, <2>6, <2>7, <2>8, RoutesInOrder
  <2>10. any = FALSE \/ any = TRUE
    BY <2>3
  <2>11. Before(f, x, y) \/ Before(a, x, y)
    BY <2>9, <2>10
  <2> HIDE DEF f, a
  <2>12. Before(v, x, y)
    BY <1>4, <2>11, BeforeInBoth
  <2> QED
    BY <2>12 DEF x, y
<1> QED
    BY <1>1, <1>6, <1>7

\* The rules the files on disk give, as a load sees them.
LEMMA GivenOnDisk ==
    ASSUME Typed, Load(kind, Disk) # Failed, kind \notin RootOnly
    PROVE  LET n == Cardinality(Files)
               list == FilesOf(disk)
               given == UNION {{f} \X DOMAIN disk[f].items :
                                  f \in {g \in Files : disk[g] \notin {Absent, Broken}}}
           IN /\ n \in Nat \ {0} /\ list \in [1..n -> RuleSet] /\ RootOf(disk) = list[1]
              /\ given = Given(n, list)
              /\ \A g \in given : RuleAt(list, g) = disk[g[1]].items[g[2]]
<1> DEFINE n == Cardinality(Files)
           list == FilesOf(disk)
           given == UNION {{f} \X DOMAIN disk[f].items :
                              f \in {g \in Files : disk[g] \notin {Absent, Broken}}}
<1>1. Disk = disk /\ kind \in Kinds /\ disk \in [Files -> File]
    BY DiskIs DEF Typed
<1>2. ~Fails(kind, disk)
    BY <1>1, RuleReloadAssumption, LoadTyped DEF Fails, Load
<1>3. n \in Nat \ {0} /\ Files = 1..n /\ 1 \in Files
    BY FilesAre
<1>4. list \in [1..n -> RuleSet]
    BY <1>1, <1>2, FilesTyped
<1> HIDE DEF n
<1>5. \A f \in Files : list[f] = IF disk[f] = Absent THEN Empty ELSE disk[f]
    BY <1>1 DEF FilesOf
<1>6. RootOf(disk) = list[1]
    BY <1>3, <1>5 DEF RootOf
<1>7. \A f \in Files : disk[f] # Broken
    BY <1>1, <1>2 DEF Fails, ToSet
<1> HIDE DEF list
<1>8. given = Given(n, list)
  <2>1. \A f \in Files : disk[f] = Absent => DOMAIN list[f].items = {}
    BY <1>5 DEF Empty
  <2>2. \A f \in Files : disk[f] # Absent => disk[f] \notin {Absent, Broken} /\ list[f] = disk[f]
    BY <1>5, <1>7
  <2>3. ASSUME NEW g \in given PROVE g \in Given(n, list)
    <3>1. PICK f \in Files : disk[f] \notin {Absent, Broken} /\ g \in {f} \X DOMAIN disk[f].items
      OBVIOUS
    <3>2. g \in {f} \X DOMAIN list[f].items
      BY <2>2, <3>1
    <3> QED
      BY <1>3, <3>2 DEF Given
  <2>4. ASSUME NEW g \in Given(n, list) PROVE g \in given
    <3>1. PICK f \in Files : g \in {f} \X DOMAIN list[f].items
      BY <1>3 DEF Given
    <3>2. disk[f] # Absent
      BY <2>1, <3>1
    <3>3. g \in {f} \X DOMAIN disk[f].items /\ disk[f] \notin {Absent, Broken}
      BY <2>2, <3>1, <3>2
    <3> QED
      BY <3>3
  <2> QED
    BY <2>3, <2>4
<1>9. ASSUME NEW g \in given PROVE RuleAt(list, g) = disk[g[1]].items[g[2]]
  <2>1. PICK f \in Files : disk[f] \notin {Absent, Broken} /\ g \in {f} \X DOMAIN disk[f].items
    OBVIOUS
  <2>2. g[1] = f /\ list[f] = disk[f]
    BY <1>5, <2>1
  <2> QED
    BY <2>2 DEF RuleAt
<1> QED
    BY <1>3, <1>4, <1>6, <1>8, <1>9 DEF n, list

\* The lists of the other rule sets have the rules of all files.
LEMMA ListsKept ==
    ASSUME NEW k \in Kinds, k \notin RootOnly,
           k \notin {"templates", "ip_reputation", "injection_strategy"},
           NEW seen, Load(k, seen) # Failed
    PROVE  Load(k, seen).items = Concat(FilesOf(seen))
<1> DEFINE root == RootOf(seen)
           files == FilesOf(seen)
<1>1. k \in {"detector", "tls_fingerprints", "payloads", "fake_data", "vulnerabilities",
             "route-manifest", "learned"}
    BY RuleReloadAssumption DEF RuleReloadAssumption, RootOnly, Required
<1>2. Load(k, seen) =
          CASE k = "detector" -> LoadDetector(root, files)
              [] k = "tls_fingerprints" -> LoadTLS(files)
              [] k = "payloads" -> LoadPayloads(files)
              [] k = "fake_data" -> LoadFakeData(files)
              [] k = "vulnerabilities" -> LoadVulnerabilities(files)
              [] k = "route-manifest" -> LoadRouteManifest(files)
              [] k = "learned" -> LoadLearned(files)
    BY <1>1 DEF Load, RootOf, FilesOf
<1> HIDE DEF root, files
<1>3. Load(k, seen).items = Concat(files)
    BY <1>1, <1>2 DEF LoadDetector, LoadTLS, LoadPayloads, LoadFakeData, LoadVulnerabilities,
                      LoadRouteManifest, LoadLearned, Rules
<1> QED
    BY <1>3 DEF files

\* Merging loses nothing the files say (extra_loaders.go, ip_reputation.go, loaders.go).
THEOREM MergesKeepRules == Spec => []MergeKeepsRules
<1>1. IInv => MergeKeepsRules
  <2> DEFINE value == Load(kind, Disk)
             given == UNION {{f} \X DOMAIN disk[f].items :
                               f \in {g \in Files : disk[g] \notin {Absent, Broken}}}
             item(g) == disk[g[1]].items[g[2]]
             keys == {item(g).key : g \in given}
             n == Cardinality(Files)
             list == FilesOf(disk)
             root == RootOf(disk)
  <2> SUFFICES ASSUME IInv, value # Failed, kind \notin RootOnly
               PROVE  CASE kind = "templates" ->
                 /\ \A g \in given : Cardinality(Positions(value.items, item(g).key)) = 1
                 /\ \A g \in given :
                       (\A h \in given : Later(g, h) => item(h).key # item(g).key)
                       => item(g) \in ToSet(value.items)
           [] kind = "ip_reputation" ->
                 /\ \A j \in DOMAIN value.items : value.items[j].key \in keys
                 /\ \A k \in keys :
                       LET own == {g[2] : g \in {h \in given : h[1] = 1 /\ item(h).key = k}}
                           at == Positions(value.items, k)
                       IN /\ IF own = {} THEN Cardinality(at) = 1 ELSE at = own
                          /\ UNION {ToSet(value.items[j].cidrs) : j \in at}
                                = (UNION {ToSet(item(g).cidrs) :
                                             g \in {h \in given : item(h).key = k}}) \ {0}
           [] kind = "injection_strategy" ->
                 /\ Len(value.items) = Cardinality(given)
                 /\ \A g, h \in given :
                       item(g).any = item(h).any /\ g[1] # 1 /\ h[1] = 1
                       => Before(value.items, item(g), item(h))
           [] OTHER -> Len(value.items) = Cardinality(given)
    BY DEF MergeKeepsRules, Later, Before
  <2>1. Typed /\ Disk = disk /\ kind \in Kinds
    BY DiskIs DEF IInv, Typed
  <2>2. /\ n \in Nat \ {0} /\ list \in [1..n -> RuleSet] /\ root = list[1]
        /\ given = Given(n, list)
        /\ \A g \in given : RuleAt(list, g) = item(g)
    BY <2>1, GivenOnDisk
  <2>3. CASE kind = "templates"
    <3>1. value = LoadTemplates(list)
      BY <2>1, <2>3 DEF Load, FilesOf
    <3> HIDE DEF value, given, item, keys, n, list, root
    <3>2. ASSUME NEW g \in given
          PROVE  /\ Cardinality(Positions(value.items, item(g).key)) = 1
                 /\ (\A h \in given : Later(g, h) => item(h).key # item(g).key)
                    => item(g) \in ToSet(value.items)
      <4>1. item(g) = RuleAt(list, g) /\ \A h \in given : item(h) = RuleAt(list, h)
        BY <2>2
      <4>2. g \in Given(n, list)
        BY <2>2
      <4> QED
        BY <2>2, <3>1, <4>1, <4>2, TemplatesKept
    <3> QED
      BY <2>3, <3>2
  <2>4. CASE kind = "ip_reputation"
    <3>1. value = LoadIPReputation(root, list)
      BY <2>1, <2>4 DEF Load, RootOf, FilesOf
    <3> HIDE DEF value, given, item, keys, n, list, root
    <3>2. ASSUME NEW k
          PROVE  /\ Named(n, list, k) = {h \in given : item(h).key = k}
                 /\ OwnOf(n, list, k) = {g[2] : g \in {h \in given : h[1] = 1 /\ item(h).key = k}}
                 /\ Named(n, list, k) # {} <=> k \in keys
                 /\ UNION {ToSet(RuleAt(list, g).cidrs) : g \in Named(n, list, k)}
                       = UNION {ToSet(item(g).cidrs) : g \in {h \in given : item(h).key = k}}
      <4>1. Named(n, list, k) = {h \in given : item(h).key = k}
        BY <2>2 DEF Named
      <4>2. {h \in given : h[1] = 1 /\ item(h).key = k}
               = {h \in Given(n, list) : h[1] = 1 /\ RuleAt(list, h).key = k}
        BY <2>2
      <4>3. Named(n, list, k) # {} <=> k \in keys
        BY <4>1 DEF keys
      <4>4. \A g \in Named(n, list, k) : RuleAt(list, g) = item(g)
        BY <2>2 DEF Named
      <4> QED
        BY <4>1, <4>2, <4>3, <4>4 DEF OwnOf
    <3>3. ASSUME NEW k
          PROVE  /\ OwnOf(n, list, k) # {} => Positions(value.items, k) = OwnOf(n, list, k)
                 /\ OwnOf(n, list, k) = {} /\ k \in keys => Cardinality(Positions(value.items, k)) = 1
                 /\ k \notin keys => Positions(value.items, k) = {}
                 /\ RangesOf(value.items, k)
                       = (UNION {ToSet(RuleAt(list, g).cidrs) : g \in Named(n, list, k)}) \ {0}
      <4>1. Reputed(value.items, n, list, k)
        BY <2>2, <3>1, ReputationKept
      <4>2. Named(n, list, k) # {} <=> k \in keys
        BY <3>2
      <4> QED
        BY <4>1, <4>2 DEF Reputed
    <3>4. ASSUME NEW j \in DOMAIN value.items PROVE value.items[j].key \in keys
      <4>1. j \in Positions(value.items, value.items[j].key)
        BY DEF Positions
      <4> QED
        BY <3>3, <4>1
    <3>5. ASSUME NEW k \in keys
          PROVE  LET own == {g[2] : g \in {h \in given : h[1] = 1 /\ item(h).key = k}}
                     at == Positions(value.items, k)
                 IN /\ IF own = {} THEN Cardinality(at) = 1 ELSE at = own
                    /\ UNION {ToSet(value.items[j].cidrs) : j \in at}
                          = (UNION {ToSet(item(g).cidrs) :
                                       g \in {h \in given : item(h).key = k}}) \ {0}
      <4>3. /\ OwnOf(n, list, k) = {g[2] : g \in {h \in given : h[1] = 1 /\ item(h).key = k}}
            /\ UNION {ToSet(RuleAt(list, g).cidrs) : g \in Named(n, list, k)}
                  = UNION {ToSet(item(g).cidrs) : g \in {h \in given : item(h).key = k}}
        BY <3>2
      <4>1. RangesOf(value.items, k)
               = (UNION {ToSet(item(g).cidrs) : g \in {h \in given : item(h).key = k}}) \ {0}
        BY <3>3, <4>3
      <4>2. RangesOf(value.items, k) = UNION {ToSet(value.items[j].cidrs) : j \in Positions(value.items, k)}
        BY DEF RangesOf
      <4> QED
        BY <3>3, <4>1, <4>2, <4>3
    <3> QED
      BY <2>4, <3>4, <3>5
  <2>5. CASE kind = "injection_strategy"
    <3>1. value = LoadInjectionStrategy(root, list)
      BY <2>1, <2>5 DEF Load, RootOf, FilesOf
    <3> HIDE DEF value, given, item, keys, n, list, root
    <3>2. Len(value.items) = Cardinality(given)
      BY <2>2, <3>1, StrategyKept
    <3>3. ASSUME NEW g \in given, NEW h \in given, item(g).any = item(h).any, g[1] # 1, h[1] = 1
          PROVE  Before(value.items, item(g), item(h))
      <4>1. item(g) = RuleAt(list, g) /\ item(h) = RuleAt(list, h)
        BY <2>2
      <4>2. g \in Given(n, list) /\ h \in Given(n, list)
        BY <2>2
      <4> QED
        BY <2>2, <3>1, <3>3, <4>1, <4>2, StrategyKept
    <3> QED
      BY <2>5, <3>2, <3>3
  <2>6. CASE kind \notin {"templates", "ip_reputation", "injection_strategy"}
    <3>1. value.items = Concat(list)
      BY <2>1, <2>6, ListsKept
    <3>2. Len(Concat(list)) = Cardinality(given)
      <4> HIDE DEF given, n, list
      <4> QED
        BY <2>2, ConcatCounts
    <3> HIDE DEF value, given, item, keys, n, list, root
    <3> QED
      BY <2>6, <3>1, <3>2
  <2> HIDE DEF value, given, item, keys, n, list, root
  <2> QED
    BY <2>3, <2>4, <2>5, <2>6
<1> QED
    BY <1>1, Invariance, PTL
=============================================================================
