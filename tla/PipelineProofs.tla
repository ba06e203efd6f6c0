--------------------------- MODULE PipelineProofs ----------------------------
(***************************************************************************)
(* Proofs about Pipeline: types, what a client's state remembers, and that *)
(* treatment follows the score and the credential.                         *)
(***************************************************************************)
EXTENDS Pipeline, SequenceTheorems, WellFoundedInduction, TLAPS

\* TypeOK in parts that steps leave alone one by one.  A worker inside
\* Tracker.Record has taken its timestamp, and one that looked up its client has a
\* state object.
RequestTypes == mode \in Modes /\ now \in 1..MaxTime /\ reqs \in 0..MaxRequests
TrackerTypes ==
    /\ clients \in [Clients -> 0..Len(heap)]
    /\ heap \in Seq(State)
    /\ history \in Seq(Seq(Event)) /\ Len(history) = Len(heap)
GCTypes == gc \in [pc : {"off", "ready", "scan", "delete"}, at : 0..MaxTime,
                   todo : SUBSET Clients, victim : SUBSET Clients]
Placed(j, n) ==
    /\ j.pc \in {"lookup", "record"} => j.ts \in 1..MaxTime
    /\ j.pc \in {"record", "assess"} => j.st \in 1..n
JobTypes == /\ job \in [Workers -> Jobs(Len(heap))]
            /\ \A w \in Workers : Placed(job[w], Len(heap))

TypeInv == RequestTypes /\ TrackerTypes /\ GCTypes /\ JobTypes

LEMMA TypeInvImpliesTypeOK == TypeInv => TypeOK
  BY DEF TypeInv, TypeOK, RequestTypes, TrackerTypes, GCTypes, JobTypes
-----------------------------------------------------------------------------
(* Workers *)

LEMMA JobsGrow ==
    ASSUME NEW m \in Nat, NEW n \in Nat, m <= n
    PROVE  Jobs(m) \subseteq Jobs(n)
  <1>1. 0..m \subseteq 0..n /\ 1..m \subseteq 1..n
    OBVIOUS
  <1>2. Working(m) \subseteq Working(n)
    BY <1>1 DEF Working
  <1>3. Annotating(m) \subseteq Annotating(n)
    BY <1>1 DEF Annotating
  <1>. QED
    BY <1>2, <1>3 DEF Jobs

\* Where a worker is tells the form of its record.
LEMMA Forms ==
    ASSUME TypeInv, NEW w \in Workers
    PROVE  /\ job[w].pc \in {"gate", "score", "lookup", "record", "assess",
                             "decide", "serve"} => job[w] \in Working(Len(heap))
           /\ job[w].pc = "answered" => job[w] \in Answered
           /\ job[w].pc = "annotate" => job[w] \in Annotating(Len(heap))
  <1>1. job[w] \in Jobs(Len(heap))
    BY DEF TypeInv, JobTypes
  <1>2. Idle.pc = "idle"
    BY DEF Idle
  <1>. QED
    BY <1>1, <1>2 DEF Jobs, Working, Answered, Annotating

\* A step that gives one worker a new record of the right type, while state objects
\* are only added.
LEMMA OneWorker ==
    ASSUME TypeInv, NEW w \in Workers, NEW x,
           job' = [job EXCEPT ![w] = x],
           Len(heap') \in Nat, Len(heap) \in Nat, Len(heap) <= Len(heap'),
           x \in Jobs(Len(heap')), Placed(x, Len(heap'))
    PROVE  JobTypes'
  <1>1. Jobs(Len(heap)) \subseteq Jobs(Len(heap'))
    BY JobsGrow
  <1>2. job' \in [Workers -> Jobs(Len(heap'))]
    BY <1>1 DEF TypeInv, JobTypes
  <1>3. ASSUME NEW v \in Workers
        PROVE  Placed(job'[v], Len(heap'))
    <2>1. CASE v = w
      BY <2>1 DEF TypeInv, JobTypes
    <2>2. CASE v # w
      <3>1. job'[v] = job[v] /\ Placed(job[v], Len(heap))
        BY <2>2 DEF TypeInv, JobTypes
      <3>. QED
        BY <3>1 DEF Placed
    <2>. QED
      BY <2>1, <2>2
  <1>. QED
    BY <1>2, <1>3 DEF JobTypes

\* The same when the tracker does not change and the worker is past Record or has
\* not begun it.
LEMMA OneWorkerOnly ==
    ASSUME TypeInv, NEW w \in Workers, NEW x,
           job' = [job EXCEPT ![w] = x], UNCHANGED <<requests, tracker, gc>>,
           x \in Jobs(Len(heap)), Placed(x, Len(heap))
    PROVE  TypeInv'
  <1>1. heap' = heap /\ clients' = clients /\ history' = history /\ gc' = gc
        /\ mode' = mode /\ now' = now /\ reqs' = reqs
    BY DEF requests, tracker
  <1>2. Len(heap) \in Nat
    BY LenProperties DEF TypeInv, TrackerTypes
  <1>3. JobTypes'
    <2>1. Len(heap') = Len(heap)
      BY <1>1
    <2>2. Len(heap') \in Nat /\ Len(heap) <= Len(heap')
      BY <1>2, <2>1
    <2>3. x \in Jobs(Len(heap')) /\ Placed(x, Len(heap'))
      BY <2>1
    <2>. QED
      BY <1>2, <2>2, <2>3, OneWorker
  <1>. QED
    BY <1>1, <1>3 DEF TypeInv, RequestTypes, TrackerTypes, GCTypes
-----------------------------------------------------------------------------
(* What Record keeps of a history *)

Below == {p \in Nat \X Nat : p[1] < p[2]}

LEMMA Least ==
    ASSUME NEW K \in SUBSET Nat, K # {}
    PROVE  \E i \in K : \A j \in K : i <= j
  <1>1. Below = OpToRel(<, Nat)
    BY DEF OpToRel, Below
  <1>2. PICK i \in K : \A j \in K : ~ (<<j, i>> \in Below)
    BY <1>1, NatLessThanWellFounded, WFMin
  <1>3. ASSUME NEW j \in K
        PROVE  i <= j
    <2>1. j < i => <<j, i>> \in Below
      BY DEF Below
    <2>. QED
      BY <1>2, <2>1
  <1>. QED
    BY <1>3

LEMMA EventsTyped ==
    ASSUME NEW s \in Seq(Event), NEW i \in 1..Len(s)
    PROVE  s[i] \in Event /\ s[i].ts \in Nat
  <1>1. s[i] \in Event
    BY ElementOfSeq
  <1>. QED
    BY <1>1 DEF Event

\* Evict returns the sequence from the first event after the cutoff on.
LEMMA EvictKeeps ==
    ASSUME NEW s \in Seq(Event), s # <<>>, NEW c \in Int, s[Len(s)].ts > c
    PROVE  \E k \in 1..Len(s) :
              /\ Evict(s, c) = SubSeq(s, k, Len(s))
              /\ \A i \in 1..(k - 1) : s[i].ts <= c
  <1>. DEFINE kept == {i \in DOMAIN s : s[i].ts > c}
              first == CHOOSE i \in kept : \A j \in kept : i <= j
  <1>1. Len(s) \in Nat \ {0} /\ DOMAIN s = 1..Len(s)
    BY LenProperties, EmptySeq
  <1>2. Len(s) \in kept /\ kept \in SUBSET Nat
    BY <1>1
  <1>3. \E i \in kept : \A j \in kept : i <= j
    <2>. HIDE DEF kept
    <2>. QED
      BY <1>2, Least
  <1>4. first \in kept /\ \A j \in kept : first <= j
    <2>. HIDE DEF kept
    <2>. QED
      BY <1>3
  <1>5. first \in 1..Len(s)
    BY <1>1, <1>4
  <1>6. Evict(s, c) = SubSeq(s, first, Len(s))
    BY DEF Evict
  <1>. HIDE DEF first
  <1>7. ASSUME NEW i \in 1..(first - 1)
        PROVE  s[i].ts <= c
    <2>1. i \in 1..Len(s) /\ ~(first <= i)
      BY <1>1, <1>5
    <2>2. ~(s[i].ts > c)
      BY <1>1, <1>4, <2>1
    <2>. QED
      BY <2>1, <2>2, EventsTyped
  <1>. QED
    BY <1>5, <1>6, <1>7

\* Newest drops events only when MaxHist newer ones remain.
LEMMA NewestKeeps ==
    ASSUME NEW s \in Seq(Event), s # <<>>
    PROVE  \E k \in 1..Len(s) :
              /\ Newest(s) = SubSeq(s, k, Len(s))
              /\ Len(s) - k < MaxHist
              /\ k = 1 \/ Len(s) - k + 1 = MaxHist
  <1>1. Len(s) \in Nat \ {0} /\ MaxHist \in Nat \ {0}
    BY LenProperties, EmptySeq, PipelineAssumption
  <1>2. CASE Len(s) > MaxHist
    <2>. DEFINE k == Len(s) - MaxHist + 1
    <2>1. k \in 1..Len(s) /\ Len(s) - k + 1 = MaxHist /\ Len(s) - k < MaxHist
      BY <1>1, <1>2
    <2>2. Newest(s) = SubSeq(s, k, Len(s))
      BY <1>2 DEF Newest
    <2>. QED
      BY <2>1, <2>2
  <1>3. CASE ~(Len(s) > MaxHist)
    <2>1. Newest(s) = SubSeq(s, 1, Len(s))
      BY <1>3, SubSeqFull DEF Newest
    <2>. QED
      BY <1>1, <1>3, <2>1
  <1>. QED
    BY <1>2, <1>3

LEMMA TailOf ==
    ASSUME NEW s \in Seq(Event), NEW k \in 1..Len(s)
    PROVE  /\ SubSeq(s, k, Len(s)) \in Seq(Event)
           /\ SubSeq(s, k, Len(s)) # <<>>
           /\ Len(SubSeq(s, k, Len(s))) = Len(s) - k + 1
  <1>1. Len(s) \in Nat
    BY LenProperties
  <1>2. \A i \in k..Len(s) : s[i] \in Event
    BY <1>1, ElementOfSeq
  <1>3. /\ SubSeq(s, k, Len(s)) \in Seq(Event)
        /\ Len(SubSeq(s, k, Len(s))) = Len(s) - k + 1
    BY <1>1, <1>2, SubSeqProperties
  <1>4. Len(SubSeq(s, k, Len(s))) # 0
    BY <1>1, <1>3
  <1>5. Len(<<>>) = 0
    BY EmptySeq
  <1>. QED
    BY <1>3, <1>4, <1>5

\* What is left of a sequence after the event e was appended.
Kept(s, e) == Newest(Evict(Append(s, e), e.ts - Window))

LEMMA KeptIs ==
    ASSUME NEW s \in Seq(Event), NEW e \in Event
    PROVE  LET all == Append(s, e) IN
           \E k \in 1..Len(all) :
              /\ Kept(s, e) = SubSeq(all, k, Len(all))
              /\ Len(all) - k < MaxHist
              /\ \A i \in 1..(k - 1) :
                    all[i].ts <= e.ts - Window \/ Len(all) - i >= MaxHist
  <1>. DEFINE all == Append(s, e)
              c == e.ts - Window
              L == Len(all)
  <1>1. /\ all \in Seq(Event) /\ L = Len(s) + 1 /\ all[L] = e
        /\ L \in Nat \ {0} /\ all # <<>>
    BY AppendProperties, LenProperties, EmptySeq
  <1>2. c \in Int /\ e.ts > c /\ e.ts \in Nat
    BY PipelineAssumption DEF Event
  <1>. HIDE DEF all, c, L
  <1>3. PICK a \in 1..L :
           /\ Evict(all, c) = SubSeq(all, a, L)
           /\ \A i \in 1..(a - 1) : all[i].ts <= c
    BY <1>1, <1>2, EvictKeeps DEF L
  <1>. DEFINE t == SubSeq(all, a, L)
  <1>4. t \in Seq(Event) /\ t # <<>> /\ Len(t) = L - a + 1
    BY <1>1, TailOf DEF L
  <1>. HIDE DEF t
  <1>5. PICK b \in 1..Len(t) :
           /\ Newest(t) = SubSeq(t, b, Len(t))
           /\ Len(t) - b < MaxHist
           /\ b = 1 \/ Len(t) - b + 1 = MaxHist
    BY <1>4, NewestKeeps
  <1>. DEFINE k == a + b - 1
  <1>6. Kept(s, e) = SubSeq(all, k, L)
    <2>1. a \in 1..L /\ L \in 1..L /\ b \in 1..(L - a + 1)
          /\ L - a + 1 \in 1..(L - a + 1)
      BY <1>1, <1>4
    <2>2. SubSeq(SubSeq(all, a, L), b, L - a + 1)
             = SubSeq(all, a + b - 1, a + (L - a + 1) - 1)
      BY <1>1, <2>1, SubSeqOfSubSeq DEF L
    <2>3. a + (L - a + 1) - 1 = L
      BY <1>1
    <2>4. Newest(t) = SubSeq(all, k, L)
      <3>1. Newest(t) = SubSeq(t, b, L - a + 1)
        BY <1>4, <1>5
      <3>2. t = SubSeq(all, a, L)
        BY DEF t
      <3>. QED
        BY <2>2, <2>3, <3>1, <3>2
    <2>5. Kept(s, e) = Newest(Evict(all, c))
      BY DEF Kept, all, c
    <2>6. Evict(all, c) = t
      BY <1>3 DEF t
    <2>. QED
      BY <2>4, <2>5, <2>6
  <1>7. k \in 1..L /\ L - k < MaxHist
    BY <1>1, <1>4, <1>5, PipelineAssumption
  <1>8. ASSUME NEW i \in 1..(k - 1)
        PROVE  all[i].ts <= c \/ L - i >= MaxHist
    <2>1. CASE i < a
      BY <1>1, <1>3, <2>1
    <2>2. CASE ~(i < a)
      BY <1>1, <1>4, <1>5, <2>2, PipelineAssumption
    <2>. QED
      BY <2>1, <2>2
  <1>. QED
    BY <1>6, <1>7, <1>8 DEF all, c, L

\* One more event recorded: what is remembered still has a cause for each loss.
LEMMA RecordRemembers ==
    ASSUME NEW s \in Seq(Event), NEW h \in Seq(Event), Remembers(s, h),
           NEW e \in Event
    PROVE  Remembers(Kept(s, e), Append(h, e))
  <1>. DEFINE all == Append(s, e)
              g   == Append(h, e)
  <1>1. /\ all \in Seq(Event) /\ Len(all) = Len(s) + 1
        /\ g \in Seq(Event) /\ Len(g) = Len(h) + 1
        /\ g[Len(h) + 1] = e /\ all[Len(s) + 1] = e
        /\ \A i \in 1..Len(h) : g[i] = h[i]
        /\ \A i \in 1..Len(s) : all[i] = s[i]
        /\ Len(s) \in Nat /\ Len(h) \in Nat
    BY AppendProperties, LenProperties
  <1>. HIDE DEF all, g
  <1>2. PICK n \in 0..Len(h) :
           /\ s = SubSeq(h, n + 1, Len(h))
           /\ \A i \in 1..n :
                 \/ \E j \in (i + 1)..Len(h) : h[j].ts - Window >= h[i].ts
                 \/ Len(h) - i >= MaxHist
    BY DEF Remembers
  <1>3. Len(s) = Len(h) - n /\ \A i \in 1..Len(s) : s[i] = h[n + i]
    <2>1. \A i \in (n + 1)..Len(h) : h[i] \in Event
      BY <1>1, <1>2, ElementOfSeq
    <2>2. /\ Len(s) = IF n + 1 <= Len(h) THEN Len(h) - (n + 1) + 1 ELSE 0
          /\ \A i \in 1..(Len(h) - (n + 1) + 1) : s[i] = h[n + 1 + i - 1]
      BY <1>1, <1>2, <2>1, SubSeqProperties
    <2>. QED
      BY <1>1, <1>2, <2>2
  <1>4. \A i \in 1..Len(all) : all[i] = g[n + i]
    <2>1. Len(all) = Len(s) + 1 /\ n + Len(all) = Len(h) + 1
      BY <1>1, <1>2, <1>3
    <2>. SUFFICES ASSUME NEW i \in 1..Len(all)
                  PROVE  all[i] = g[n + i]
      OBVIOUS
    <2>2. CASE i = Len(all)
      BY <1>1, <2>1, <2>2
    <2>3. CASE i # Len(all)
      <3>1. i \in 1..Len(s) /\ n + i \in 1..Len(h)
        BY <1>1, <1>2, <2>1, <2>3
      <3>. QED
        BY <1>1, <1>3, <3>1
    <2>. QED
      BY <2>2, <2>3
  <1>5. PICK k \in 1..Len(all) :
           /\ Kept(s, e) = SubSeq(all, k, Len(all))
           /\ Len(all) - k < MaxHist
           /\ \A i \in 1..(k - 1) :
                 all[i].ts <= e.ts - Window \/ Len(all) - i >= MaxHist
    BY KeptIs DEF all
  <1>. DEFINE m == n + k - 1
  <1>6. m \in 0..Len(g) /\ m < Len(g) /\ Len(g) - m <= MaxHist
    BY <1>1, <1>2, <1>3, <1>5, PipelineAssumption
  <1>7. Kept(s, e) = SubSeq(g, m + 1, Len(g))
    <2>. DEFINE u == SubSeq(all, k, Len(all))
                v == SubSeq(g, m + 1, Len(g))
    <2>1. \A i \in k..Len(all) : all[i] \in Event
      BY <1>1, ElementOfSeq
    <2>2. \A i \in (m + 1)..Len(g) : g[i] \in Event
      BY <1>1, <1>6, ElementOfSeq
    <2>3. /\ u \in Seq(Event) /\ Len(u) = Len(all) - k + 1
          /\ \A i \in 1..(Len(all) - k + 1) : u[i] = all[k + i - 1]
      BY <1>1, <1>5, <2>1, SubSeqProperties
    <2>4. /\ v \in Seq(Event) /\ Len(v) = Len(g) - m
          /\ \A i \in 1..(Len(g) - m) : v[i] = g[m + i]
      <3>1. /\ v \in Seq(Event)
            /\ Len(v) = IF m + 1 <= Len(g) THEN Len(g) - (m + 1) + 1 ELSE 0
            /\ \A i \in 1..(Len(g) - (m + 1) + 1) : v[i] = g[m + 1 + i - 1]
        BY <1>1, <1>6, <2>2, SubSeqProperties
      <3>. QED
        BY <1>1, <1>6, <3>1
    <2>. HIDE DEF u, v
    <2>5. Len(u) = Len(v)
      <3>1. Len(all) - k + 1 = Len(g) - m
        BY <1>1, <1>2, <1>3, <1>5
      <3>. QED
        BY <2>3, <2>4, <3>1
    <2>6. ASSUME NEW i \in 1..Len(u)
          PROVE  u[i] = v[i]
      <3>1. k + i - 1 \in 1..Len(all) /\ i \in 1..(Len(g) - m)
            /\ n + (k + i - 1) = m + i
        BY SMTT(30), <1>1, <1>2, <1>3, <1>5, <2>3, <2>4, <2>5
      <3>2. u[i] = all[k + i - 1] /\ v[i] = g[m + i]
        BY <2>3, <2>4, <3>1
      <3>. QED
        BY <1>4, <3>1, <3>2
    <2>7. u = v
      BY <2>3, <2>4, <2>5, <2>6, SeqEqual
    <2>. QED
      BY <1>5, <2>7 DEF u, v
  <1>8. ASSUME NEW i \in 1..m
        PROVE  \/ \E j \in (i + 1)..Len(g) : g[j].ts - Window >= g[i].ts
               \/ Len(g) - i >= MaxHist
    <2>1. CASE i \in 1..n
      <3>0. i \in 1..Len(h)
        BY <1>1, <1>2, <2>1
      <3>1. g[i] = h[i] /\ Len(g) - i >= Len(h) - i
        BY <1>1, <3>0
      <3>2. CASE Len(h) - i >= MaxHist
        BY <1>1, <1>2, <2>1, <3>2, PipelineAssumption
      <3>3. CASE \E j \in (i + 1)..Len(h) : h[j].ts - Window >= h[i].ts
        <4>1. PICK j \in (i + 1)..Len(h) : h[j].ts - Window >= h[i].ts
          BY <3>3
        <4>2. j \in (i + 1)..Len(g) /\ g[j] = h[j]
          BY <1>1, <1>2, <2>1
        <4>. QED
          BY <3>1, <4>1, <4>2
      <3>. QED
        BY <1>2, <2>1, <3>2, <3>3
    <2>2. CASE i \notin 1..n
      <3>1. i - n \in 1..(k - 1) /\ i - n \in 1..Len(all) /\ n + (i - n) = i
            /\ Len(all) - (i - n) = Len(g) - i
        BY <1>1, <1>2, <1>3, <1>5, <2>2
      <3>2. all[i - n] = g[i]
        BY <1>4, <3>1
      <3>3. Len(g) \in (i + 1)..Len(g) /\ g[Len(g)] = e /\ i \in 1..Len(g)
        BY <1>1, <1>6
      <3>4. g[i].ts \in Nat /\ e.ts \in Nat
        <4>1. g[i].ts \in Nat
          BY <1>1, <3>3, EventsTyped
        <4>2. e.ts \in Nat
          BY PipelineAssumption DEF Event
        <4>. QED
          BY <4>1, <4>2
      <3>5. CASE Len(all) - (i - n) >= MaxHist
        BY <3>1, <3>5
      <3>6. CASE g[i].ts <= e.ts - Window
        <4>1. g[Len(g)].ts - Window >= g[i].ts
          BY <3>3, <3>4, <3>6, PipelineAssumption
        <4>. QED
          BY <3>3, <4>1
      <3>. QED
        BY <1>5, <3>1, <3>2, <3>5, <3>6
    <2>. QED
      BY <2>1, <2>2
  <1>. QED
    BY <1>6, <1>7, <1>8 DEF Remembers, g
-----------------------------------------------------------------------------
(* Type correctness *)

LEMMA TypeInit == Init => TypeInv
  <1>. SUFFICES ASSUME Init
                PROVE  TypeInv
    OBVIOUS
  <1>1. RequestTypes /\ GCTypes
    BY PipelineAssumption DEF Init, RequestTypes, GCTypes
  <1>2. TrackerTypes
    <2>1. heap = <<>> /\ history = <<>> /\ clients = [c \in Clients |-> 0]
      BY DEF Init
    <2>2. heap \in Seq(State) /\ history \in Seq(Seq(Event)) /\ Len(heap) = 0
          /\ Len(history) = 0
      BY <2>1, EmptySeq
    <2>. QED
      BY <2>1, <2>2 DEF TrackerTypes
  <1>3. JobTypes
    <2>1. job = [w \in Workers |-> Idle]
      BY DEF Init
    <2>2. \A n : Idle \in Jobs(n)
      BY DEF Jobs
    <2>3. \A n : Placed(Idle, n)
      BY DEF Placed, Idle
    <2>. QED
      BY <2>1, <2>2, <2>3 DEF JobTypes
  <1>. QED
    BY <1>1, <1>2, <1>3 DEF TypeInv

LEMMA TypeTake ==
    ASSUME TypeInv, NEW w \in Workers,
           NEW l \in {"gate", "serve"}, NEW k \in Kinds \cup {"none", "preflight"},
           Take(w, l, k)
    PROVE  TypeInv'
  <1>1. PICK c \in Clients : job' = [job EXCEPT ![w] = Request(l, k, c)]
    BY DEF Take
  <1>. DEFINE x == Request(l, k, c)
  <1>2. /\ reqs + 1 \in 1..MaxRequests /\ reqs' \in 0..MaxRequests
        /\ mode' = mode /\ now' = now /\ gc' = gc
        /\ clients' = clients /\ heap' = heap /\ history' = history
    BY PipelineAssumption DEF Take, TypeInv, RequestTypes, tracker
  <1>3. Len(heap) \in Nat
    BY LenProperties DEF TypeInv, TrackerTypes
  <1>4. x \in Working(Len(heap))
    <2>1. 0 \in 0..MaxTime /\ 0 \in 0..Len(heap) /\ 0 \in 0..MaxRequests
      BY <1>3, PipelineAssumption
    <2>. QED
      BY <1>2, <2>1 DEF Request, Working
  <1>5. Placed(x, Len(heap))
    BY DEF Placed, Request
  <1>. HIDE DEF x
  <1>6. JobTypes'
    <2>1. Len(heap') = Len(heap)
      BY <1>2
    <2>2. x \in Jobs(Len(heap')) /\ Placed(x, Len(heap'))
      BY <1>4, <1>5, <2>1 DEF Jobs
    <2>3. job' = [job EXCEPT ![w] = x]
      BY <1>1 DEF x
    <2>4. Len(heap') \in Nat /\ Len(heap) <= Len(heap')
      BY <1>3, <2>1
    <2>. QED
      BY <1>3, <2>2, <2>3, <2>4, OneWorker
  <1>. QED
    BY <1>2, <1>6 DEF TypeInv, RequestTypes, TrackerTypes, GCTypes

LEMMA TypeGate ==
    ASSUME TypeInv, NEW w \in Workers, Gate(w)
    PROVE  TypeInv'
  <1>1. job[w] \in Working(Len(heap)) /\ Len(heap) \in Nat
    BY Forms, LenProperties DEF Gate, At, TypeInv, TrackerTypes
  <1>2. PICK p \in Policies :
           \/ job' = [job EXCEPT ![w] = Idle]
           \/ job' = [job EXCEPT ![w] =
                         [job[w] EXCEPT !.pc = "score", !.passed = (p = "auth")]]
    BY DEF Gate
  <1>3. UNCHANGED <<requests, tracker, gc>>
    BY DEF Gate
  <1>4. CASE job' = [job EXCEPT ![w] = Idle]
    <2>1. Idle \in Jobs(Len(heap)) /\ Placed(Idle, Len(heap))
      BY DEF Jobs, Placed, Idle
    <2>. QED
      BY <1>3, <1>4, <2>1, OneWorkerOnly
  <1>5. ASSUME NEW b \in BOOLEAN,
               job' = [job EXCEPT ![w] =
                          [job[w] EXCEPT !.pc = "score", !.passed = b]]
        PROVE  TypeInv'
    <2>. DEFINE x == [job[w] EXCEPT !.pc = "score", !.passed = b]
    <2>1. x \in Working(Len(heap))
      <3>. HIDE DEF x
      <3>. SUFFICES [job[w] EXCEPT !.pc = "score", !.passed = b]
                       \in Working(Len(heap))
        BY DEF x
      <3>. QED
        BY <1>1 DEF Working
    <2>2. Placed(x, Len(heap))
      BY <1>1 DEF Placed, Working
    <2>. HIDE DEF x
    <2>3. job' = [job EXCEPT ![w] = x]
      BY <1>5 DEF x
    <2>. QED
      BY <1>3, <2>1, <2>2, <2>3, OneWorkerOnly DEF Jobs
  <1>. QED
    BY <1>2, <1>4, <1>5

LEMMA TypeSkipTrusted ==
    ASSUME TypeInv, NEW w \in Workers, SkipTrusted(w)
    PROVE  TypeInv'
  <1>. DEFINE x == [job[w] EXCEPT !.pc = "decide"]
  <1>1. job[w] \in Working(Len(heap)) /\ Len(heap) \in Nat
    BY Forms, LenProperties DEF SkipTrusted, At, TypeInv, TrackerTypes
  <1>2. x \in Working(Len(heap))
    BY <1>1 DEF Working
  <1>3. Placed(x, Len(heap))
    BY <1>1 DEF Placed, Working
  <1>4. job' = [job EXCEPT ![w] = x] /\ UNCHANGED <<requests, tracker, gc>>
    BY DEF SkipTrusted, Goto
  <1>. HIDE DEF x
  <1>. QED
    BY <1>2, <1>3, <1>4, OneWorkerOnly DEF Jobs

LEMMA TypeStamp ==
    ASSUME TypeInv, NEW w \in Workers, Stamp(w)
    PROVE  TypeInv'
  <1>. DEFINE x == [job[w] EXCEPT !.pc = "lookup", !.ts = now]
  <1>1. job[w] \in Working(Len(heap)) /\ Len(heap) \in Nat
    BY Forms, LenProperties DEF Stamp, At, TypeInv, TrackerTypes
  <1>0. now \in 1..MaxTime /\ now \in 0..MaxTime
    BY PipelineAssumption DEF TypeInv, RequestTypes
  <1>2. x \in Working(Len(heap))
    BY <1>1, <1>0 DEF Working
  <1>3. Placed(x, Len(heap))
    BY <1>1, <1>0 DEF Placed, Working
  <1>4. job' = [job EXCEPT ![w] = x] /\ UNCHANGED <<requests, tracker, gc>>
    BY DEF Stamp
  <1>. HIDE DEF x
  <1>. QED
    BY <1>2, <1>3, <1>4, OneWorkerOnly DEF Jobs

LEMMA TypeLookup ==
    ASSUME TypeInv, NEW w \in Workers, Lookup(w)
    PROVE  TypeInv'
  <1>. DEFINE c == job[w].client
              X(p) == [job[w] EXCEPT !.pc = "record", !.st = p]
  <1>1. /\ job[w] \in Working(Len(heap)) /\ Len(heap) \in Nat /\ c \in Clients
        /\ job[w].ts \in 1..MaxTime
    <2>1. job[w] \in Working(Len(heap)) /\ Len(heap) \in Nat
      BY Forms, LenProperties DEF Lookup, At, TypeInv, TrackerTypes
    <2>2. Placed(job[w], Len(heap)) /\ job[w].pc = "lookup"
      BY DEF TypeInv, JobTypes, Lookup, At
    <2>. QED
      BY <2>1, <2>2 DEF Working, Placed
  <1>2. ASSUME NEW n \in Nat, Len(heap) <= n, NEW p \in 1..n
        PROVE  X(p) \in Working(n) /\ Placed(X(p), n)
    <2>1. job[w] \in Working(n)
      <3>1. 0..Len(heap) \subseteq 0..n
        BY <1>1, <1>2
      <3>. QED
        BY <1>1, <3>1 DEF Working
    <2>2. p \in 0..n
      OBVIOUS
    <2>3. X(p) \in Working(n)
      BY <2>1, <2>2 DEF Working
    <2>4. Placed(X(p), n)
      BY <1>1, <2>1 DEF Placed, Working
    <2>. QED
      BY <2>3, <2>4
  <1>3. UNCHANGED <<requests, gc>>
    BY DEF Lookup
  <1>4. CASE clients[c] # 0
    <2>1. clients[c] \in 1..Len(heap)
      BY <1>1, <1>4 DEF TypeInv, TrackerTypes
    <2>2. job' = [job EXCEPT ![w] = X(clients[c])] /\ UNCHANGED tracker
      BY <1>4 DEF Lookup
    <2>. HIDE DEF X
    <2>3. X(clients[c]) \in Working(Len(heap)) /\ Placed(X(clients[c]), Len(heap))
      <3>1. Len(heap) <= Len(heap)
        BY <1>1
      <3>. QED
        BY <1>1, <1>2, <2>1, <3>1
    <2>. QED
      BY <1>3, <2>2, <2>3, OneWorkerOnly DEF Jobs
  <1>5. CASE clients[c] = 0
    <2>. DEFINE n == Len(heap) + 1
    <2>1. /\ heap' = Append(heap, Fresh) /\ history' = Append(history, <<>>)
          /\ clients' = [clients EXCEPT ![c] = n]
          /\ job' = [job EXCEPT ![w] = X(n)]
      BY <1>5 DEF Lookup
    <2>2. Fresh \in State
      <3>1. <<>> \in Seq(Event)
        BY EmptySeq
      <3>. QED
        BY <3>1, PipelineAssumption DEF Fresh, State, Statuses
    <2>3. heap' \in Seq(State) /\ Len(heap') = n
      BY <2>1, <2>2, AppendProperties DEF TypeInv, TrackerTypes
    <2>4. history' \in Seq(Seq(Event)) /\ Len(history') = n
      <3>1. <<>> \in Seq(Event)
        BY EmptySeq
      <3>. QED
        BY <2>1, <3>1, AppendProperties DEF TypeInv, TrackerTypes
    <2>5. n \in Nat /\ n \in 1..n /\ Len(heap) <= n
      BY <1>1
    <2>6. X(n) \in Working(n) /\ Placed(X(n), n)
      BY <1>2, <2>5
    <2>. HIDE DEF X, n
    <2>7. JobTypes'
      BY <1>1, <2>1, <2>3, <2>5, <2>6, OneWorker DEF Jobs
    <2>8. TrackerTypes'
      <3>1. 0..Len(heap) \subseteq 0..n
        BY <1>1, <2>5
      <3>2. n \in 0..n
        BY <2>5
      <3>3. clients' \in [Clients -> 0..n]
        BY <2>1, <3>1, <3>2 DEF TypeInv, TrackerTypes
      <3>. QED
        BY <2>3, <2>4, <3>3 DEF TrackerTypes
    <2>. QED
      BY <1>3, <2>7, <2>8 DEF TypeInv, RequestTypes, GCTypes, requests
  <1>. QED
    BY <1>4, <1>5

\* One state object changes; none is added.
LEMMA OneObject ==
    ASSUME TypeInv, NEW p \in 1..Len(heap), NEW st \in State,
           heap' = [heap EXCEPT ![p] = st]
    PROVE  /\ heap' \in Seq(State) /\ Len(heap') = Len(heap)
           /\ heap'[p] = st
           /\ \A q \in 1..Len(heap) : q # p => heap'[q] = heap[q]
           /\ DOMAIN heap' = 1..Len(heap) /\ DOMAIN heap = 1..Len(heap)
  <1>1. heap \in Seq(State)
    BY DEF TypeInv, TrackerTypes
  <1>2. heap' \in Seq(State) /\ Len(heap') = Len(heap)
        /\ \A q \in 1..Len(heap) : heap'[q] = IF q = p THEN st ELSE heap[q]
    BY <1>1, ExceptSeq
  <1>3. DOMAIN heap' = 1..Len(heap') /\ DOMAIN heap = 1..Len(heap)
    BY <1>1, <1>2, LenProperties
  <1>. QED
    BY <1>2, <1>3

\* What Record does to the state object p.
LEMMA RecordChanges ==
    ASSUME TypeInv, NEW w \in Workers, Record(w)
    PROVE  LET p == job[w].st
               e == [req |-> job[w].req, ts |-> job[w].ts]
               t == [heap[p] EXCEPT !.lastSeen = job[w].ts,
                                    !.events = Kept(heap[p].events, e)]
           IN /\ p \in 1..Len(heap) /\ e \in Event /\ heap[p] \in State
              /\ heap[p].events \in Seq(Event) /\ history[p] \in Seq(Event)
              /\ t \in State /\ heap' = [heap EXCEPT ![p] = t]
              /\ history' = [history EXCEPT ![p] = Append(history[p], e)]
  <1>. DEFINE p == job[w].st
              e == [req |-> job[w].req, ts |-> job[w].ts]
              t == [heap[p] EXCEPT !.lastSeen = job[w].ts,
                                   !.events = Kept(heap[p].events, e)]
  <1>1. job[w] \in Working(Len(heap)) /\ Placed(job[w], Len(heap))
        /\ job[w].pc = "record"
    BY Forms DEF Record, At, TypeInv, JobTypes
  <1>2. /\ p \in 1..Len(heap) /\ job[w].ts \in 1..MaxTime
        /\ job[w].ts \in 0..MaxTime /\ e \in Event
    BY <1>1, PipelineAssumption DEF Placed, Working, Event
  <1>3. heap[p] \in State /\ history[p] \in Seq(Event)
    <2>1. /\ heap \in Seq(State) /\ history \in Seq(Seq(Event))
          /\ Len(history) = Len(heap)
      BY DEF TypeInv, TrackerTypes
    <2>. QED
      BY <1>2, <2>1, ElementOfSeq
  <1>4. heap[p].events \in Seq(Event)
    BY <1>3 DEF State
  <1>5. Kept(heap[p].events, e) \in Seq(Event)
    <2>. DEFINE all == Append(heap[p].events, e)
    <2>1. all \in Seq(Event)
      BY <1>2, <1>4, AppendProperties
    <2>2. PICK k \in 1..Len(all) : Kept(heap[p].events, e) = SubSeq(all, k, Len(all))
      BY <1>2, <1>4, KeptIs
    <2>. HIDE DEF all
    <2>. QED
      BY <2>1, <2>2, TailOf
  <1>6. t \in State
    <2>. DEFINE ts == job[w].ts
                ev == Kept(heap[p].events, e)
    <2>1. ts \in 0..MaxTime /\ ev \in Seq(Event)
      BY <1>2, <1>5
    <2>. HIDE DEF ts, ev
    <2>2. [heap[p] EXCEPT !.lastSeen = ts, !.events = ev] \in State
      BY <1>3, <2>1 DEF State
    <2>. QED
      BY <2>2 DEF ts, ev
  <1>7. heap' = [heap EXCEPT ![p] = t]
    BY DEF Record, Kept
  <1>8. history' = [history EXCEPT ![p] = Append(history[p], e)]
    BY DEF Record
  <1>. QED
    BY <1>2, <1>3, <1>4, <1>6, <1>7, <1>8

LEMMA TypeRecord ==
    ASSUME TypeInv, NEW w \in Workers, Record(w)
    PROVE  TypeInv'
  <1>. DEFINE p == job[w].st
              e == [req |-> job[w].req, ts |-> job[w].ts]
              t == [heap[p] EXCEPT !.lastSeen = job[w].ts,
                                   !.events = Kept(heap[p].events, e)]
              x == [job[w] EXCEPT !.pc = "assess", !.ts = 0]
  <1>1. /\ p \in 1..Len(heap) /\ e \in Event /\ t \in State
        /\ heap' = [heap EXCEPT ![p] = t] /\ history[p] \in Seq(Event)
        /\ history' = [history EXCEPT ![p] = Append(history[p], e)]
    BY RecordChanges
  <1>2. job[w] \in Working(Len(heap)) /\ Len(heap) \in Nat
    BY Forms, LenProperties DEF Record, At, TypeInv, TrackerTypes
  <1>3. x \in Working(Len(heap)) /\ Placed(x, Len(heap))
    <2>1. 0 \in 0..MaxTime
      BY PipelineAssumption
    <2>2. x \in Working(Len(heap))
      BY <1>2, <2>1 DEF Working
    <2>3. x.pc = "assess" /\ x.st = p
      BY <1>2 DEF Working
    <2>. QED
      BY <1>1, <2>2, <2>3 DEF Placed
  <1>4. UNCHANGED <<requests, clients, gc>> /\ job' = [job EXCEPT ![w] = x]
    BY DEF Record
  <1>. HIDE DEF p, e, t, x
  <1>5. heap' \in Seq(State) /\ Len(heap') = Len(heap)
    BY <1>1, OneObject
  <1>6. history' \in Seq(Seq(Event)) /\ Len(history') = Len(history)
    <2>1. Append(history[p], e) \in Seq(Event)
      BY <1>1, AppendProperties
    <2>. QED
      BY <1>1, <2>1, ExceptSeq DEF TypeInv, TrackerTypes
  <1>7. TrackerTypes'
    BY <1>4, <1>5, <1>6 DEF TypeInv, TrackerTypes
  <1>8. JobTypes'
    <2>1. Len(heap') \in Nat /\ Len(heap) <= Len(heap')
      BY <1>2, <1>5
    <2>2. x \in Jobs(Len(heap')) /\ Placed(x, Len(heap'))
      BY <1>3, <1>5 DEF Jobs
    <2>. QED
      BY <1>2, <1>4, <2>1, <2>2, OneWorker
  <1>. QED
    BY <1>4, <1>7, <1>8 DEF TypeInv, RequestTypes, GCTypes, requests

LEMMA TypeAssess ==
    ASSUME TypeInv, NEW w \in Workers, Assess(w)
    PROVE  TypeInv'
  <1>1. PICK t \in Scores :
           job' = [job EXCEPT ![w].pc = "decide", ![w].total = t,
                              ![w].prev = heap[job[w].st].lastFrom]
    BY DEF Assess
  <1>. DEFINE q == heap[job[w].st].lastFrom
              x == [job[w] EXCEPT !.pc = "decide", !.total = t, !.prev = q]
  <1>2. job[w] \in Working(Len(heap)) /\ job[w].st \in 1..Len(heap)
    <2>1. job[w].pc = "assess" /\ Placed(job[w], Len(heap))
      BY DEF Assess, At, TypeInv, JobTypes
    <2>. QED
      BY <2>1, Forms DEF Placed
  <1>3. q \in 0..MaxRequests
    <2>1. heap[job[w].st] \in State
      BY <1>2, ElementOfSeq DEF TypeInv, TrackerTypes
    <2>. QED
      BY <2>1 DEF State
  <1>4. job' = [job EXCEPT ![w] = x]
    BY <1>1
  <1>. HIDE DEF q
  <1>5. x \in Working(Len(heap))
    BY <1>2, <1>3 DEF Working
  <1>6. Placed(x, Len(heap))
    BY <1>2 DEF Placed, Working
  <1>7. UNCHANGED <<requests, tracker, gc>>
    BY DEF Assess
  <1>. HIDE DEF x
  <1>. QED
    BY <1>4, <1>5, <1>6, <1>7, OneWorkerOnly DEF Jobs

\* What Judge does to a worker's record.
LEMMA JudgeChanges ==
    ASSUME TypeInv, NEW w \in Workers, Judge(w)
    PROVE  \E k \in Kinds, pass \in BOOLEAN, d \in Decisions :
              /\ job' = [job EXCEPT ![w] =
                            [job[w] EXCEPT !.pc = "serve", !.kind = k,
                                           !.decision = d, !.passed = pass,
                                           !.told = d, !.st = 0, !.prev = 0]]
              /\ pass => Decide(job[w].total) # "tarpit"
              /\ d = IF pass THEN "real" ELSE Decide(job[w].total)
  <1>. DEFINE j == job[w]
              D == Decide(j.total)
  <1>1. D \in Decisions
    BY DEF Decide, Decisions
  <1>2. PICK ok \in BOOLEAN :
           LET pass == D # "tarpit" /\ (j.passed \/ ok)
               d    == IF pass THEN "real" ELSE D
           IN  Judged(w, d, pass, d)
    BY DEF Judge
  <1>. DEFINE pass == D # "tarpit" /\ (j.passed \/ ok)
              d    == IF pass THEN "real" ELSE D
  <1>3. Judged(w, d, pass, d)
    BY <1>2
  <1>4. pass \in BOOLEAN /\ d \in Decisions /\ (pass => D # "tarpit")
    BY <1>1 DEF Decisions
  <1>5. d = IF pass THEN "real" ELSE D
    OBVIOUS
  <1>. HIDE DEF pass, d, D
  <1>6. PICK k \in Kinds :
           job' = [job EXCEPT ![w] =
                      [@ EXCEPT !.pc = "serve", !.kind = k, !.decision = d,
                                !.passed = pass, !.told = d, !.st = 0,
                                !.prev = 0]]
    BY <1>3 DEF Judged
  <1>. QED
    BY <1>4, <1>5, <1>6 DEF D

LEMMA TypeJudge ==
    ASSUME TypeInv, NEW w \in Workers, Judge(w)
    PROVE  TypeInv'
  <1>1. PICK k \in Kinds, pass \in BOOLEAN, d \in Decisions :
           /\ job' = [job EXCEPT ![w] =
                         [job[w] EXCEPT !.pc = "serve", !.kind = k,
                                        !.decision = d, !.passed = pass,
                                        !.told = d, !.st = 0, !.prev = 0]]
           /\ pass => Decide(job[w].total) # "tarpit"
           /\ d = IF pass THEN "real" ELSE Decide(job[w].total)
    BY JudgeChanges, Zenon
  <1>. DEFINE x == [job[w] EXCEPT !.pc = "serve", !.kind = k, !.decision = d,
                                  !.passed = pass, !.told = d, !.st = 0,
                                  !.prev = 0]
  <1>2. job[w] \in Working(Len(heap)) /\ Len(heap) \in Nat
    BY Forms, LenProperties DEF Judge, At, TypeInv, TrackerTypes
  <1>3. 0 \in 0..Len(heap) /\ 0 \in 0..MaxRequests
    BY <1>2, PipelineAssumption
  <1>4. x \in Working(Len(heap))
    BY <1>2, <1>3 DEF Working
  <1>5. Placed(x, Len(heap))
    BY <1>2 DEF Placed, Working
  <1>6. job' = [job EXCEPT ![w] = x] /\ UNCHANGED <<requests, tracker, gc>>
    BY <1>1 DEF Judge
  <1>. HIDE DEF x
  <1>. QED
    BY <1>4, <1>5, <1>6, OneWorkerOnly DEF Jobs

LEMMA TypeServe ==
    ASSUME TypeInv, NEW w \in Workers, Serve(w)
    PROVE  TypeInv'
  <1>1. job[w] \in Working(Len(heap)) /\ UNCHANGED <<requests, tracker, gc>>
    BY Forms DEF Serve, At
  <1>2. PICK s \in Statuses :
           \/ job' = [job EXCEPT ![w] = Idle]
           \/ job' = [job EXCEPT ![w] =
                         [pc |-> "answered", req |-> job[w].req,
                          client |-> job[w].client, status |-> s]]
    BY DEF Serve
  <1>3. CASE job' = [job EXCEPT ![w] = Idle]
    <2>1. Idle \in Jobs(Len(heap)) /\ Placed(Idle, Len(heap))
      BY DEF Jobs, Placed, Idle
    <2>. QED
      BY <1>1, <1>3, <2>1, OneWorkerOnly
  <1>4. CASE job' = [job EXCEPT ![w] =
                        [pc |-> "answered", req |-> job[w].req,
                         client |-> job[w].client, status |-> s]]
    <2>. DEFINE x == [pc |-> "answered", req |-> job[w].req,
                      client |-> job[w].client, status |-> s]
    <2>1. x \in Answered /\ Placed(x, Len(heap))
      BY <1>1 DEF Working, Answered, Placed
    <2>. HIDE DEF x
    <2>2. job' = [job EXCEPT ![w] = x]
      BY <1>4 DEF x
    <2>. QED
      BY <1>1, <2>1, <2>2, OneWorkerOnly DEF Jobs
  <1>. QED
    BY <1>2, <1>3, <1>4

LEMMA TypeFindState ==
    ASSUME TypeInv, NEW w \in Workers, FindState(w)
    PROVE  TypeInv'
  <1>. DEFINE p == clients[job[w].client]
              x == [pc |-> "annotate", req |-> job[w].req, st |-> p,
                    status |-> job[w].status]
  <1>1. job[w] \in Answered /\ UNCHANGED <<requests, tracker, gc>>
    BY Forms DEF FindState, At
  <1>2. p \in 0..Len(heap) /\ Len(heap) \in Nat
    BY <1>1, LenProperties DEF Answered, TypeInv, TrackerTypes
  <1>3. CASE p = 0
    <2>1. Idle \in Jobs(Len(heap)) /\ Placed(Idle, Len(heap))
      BY DEF Jobs, Placed, Idle
    <2>2. job' = [job EXCEPT ![w] = Idle]
      BY <1>3 DEF FindState
    <2>. QED
      BY <1>1, <2>1, <2>2, OneWorkerOnly
  <1>4. CASE p # 0
    <2>1. p \in 1..Len(heap)
      BY <1>2, <1>4
    <2>2. job' = [job EXCEPT ![w] = x]
      BY <1>4 DEF FindState
    <2>. HIDE DEF p
    <2>3. x \in Annotating(Len(heap)) /\ Placed(x, Len(heap))
      BY <1>1, <2>1 DEF Answered, Annotating, Placed
    <2>. HIDE DEF x
    <2>. QED
      BY <1>1, <2>2, <2>3, OneWorkerOnly DEF Jobs
  <1>. QED
    BY <1>3, <1>4

\* What RecordStatus does to the state object p.
LEMMA StatusChanges ==
    ASSUME TypeInv, NEW w \in Workers, RecordStatus(w)
    PROVE  LET p == job[w].st
               j == job[w]
               t == [heap[p] EXCEPT
                       !.lastStatus = j.status, !.lastFrom = j.req,
                       !.lastBad = IF j.status >= 400 THEN j.req ELSE @]
           IN /\ p \in 1..Len(heap) /\ heap[p] \in State /\ t \in State
              /\ heap' = [heap EXCEPT ![p] = t]
              /\ job' = [job EXCEPT ![w] = Idle]
              /\ UNCHANGED <<requests, clients, history, gc>>
  <1>. DEFINE p == job[w].st
              j == job[w]
              b == IF j.status >= 400 THEN j.req ELSE heap[p].lastBad
              t == [heap[p] EXCEPT !.lastStatus = j.status, !.lastFrom = j.req,
                                   !.lastBad = b]
  <1>1. j \in Annotating(Len(heap))
    BY Forms DEF RecordStatus, At
  <1>2. p \in 1..Len(heap) /\ j.status \in Statuses /\ j.req \in 0..MaxRequests
    BY <1>1, PipelineAssumption DEF Annotating
  <1>3. heap[p] \in State
    BY <1>2, ElementOfSeq DEF TypeInv, TrackerTypes
  <1>4. b \in 0..MaxRequests
    BY <1>2, <1>3 DEF State
  <1>5. t \in State
    <2>. HIDE DEF b, p, j
    <2>. QED
      BY <1>2, <1>3, <1>4 DEF State
  <1>6. heap' = [heap EXCEPT ![p] = t]
    BY DEF RecordStatus
  <1>. QED
    BY <1>2, <1>3, <1>5, <1>6 DEF RecordStatus

LEMMA TypeRecordStatus ==
    ASSUME TypeInv, NEW w \in Workers, RecordStatus(w)
    PROVE  TypeInv'
  <1>1. PICK p \in 1..Len(heap), t \in State :
           /\ heap' = [heap EXCEPT ![p] = t]
           /\ job' = [job EXCEPT ![w] = Idle]
           /\ UNCHANGED <<requests, clients, history, gc>>
    BY StatusChanges
  <1>2. heap' \in Seq(State) /\ Len(heap') = Len(heap) /\ Len(heap) \in Nat
    BY <1>1, OneObject, LenProperties DEF TypeInv, TrackerTypes
  <1>3. TrackerTypes'
    BY <1>1, <1>2 DEF TypeInv, TrackerTypes
  <1>4. JobTypes'
    <2>1. Idle \in Jobs(Len(heap')) /\ Placed(Idle, Len(heap'))
      BY DEF Jobs, Placed, Idle
    <2>2. Len(heap') \in Nat /\ Len(heap) <= Len(heap')
      BY <1>2
    <2>. QED
      BY <1>1, <1>2, <2>1, <2>2, OneWorker
  <1>. QED
    BY <1>1, <1>3, <1>4 DEF TypeInv, RequestTypes, GCTypes, requests

LEMMA TypeCollect ==
    ASSUME TypeInv, Collect
    PROVE  TypeInv' /\ UNCHANGED <<requests, job, heap, history>>
  <1>1. UNCHANGED <<requests, job, heap, history>>
    BY DEF Collect, GCStart, GCLock, GCLook, GCDelete, GCUnlock, tracker
  <1>2. 0 \in 0..MaxTime /\ now \in 0..MaxTime
    BY PipelineAssumption DEF TypeInv, RequestTypes
  <1>3. GCTypes'
    <2>. USE <1>2 DEF TypeInv, GCTypes
    <2>1. CASE GCStart
      BY <2>1 DEF GCStart
    <2>2. CASE GCLock
      BY <2>2 DEF GCLock
    <2>3. ASSUME NEW c \in Clients, GCLook(c)
          PROVE  GCTypes'
      <3>1. gc.todo \ {c} \in SUBSET Clients /\ {c} \in SUBSET Clients
        OBVIOUS
      <3>2. \/ gc' = [gc EXCEPT !.pc = "delete", !.todo = gc.todo \ {c},
                               !.victim = {c}]
            \/ gc' = [gc EXCEPT !.todo = gc.todo \ {c}]
        BY <2>3 DEF GCLook
      <3>. QED
        BY <3>1, <3>2
    <2>4. CASE GCDelete
      BY <2>4 DEF GCDelete
    <2>5. CASE GCUnlock
      BY <2>5 DEF GCUnlock
    <2>. QED
      BY <2>1, <2>2, <2>3, <2>4, <2>5 DEF Collect
  <1>4. clients' \in [Clients -> 0..Len(heap)]
    <2>1. CASE GCDelete
      <3>1. Len(heap) \in Nat
        BY LenProperties DEF TypeInv, TrackerTypes
      <3>2. 0 \in 0..Len(heap)
        BY <3>1
      <3>. QED
        BY <2>1, <3>2 DEF GCDelete, TypeInv, TrackerTypes
    <2>2. CASE ~GCDelete
      <3>1. clients' = clients
        BY <2>2 DEF Collect, GCStart, GCLock, GCLook, GCUnlock, tracker
      <3>. QED
        BY <3>1 DEF TypeInv, TrackerTypes
    <2>. QED
      BY <2>1, <2>2
  <1>. QED
    BY <1>1, <1>3, <1>4
    DEF TypeInv, RequestTypes, TrackerTypes, JobTypes, requests

LEMMA TypeTick ==
    ASSUME TypeInv, Tick
    PROVE  TypeInv'
  <1>1. now' \in 1..MaxTime
    BY PipelineAssumption DEF Tick, TypeInv, RequestTypes
  <1>. QED
    BY <1>1 DEF Tick, TypeInv, RequestTypes, TrackerTypes, GCTypes, JobTypes, tracker

LEMMA TypeNext == TypeInv /\ [Next]_vars => TypeInv'
  <1>. SUFFICES ASSUME TypeInv, [Next]_vars
                PROVE  TypeInv'
    OBVIOUS
  <1>1. CASE UNCHANGED vars
    BY <1>1 DEF vars, requests, tracker, TypeInv, RequestTypes, TrackerTypes,
                GCTypes, JobTypes
  <1>2. ASSUME NEW w \in Workers, Handle(w)
        PROVE  TypeInv'
    BY <1>2, TypeTake, TypeGate, TypeSkipTrusted, TypeStamp, TypeLookup,
       TypeRecord, TypeAssess, TypeJudge, TypeServe, TypeFindState,
       TypeRecordStatus DEF Handle, Arrive, Preflight
  <1>. QED
    BY <1>1, <1>2, TypeCollect, TypeTick DEF Next

\* The tracker and the workers keep their types; in particular a worker that writes
\* into a client's state has one, also when the map forgot it meanwhile.
THEOREM TypeCorrect == Spec => []TypeOK
  <1>1. Spec => []TypeInv
    BY TypeInit, TypeNext, PTL DEF Spec
  <1>. QED
    BY <1>1, TypeInvImpliesTypeOK, PTL
-----------------------------------------------------------------------------
(* The tracker *)

\* Recording and collecting over any number of overlapping requests: a client's state
\* forgets no event without a cause.
LEMMA HistoryInit == Init => HistoryFaithful
  <1>1. heap = <<>> => DOMAIN heap = {}
    OBVIOUS
  <1>. QED
    BY <1>1 DEF Init, HistoryFaithful

LEMMA HistoryNext == TypeInv /\ HistoryFaithful /\ [Next]_vars => HistoryFaithful'
  <1>. SUFFICES ASSUME TypeInv, HistoryFaithful, [Next]_vars
                PROVE  HistoryFaithful'
    OBVIOUS
  <1>0. /\ DOMAIN heap = 1..Len(heap) /\ Len(heap) \in Nat
        /\ DOMAIN history = 1..Len(heap) /\ heap \in Seq(State)
        /\ history \in Seq(Seq(Event)) /\ Len(history) = Len(heap)
    BY LenProperties DEF TypeInv, TrackerTypes
  <1>1. CASE UNCHANGED <<heap, history>>
    BY <1>1 DEF HistoryFaithful
  <1>2. ASSUME NEW w \in Workers, Lookup(w), ~UNCHANGED <<heap, history>>
        PROVE  HistoryFaithful'
    <2>1. heap' = Append(heap, Fresh) /\ history' = Append(history, <<>>)
      BY <1>2 DEF Lookup, tracker
    <2>2. Fresh \in State /\ <<>> \in Seq(Event)
      <3>1. <<>> \in Seq(Event)
        BY EmptySeq
      <3>. QED
        BY <3>1, PipelineAssumption DEF Fresh, State, Statuses
    <2>3. /\ DOMAIN heap' = 1..(Len(heap) + 1)
          /\ \A p \in 1..Len(heap) : heap'[p] = heap[p] /\ history'[p] = history[p]
          /\ heap'[Len(heap) + 1] = Fresh /\ history'[Len(heap) + 1] = <<>>
      BY <1>0, <2>1, <2>2, AppendProperties, LenProperties
    <2>4. Remembers(<<>>, <<>>)
      <3>1. Len(<<>>) = 0 /\ SubSeq(<<>>, 0 + 1, 0) = <<>>
        BY EmptySeq, SubSeqEmpty
      <3>. QED
        BY <3>1, PipelineAssumption DEF Remembers
    <2>5. Fresh.events = <<>>
      BY DEF Fresh
    <2>. SUFFICES ASSUME NEW p \in DOMAIN heap'
                  PROVE  Remembers(heap'[p].events, history'[p])
      BY DEF HistoryFaithful
    <2>6. CASE p \in 1..Len(heap)
      BY <1>0, <2>3, <2>6 DEF HistoryFaithful
    <2>7. CASE p = Len(heap) + 1
      BY <2>3, <2>4, <2>5, <2>7
    <2>. QED
      BY <1>0, <2>3, <2>6, <2>7
  <1>3. ASSUME NEW w \in Workers, Record(w)
        PROVE  HistoryFaithful'
    <2>1. PICK p \in 1..Len(heap), e \in Event, t \in State :
             /\ heap' = [heap EXCEPT ![p] = t]
             /\ t.events = Kept(heap[p].events, e)
             /\ heap[p].events \in Seq(Event) /\ history[p] \in Seq(Event)
             /\ history' = [history EXCEPT ![p] = Append(history[p], e)]
      <3>. DEFINE p == job[w].st
                  e == [req |-> job[w].req, ts |-> job[w].ts]
                  k == Kept(heap[p].events, e)
                  t == [heap[p] EXCEPT !.lastSeen = job[w].ts, !.events = k]
      <3>1. /\ p \in 1..Len(heap) /\ e \in Event /\ t \in State /\ heap[p] \in State
            /\ heap' = [heap EXCEPT ![p] = t]
            /\ heap[p].events \in Seq(Event) /\ history[p] \in Seq(Event)
            /\ history' = [history EXCEPT ![p] = Append(history[p], e)]
        BY <1>3, RecordChanges
      <3>. HIDE DEF e, p, k
      <3>2. t.events = k
        BY <3>1 DEF State
      <3>. HIDE DEF t
      <3>. QED
        BY <3>1, <3>2 DEF k
    <2>2. Remembers(heap[p].events, history[p])
      BY <1>0 DEF HistoryFaithful
    <2>3. Remembers(t.events, Append(history[p], e))
      BY <2>1, <2>2, RecordRemembers
    <2>4. /\ DOMAIN heap' = 1..Len(heap) /\ heap'[p] = t
          /\ \A q \in 1..Len(heap) : q # p => heap'[q] = heap[q]
      BY <2>1, OneObject
    <2>5. /\ history'[p] = Append(history[p], e)
          /\ \A q \in 1..Len(heap) : q # p => history'[q] = history[q]
      BY <1>0, <2>1
    <2>. SUFFICES ASSUME NEW q \in 1..Len(heap)
                  PROVE  Remembers(heap'[q].events, history'[q])
      BY <2>4 DEF HistoryFaithful
    <2>6. CASE q = p
      BY <2>3, <2>4, <2>5, <2>6
    <2>7. CASE q # p
      BY <1>0, <2>4, <2>5, <2>7 DEF HistoryFaithful
    <2>. QED
      BY <2>6, <2>7
  <1>4. ASSUME NEW w \in Workers, RecordStatus(w)
        PROVE  HistoryFaithful'
    <2>1. PICK p \in 1..Len(heap), t \in State :
             /\ heap' = [heap EXCEPT ![p] = t] /\ t.events = heap[p].events
             /\ history' = history
      <3>. DEFINE p == job[w].st
                  j == job[w]
                  b == IF j.status >= 400 THEN j.req ELSE heap[p].lastBad
                  t == [heap[p] EXCEPT !.lastStatus = j.status,
                                       !.lastFrom = j.req, !.lastBad = b]
      <3>1. /\ p \in 1..Len(heap) /\ t \in State /\ heap[p] \in State
            /\ heap' = [heap EXCEPT ![p] = t] /\ history' = history
        BY <1>4, StatusChanges
      <3>. HIDE DEF b, j, p
      <3>2. t.events = heap[p].events
        BY <3>1 DEF State
      <3>. QED
        BY <3>1, <3>2
    <2>2. /\ DOMAIN heap' = 1..Len(heap) /\ heap'[p] = t
          /\ \A q \in 1..Len(heap) : q # p => heap'[q] = heap[q]
      BY <2>1, OneObject
    <2>. SUFFICES ASSUME NEW q \in 1..Len(heap)
                  PROVE  Remembers(heap'[q].events, history'[q])
      BY <2>2 DEF HistoryFaithful
    <2>. QED
      BY <1>0, <2>1, <2>2 DEF HistoryFaithful
  <1>5. ASSUME NEW w \in Workers, Handle(w), ~Lookup(w), ~Record(w),
               ~RecordStatus(w)
        PROVE  UNCHANGED <<heap, history>>
    BY <1>5 DEF Handle, Arrive, Preflight, Take, Gate, SkipTrusted, Stamp, Assess,
                Judge, Serve, FindState, tracker
  <1>6. Collect => UNCHANGED <<heap, history>>
    BY TypeCollect
  <1>7. Tick \/ UNCHANGED vars => UNCHANGED <<heap, history>>
    BY DEF Tick, vars, tracker
  <1>. QED
    BY <1>1, <1>2, <1>3, <1>4, <1>5, <1>6, <1>7 DEF Next

\* What a client's state remembers is the latest stretch of what was recorded in
\* it, whatever the order of timestamps and however requests overlap.
THEOREM HistoryIsFaithful == Spec => []HistoryFaithful
  <1>1. Spec => [](TypeInv /\ HistoryFaithful)
    BY TypeInit, TypeNext, HistoryInit, HistoryNext, PTL DEF Spec
  <1>. QED
    BY <1>1, PTL

LEMMA FailureInit == Init => FailurePair
  <1>1. heap = <<>> => DOMAIN heap = {}
    OBVIOUS
  <1>. QED
    BY <1>1 DEF Init, FailurePair

LEMMA FailureNext == TypeInv /\ FailurePair /\ [Next]_vars => FailurePair'
  <1>. SUFFICES ASSUME TypeInv, FailurePair, [Next]_vars
                PROVE  FailurePair'
    OBVIOUS
  <1>. DEFINE Pair(t) == t.lastStatus >= 400 => t.lastBad = t.lastFrom
  <1>0. DOMAIN heap = 1..Len(heap) /\ Len(heap) \in Nat /\ heap \in Seq(State)
    BY LenProperties DEF TypeInv, TrackerTypes
  <1>1. \A p \in 1..Len(heap) : Pair(heap[p])
    BY <1>0 DEF FailurePair
  <1>2. CASE UNCHANGED heap
    BY <1>2 DEF FailurePair
  <1>3. ASSUME NEW w \in Workers, Lookup(w), ~UNCHANGED heap
        PROVE  FailurePair'
    <2>1. heap' = Append(heap, Fresh)
      BY <1>3 DEF Lookup, tracker
    <2>2. Fresh \in State
      <3>1. <<>> \in Seq(Event)
        BY EmptySeq
      <3>. QED
        BY <3>1, PipelineAssumption DEF Fresh, State, Statuses
    <2>3. /\ DOMAIN heap' = 1..(Len(heap) + 1)
          /\ \A p \in 1..Len(heap) : heap'[p] = heap[p]
          /\ heap'[Len(heap) + 1] = Fresh
      BY <1>0, <2>1, <2>2, AppendProperties, LenProperties
    <2>4. Pair(Fresh)
      BY DEF Fresh
    <2>5. \A p \in 1..(Len(heap) + 1) : p \in 1..Len(heap) \/ p = Len(heap) + 1
      BY <1>0
    <2>6. \A p \in DOMAIN heap' : Pair(heap'[p])
      <3>. HIDE DEF Pair
      <3>. QED
        BY <1>1, <2>3, <2>4, <2>5
    <2>. QED
      BY <2>6 DEF FailurePair
  <1>4. ASSUME NEW p \in 1..Len(heap), NEW t \in State,
               heap' = [heap EXCEPT ![p] = t], Pair(t)
        PROVE  FailurePair'
    <2>1. /\ DOMAIN heap' = 1..Len(heap) /\ heap'[p] = t
          /\ \A q \in 1..Len(heap) : q # p => heap'[q] = heap[q]
      BY <1>4, OneObject
    <2>2. \A q \in DOMAIN heap' : Pair(heap'[q])
      <3>. HIDE DEF Pair
      <3>. QED
        BY <1>1, <1>4, <2>1
    <2>. QED
      BY <2>2 DEF FailurePair
  <1>5. ASSUME NEW w \in Workers, Record(w)
        PROVE  FailurePair'
    <2>. DEFINE p == job[w].st
                e == [req |-> job[w].req, ts |-> job[w].ts]
                k == Kept(heap[p].events, e)
                t == [heap[p] EXCEPT !.lastSeen = job[w].ts, !.events = k]
    <2>1. /\ p \in 1..Len(heap) /\ t \in State /\ heap[p] \in State
          /\ heap' = [heap EXCEPT ![p] = t]
      BY <1>5, RecordChanges
    <2>. HIDE DEF p, e, k
    <2>2. t.lastStatus = heap[p].lastStatus /\ t.lastBad = heap[p].lastBad
          /\ t.lastFrom = heap[p].lastFrom
      BY <2>1 DEF State
    <2>. HIDE DEF t
    <2>3. Pair(t)
      BY <1>1, <2>1, <2>2
    <2>. QED
      BY <1>4, <2>1, <2>3
  <1>6. ASSUME NEW w \in Workers, RecordStatus(w)
        PROVE  FailurePair'
    <2>. DEFINE p == job[w].st
                j == job[w]
                b == IF j.status >= 400 THEN j.req ELSE heap[p].lastBad
                t == [heap[p] EXCEPT !.lastStatus = j.status,
                                     !.lastFrom = j.req, !.lastBad = b]
    <2>1. /\ p \in 1..Len(heap) /\ t \in State /\ heap[p] \in State
          /\ heap' = [heap EXCEPT ![p] = t]
      BY <1>6, StatusChanges
    <2>2. j.status >= 400 => b = j.req
      OBVIOUS
    <2>. HIDE DEF p, j, b
    <2>3. t.lastStatus = j.status /\ t.lastBad = b /\ t.lastFrom = j.req
      BY <2>1 DEF State
    <2>. HIDE DEF t
    <2>4. Pair(t)
      BY <2>2, <2>3
    <2>. QED
      BY <1>4, <2>1, <2>4
  <1>7. ASSUME NEW w \in Workers, Handle(w), ~Lookup(w), ~Record(w),
               ~RecordStatus(w)
        PROVE  UNCHANGED heap
    BY <1>7 DEF Handle, Arrive, Preflight, Take, Gate, SkipTrusted, Stamp, Assess,
                Judge, Serve, FindState, tracker
  <1>8. Collect => UNCHANGED heap
    BY TypeCollect
  <1>9. Tick \/ UNCHANGED vars => UNCHANGED heap
    BY DEF Tick, vars, tracker
  <1>. QED
    BY <1>2, <1>3, <1>5, <1>6, <1>7, <1>8, <1>9 DEF Next

\* The status and the shape that scoreFailureRecovery compares come from one request.
THEOREM FailureIsOneRequest == Spec => []FailurePair
  <1>1. Spec => [](TypeInv /\ FailurePair)
    BY TypeInit, TypeNext, FailureInit, FailureNext, PTL DEF Spec
  <1>. QED
    BY <1>1, PTL
-----------------------------------------------------------------------------
(* Treatment *)

\* A worker gets to "serve" by Preflight or Judge, and stays as they left it.
LEMMA OnlyJudge ==
    ASSUME TypeInv, [Next]_vars, NEW v \in Workers, job'[v].pc = "serve"
    PROVE  mode' = mode /\ (job'[v] = job[v] \/ Preflight(v) \/ Judge(v))
  <1>1. mode' = mode
    <2>1. Collect => mode' = mode
      BY TypeCollect DEF requests
    <2>2. ASSUME NEW w \in Workers, Handle(w)
          PROVE  mode' = mode
      BY <2>2 DEF Handle, Arrive, Preflight, Take, Gate, SkipTrusted, Stamp,
                  Lookup, Record, Assess, Judge, Serve, FindState, RecordStatus,
                  requests
    <2>. QED
      BY <2>1, <2>2 DEF Next, Tick, vars, requests
  <1>2. Collect \/ Tick \/ UNCHANGED vars => job'[v] = job[v]
    BY TypeCollect DEF Tick, vars
  <1>3. ASSUME NEW w \in Workers, Handle(w), w # v
        PROVE  job'[v] = job[v]
    <2>1. Gate(w) \/ SkipTrusted(w) \/ Stamp(w) => job'[v] = job[v]
      BY <1>3 DEF Gate, SkipTrusted, Goto, Stamp, TypeInv, JobTypes
    <2>7. Arrive(w) \/ Preflight(w) => job'[v] = job[v]
      BY <1>3 DEF Arrive, Preflight, Take, TypeInv, JobTypes
    <2>2. Lookup(w) => job'[v] = job[v]
      BY <1>3 DEF Lookup, TypeInv, JobTypes
    <2>3. Record(w) => job'[v] = job[v]
      <3>1. Record(w) => job' = [job EXCEPT ![w].pc = "assess", ![w].ts = 0]
        BY DEF Record
      <3>. QED
        BY <1>3, <3>1 DEF TypeInv, JobTypes
    <2>4. Assess(w) \/ Judge(w) => job'[v] = job[v]
      BY <1>3 DEF Assess, Judge, Judged, TypeInv, JobTypes
    <2>5. Serve(w) \/ FindState(w) => job'[v] = job[v]
      BY <1>3 DEF Serve, FindState, TypeInv, JobTypes
    <2>6. RecordStatus(w) => job'[v] = job[v]
      BY <1>3 DEF RecordStatus, TypeInv, JobTypes
    <2>. QED
      BY <1>3, <2>1, <2>2, <2>3, <2>4, <2>5, <2>6, <2>7 DEF Handle
  <1>4. ASSUME Handle(v), ~Preflight(v), ~Judge(v)
        PROVE  FALSE
    <2>0. job \in [Workers -> Jobs(Len(heap))]
      BY DEF TypeInv, JobTypes
    <2>1. CASE Arrive(v)
      BY <2>0, <2>1 DEF Arrive, Take, Request
    <2>2. CASE Gate(v)
      <3>1. job[v] \in Working(Len(heap))
        BY <2>2, Forms DEF Gate, At
      <3>. QED
        BY <2>0, <2>2, <3>1 DEF Gate, Idle, Working
    <2>3. CASE SkipTrusted(v)
      <3>1. job[v] \in Working(Len(heap))
        BY <2>3, Forms DEF SkipTrusted, At
      <3>. QED
        BY <2>0, <2>3, <3>1 DEF SkipTrusted, Goto, Working
    <2>4. CASE Stamp(v)
      <3>1. job[v] \in Working(Len(heap))
        BY <2>4, Forms DEF Stamp, At
      <3>. QED
        BY <2>0, <2>4, <3>1 DEF Stamp, Working
    <2>5. CASE Lookup(v)
      <3>1. job[v] \in Working(Len(heap))
        BY <2>5, Forms DEF Lookup, At
      <3>. QED
        BY <2>0, <2>5, <3>1 DEF Lookup, Working
    <2>6. CASE Record(v)
      <3>1. job[v] \in Working(Len(heap))
        BY <2>6, Forms DEF Record, At
      <3>2. job' = [job EXCEPT ![v].pc = "assess", ![v].ts = 0]
        BY <2>6 DEF Record
      <3>. QED
        BY <2>0, <3>1, <3>2 DEF Working
    <2>7. CASE Assess(v)
      <3>1. job[v] \in Working(Len(heap))
        BY <2>7, Forms DEF Assess, At
      <3>. QED
        BY <2>0, <2>7, <3>1 DEF Assess, Working
    <2>8. CASE Serve(v)
      BY <2>0, <2>8 DEF Serve, Idle
    <2>9. CASE FindState(v)
      BY <2>0, <2>9 DEF FindState, Idle
    <2>10. CASE RecordStatus(v)
      BY <2>0, <2>10 DEF RecordStatus, Idle
    <2>. QED
      BY <1>4, <2>1, <2>2, <2>3, <2>4, <2>5, <2>6, <2>7, <2>8, <2>9, <2>10
      DEF Handle
  <1>. QED
    BY <1>1, <1>2, <1>3, <1>4 DEF Next

\* What is known of a record that Judge has just made.
JudgedWell(j) ==
    /\ j.total \in Nat /\ j.kind \in Kinds /\ j.told = j.decision
    /\ j.passed => Decide(j.total) # "tarpit"
    /\ j.decision = IF j.passed THEN "real" ELSE Decide(j.total)

LEMMA JudgeMakes ==
    ASSUME TypeInv, NEW w \in Workers, Judge(w)
    PROVE  JudgedWell(job'[w])
  <1>1. PICK k \in Kinds, pass \in BOOLEAN, d \in Decisions :
           /\ job' = [job EXCEPT ![w] =
                         [job[w] EXCEPT !.pc = "serve", !.kind = k,
                                        !.decision = d, !.passed = pass,
                                        !.told = d, !.st = 0, !.prev = 0]]
           /\ pass => Decide(job[w].total) # "tarpit"
           /\ d = IF pass THEN "real" ELSE Decide(job[w].total)
    BY JudgeChanges, Zenon
  <1>2. job[w] \in Working(Len(heap)) /\ job \in [Workers -> Jobs(Len(heap))]
    BY Forms DEF Judge, At, TypeInv, JobTypes
  <1>. DEFINE x == [job[w] EXCEPT !.pc = "serve", !.kind = k, !.decision = d,
                                  !.passed = pass, !.told = d, !.st = 0,
                                  !.prev = 0]
  <1>3. job'[w] = x
    BY <1>1, <1>2
  <1>4. /\ x.kind = k /\ x.decision = d /\ x.passed = pass /\ x.told = d
        /\ x.total = job[w].total /\ x.total \in Nat
    <2>1. job[w].total \in Nat
      <3>1. job[w].total \in Scores \cup {0}
        BY <1>2 DEF Working
      <3>2. Scores \cup {0} \subseteq Nat
        BY PipelineAssumption
      <3>. QED
        BY <3>1, <3>2
    <2>. QED
      BY <1>2, <2>1 DEF Working
  <1>. HIDE DEF x
  <1>. QED
    BY <1>1, <1>3, <1>4 DEF JudgedWell

\* A preflight was told to nobody; "preflight" is no kind that Judge gives.
Unjudged(j) == j.kind = "preflight" /\ j.decision = "none" /\ j.told = "none"

LEMMA PreflightMakes ==
    ASSUME TypeInv, NEW w \in Workers, Preflight(w)
    PROVE  Unjudged(job'[w])
  <1>1. PICK c \in Clients : job' = [job EXCEPT ![w] = Request("serve", "preflight", c)]
    BY DEF Preflight, Take
  <1>2. job'[w] = Request("serve", "preflight", c)
    BY <1>1 DEF TypeInv, JobTypes
  <1>. QED
    BY <1>2 DEF Request, Unjudged

\* The inductive invariant behind both theorems.
Settled(j) == Unjudged(j) \/ JudgedWell(j)
AllJudgedWell == \A w \in Workers : job[w].pc = "serve" => Settled(job[w])

LEMMA JudgedInit == Init => AllJudgedWell
  BY DEF Init, AllJudgedWell, Idle

LEMMA JudgedNext == TypeInv /\ AllJudgedWell /\ [Next]_vars => AllJudgedWell'
  <1>. SUFFICES ASSUME TypeInv, AllJudgedWell, [Next]_vars,
                       NEW w \in Workers, job'[w].pc = "serve"
                PROVE  Settled(job[w])'
    BY DEF AllJudgedWell
  <1>1. mode' = mode /\ (job'[w] = job[w] \/ Preflight(w) \/ Judge(w))
    BY OnlyJudge
  <1>2. Settled(job'[w])
    BY <1>1, PreflightMakes, JudgeMakes DEF AllJudgedWell, Settled
  <1>. QED
    BY <1>1, <1>2 DEF Settled, Unjudged, JudgedWell, Decide

LEMMA JudgedInvariant == Spec => [](TypeInv /\ AllJudgedWell)
  BY TypeInit, TypeNext, JudgedInit, JudgedNext, PTL DEF Spec

LEMMA TreatedIsScored == TypeInv /\ AllJudgedWell => TreatedAsScored
  <1>. SUFFICES ASSUME TypeInv, AllJudgedWell, NEW w \in Workers, At(w, "serve"),
                       Treatment(job[w].kind, job[w].decision) = "upstream",
                       job[w].kind # "preflight"
                PROVE  /\ ~TarpitTier(job[w].total)
                       /\ \/ mode = "observe" \/ job[w].total < ChallengeAt
                          \/ job[w].passed \/ ~HasChallenge
    BY DEF TreatedAsScored
  <1>. DEFINE j == job[w]
  <1>1. JudgedWell(j)
    BY DEF AllJudgedWell, Settled, Unjudged, At
  <1>2. j.kind \in {"http", "grpc", "upgrade", "h2ws"}
    BY <1>1, PipelineAssumption DEF JudgedWell
  <1>3. j.decision # "tarpit"
    BY <1>2 DEF Treatment
  <1>4. j.decision = "challenge" => ~HasChallenge
    BY <1>2 DEF Treatment
  <1>5. Decide(j.total) # "tarpit"
    BY <1>1, <1>3 DEF JudgedWell
  <1>6. ~TarpitTier(j.total)
    BY <1>5 DEF Decide, TarpitTier
  <1>7. CASE j.passed
    BY <1>6, <1>7
  <1>8. CASE ~j.passed
    <2>1. j.decision = Decide(j.total) /\ j.total \in Nat
      BY <1>1, <1>8 DEF JudgedWell
    <2>2. \/ mode = "observe" \/ j.total < ChallengeAt \/ Decide(j.total) = "challenge"
      BY <1>6, <2>1, PipelineAssumption DEF Decide, TarpitTier
    <2>. QED
      BY <1>4, <1>6, <2>1, <2>2
  <1>. QED
    BY <1>7, <1>8

\* The tarpit tier is not bypassed by a credential, and the challenge tier by nothing
\* else, in every mode and with any thresholds.
THEOREM TreatmentFollowsScore == Spec => []TreatedAsScored
  BY JudgedInvariant, TreatedIsScored, PTL

LEMMA LoggedIsTreated == TypeInv /\ AllJudgedWell => LoggedAsTreated
  <1>. SUFFICES ASSUME TypeInv, AllJudgedWell
                PROVE  LoggedAsTreated
    OBVIOUS
  <1>0. ASSUME NEW w \in Workers, At(w, "serve"), job[w].kind = "preflight"
        PROVE  job[w].told = "none"
    <2>1. ~JudgedWell(job[w])
      BY <1>0, PipelineAssumption DEF JudgedWell
    <2>. QED
      BY <1>0, <2>1 DEF AllJudgedWell, Settled, Unjudged, At
  <1>. SUFFICES ASSUME NEW w \in Workers, At(w, "serve"),
                       job[w].kind # "preflight"
                PROVE  LET o == Treatment(job[w].kind, job[w].decision)
                           t == job[w].told
                       IN
                       /\ o \in {"tarpit", "challenge"} => t = o
                       /\ o = "blocked" => t \in {"tarpit", "challenge"}
                       /\ o = "upstream" => t \in {"observe", "real"}
                                            \/ (t = "challenge" /\ ~HasChallenge)
    BY <1>0 DEF LoggedAsTreated
  <1>. DEFINE j == job[w]
  <1>1. JudgedWell(j)
    BY DEF AllJudgedWell, Settled, Unjudged, At
  <1>2. j.kind \in {"http", "grpc", "upgrade", "h2ws"} /\ j.told = j.decision
    BY <1>1, PipelineAssumption DEF JudgedWell
  <1>3. j.decision \in Decisions
    BY <1>1 DEF JudgedWell, Decide, Decisions
  <1>. HIDE DEF j
  <1>4. LET o == Treatment(j.kind, j.decision) IN
        /\ o \in {"tarpit", "challenge"} => j.decision = o
        /\ o = "blocked" => j.decision \in {"tarpit", "challenge"}
        /\ o = "upstream" => j.decision \in {"observe", "real"}
                             \/ (j.decision = "challenge" /\ ~HasChallenge)
    BY <1>2, <1>3 DEF Treatment, Decisions
  <1>. QED
    BY <1>2, <1>4 DEF j

\* The store is told the decision by which the request is treated.
THEOREM LogFollowsTreatment == Spec => []LoggedAsTreated
  BY JudgedInvariant, LoggedIsTreated, PTL
=============================================================================
