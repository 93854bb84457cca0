--------------------------- MODULE GpuStoreProofs ---------------------------
(***************************************************************************)
(* For every catalogue, capacity, routing, plan and pin list, on one compute *)
(* stream or two: what the device of GpuStore starts is always legal, a      *)
(* resident expert has its page between calls, device memory is accounted    *)
(* for, and the page of an expert that is held stays.                        *)
(***************************************************************************)
EXTENDS GpuStore, FiniteSetTheorems, SequenceTheorems, TLAPS

(* The store keeps the invariant of the cache it builds on. *)
C == INSTANCE ExpertCacheProofs WITH MayFail <- TRUE

-----------------------------------------------------------------------------
(* Cache and C are one specification. *)

LEMMA SameSets ==
  /\ \A S : Cache!Cardinality(S) = C!Cardinality(S) /\ Cardinality(S) = C!Cardinality(S)
  /\ \A S : (Cache!IsFiniteSet(S) <=> C!IsFiniteSet(S)) /\ (IsFiniteSet(S) <=> C!IsFiniteSet(S))
BY DEF Cardinality, Cache!Cardinality, C!Cardinality, IsFiniteSet, Cache!IsFiniteSet, C!IsFiniteSet

LEMMA SameSequences ==
  /\ \A s : Cache!ToSet(s) = C!ToSet(s) /\ ToSet(s) = C!ToSet(s)
  /\ \A s : Cache!SetToSeqs(s) = C!SetToSeqs(s)
  /\ \A s, i : Cache!RemoveAt(s, i) = C!RemoveAt(s, i)
  /\ \A S : Cache!Min(S) = C!Min(S) /\ Min(S) = C!Min(S)
BY SameSets DEF ToSet, Cache!ToSet, C!ToSet, Cache!RemoveAt, C!RemoveAt, Min, Cache!Min, C!Min,
  Cache!SetToSeqs, C!SetToSeqs


LEMMA SameAssumption == C!CacheAssumption
BY GpuAssumption, SameSets DEF Cache!CacheAssumption, C!CacheAssumption

LEMMA SameTier ==
  /\ Cache!Room <=> C!Room
  /\ Cache!Stuck <=> C!Stuck
  /\ Cache!Victim = C!Victim
  /\ Cache!Budget = C!Budget /\ Cache!Key = C!Key /\ Cache!Rest = C!Rest
  /\ \A e : (Cache!Held(e) <=> C!Held(e)) /\ Cache!Without(e) = C!Without(e)
<1>1. Cache!Room <=> C!Room
  BY SameSets DEF Cache!Room, C!Room
<1>2. \A e : (Cache!Held(e) <=> C!Held(e)) /\ Cache!Without(e) = C!Without(e)
  BY SameSequences DEF Cache!Held, C!Held, Cache!Without, C!Without
<1>3. Cache!Stuck <=> C!Stuck
  BY <1>1, <1>2, SameSequences DEF Cache!Stuck, C!Stuck
<1>4. Cache!Victim = C!Victim
  <2>1. {i \in DOMAIN recency : ~Cache!Held(recency[i])} = {i \in DOMAIN recency : ~C!Held(recency[i])}
    BY <1>2
  <2> QED BY <2>1, SameSequences, Zenon DEF Cache!Victim, C!Victim
<1>5. Cache!Budget = C!Budget /\ Cache!Key = C!Key /\ Cache!Rest = C!Rest
  BY DEF Cache!Budget, C!Budget, Cache!Key, C!Key, Cache!Rest, C!Rest
<1> QED BY <1>1, <1>2, <1>3, <1>4, <1>5

LEMMA SameFaultIn ==
  ASSUME NEW e
  PROVE  /\ Cache!FaultIn(e, TRUE) <=> C!FaultIn(e, TRUE)
         /\ Cache!Touch(e) <=> C!Touch(e)
<1>1. Cache!Touch(e) <=> C!Touch(e)
  BY SameTier DEF Cache!Touch, C!Touch
<1>2. Cache!FaultIn(e, TRUE) <=> C!FaultIn(e, TRUE)
  BY SameTier, SameSequences, Zenon DEF Cache!FaultIn, C!FaultIn, Cache!Load, C!Load
<1> QED BY <1>1, <1>2

LEMMA SameClient ==
  /\ \A groups : Cache!Route(groups) <=> C!Route(groups)
  /\ \A plan : Cache!RoutedDone(plan) <=> C!RoutedDone(plan)
  /\ \A hot : Cache!PinStart(hot) <=> C!PinStart(hot)
  /\ \A b : Cache!Compute(b) <=> C!Compute(b)
  /\ Cache!PredictDone <=> C!PredictDone
  /\ Cache!LayerDone <=> C!LayerDone
  /\ Cache!PinsDone <=> C!PinsDone
<1>0. Cache!storeVars = C!storeVars /\ (Cache!storeVars)' = (C!storeVars)'
  BY DEF Cache!storeVars, C!storeVars
<1>1. \A groups : Cache!Route(groups) <=> C!Route(groups)
  <2>1. \A groups : Cache!Keys(groups) = C!Keys(groups)
    BY SameSequences DEF Cache!Keys, C!Keys
  <2> QED BY <1>0, <2>1, SameSets DEF Cache!Route, C!Route
<1>2. \A plan : Cache!RoutedDone(plan) <=> C!RoutedDone(plan)
  BY <1>0 DEF Cache!RoutedDone, C!RoutedDone
<1>3. \A hot : Cache!PinStart(hot) <=> C!PinStart(hot)
  BY SameTier DEF Cache!PinStart, C!PinStart
<1>4. \A b : Cache!Compute(b) <=> C!Compute(b)
  BY SameTier DEF Cache!Compute, C!Compute
<1>5. Cache!PredictDone <=> C!PredictDone
  BY <1>0, SameSequences, Zenon DEF Cache!PredictDone, C!PredictDone
<1>6. Cache!LayerDone <=> C!LayerDone
  BY <1>0 DEF Cache!LayerDone, C!LayerDone
<1>7. Cache!PinsDone <=> C!PinsDone
  BY <1>0, SameTier, SameSets DEF Cache!PinsDone, C!PinsDone
<1> QED BY <1>1, <1>2, <1>3, <1>4, <1>5, <1>6, <1>7

LEMMA SameEvict ==
  ASSUME NEW e PROVE Cache!Evict(e) <=> C!Evict(e)
BY SameTier DEF Cache!Evict, C!Evict

LEMMA SameInit == Cache!Init <=> C!Init
BY DEF Cache!Init, C!Init

LEMMA SameTypes == Cache!TypeOK <=> C!TypeOK
BY SameSets DEF Cache!TypeOK, C!TypeOK


-----------------------------------------------------------------------------
(* Sequences. *)

LEMMA Parts ==
  ASSUME NEW S, NEW s \in Seq(S), s # <<>>
  PROVE  /\ Len(s) \in Nat \ {0} /\ DOMAIN s = 1 .. Len(s)
         /\ Head(s) = s[1] /\ Head(s) \in S
         /\ Tail(s) \in Seq(S) /\ DOMAIN Tail(s) = 1 .. Len(s) - 1 /\ Len(Tail(s)) = Len(s) - 1
         /\ \A i \in 1 .. Len(s) - 1 : Tail(s)[i] = s[i + 1]
         /\ ToSet(s) = {Head(s)} \cup ToSet(Tail(s))
<1>1. Len(s) \in Nat \ {0} /\ DOMAIN s = 1 .. Len(s) /\ \A i \in 1 .. Len(s) : s[i] \in S
  BY EmptySeq, LenProperties, ElementOfSeq
<1>2. /\ Head(s) = s[1] /\ Head(s) \in S /\ Tail(s) \in Seq(S) /\ Len(Tail(s)) = Len(s) - 1
      /\ DOMAIN Tail(s) = 1 .. Len(s) - 1
      /\ \A i \in 1 .. Len(s) - 1 : Tail(s)[i] = s[i + 1]
  BY <1>1, HeadTailProperties, LenProperties
<1>3. ToSet(s) = {Head(s)} \cup ToSet(Tail(s))
  <2>1. ASSUME NEW i \in 1 .. Len(s) PROVE i = 1 \/ (i - 1 \in 1 .. Len(s) - 1 /\ Tail(s)[i - 1] = s[i])
    BY <1>1, <1>2
  <2>2. ASSUME NEW i \in 1 .. Len(s) - 1 PROVE i + 1 \in 1 .. Len(s) /\ Tail(s)[i] = s[i + 1]
    BY <1>1, <1>2
  <2>3. 1 \in 1 .. Len(s)
    BY <1>1
  <2>4. ToSet(s) \subseteq {Head(s)} \cup ToSet(Tail(s))
    <3> SUFFICES ASSUME NEW i \in 1 .. Len(s) PROVE s[i] \in {Head(s)} \cup ToSet(Tail(s))
      BY <1>1 DEF ToSet
    <3> QED BY <1>2, <2>1 DEF ToSet
  <2>5. {Head(s)} \cup ToSet(Tail(s)) \subseteq ToSet(s)
    BY <1>1, <1>2, <2>2, <2>3 DEF ToSet
  <2> QED BY <2>4, <2>5
<1> QED BY <1>1, <1>2, <1>3

LEMMA Joined ==
  ASSUME NEW S, NEW s \in Seq(S), NEW t \in Seq(S)
  PROVE  /\ s \o t \in Seq(S) /\ Len(s) \in Nat /\ Len(t) \in Nat /\ DOMAIN s = 1 .. Len(s)
         /\ Len(s \o t) = Len(s) + Len(t) /\ DOMAIN (s \o t) = 1 .. Len(s) + Len(t)
         /\ \A i \in 1 .. Len(s) : (s \o t)[i] = s[i]
         /\ \A i \in 1 .. Len(t) : (s \o t)[Len(s) + i] = t[i]
         /\ ToSet(s \o t) = ToSet(s) \cup ToSet(t)
<1>1. Len(s) \in Nat /\ Len(t) \in Nat /\ DOMAIN s = 1 .. Len(s) /\ DOMAIN t = 1 .. Len(t)
  BY LenProperties
<1>2. /\ s \o t \in Seq(S) /\ Len(s \o t) = Len(s) + Len(t)
      /\ \A i \in 1 .. Len(s) + Len(t) : (s \o t)[i] = IF i <= Len(s) THEN s[i] ELSE t[i - Len(s)]
  BY ConcatProperties
<1>3. DOMAIN (s \o t) = 1 .. Len(s) + Len(t)
  BY <1>2, LenProperties
<1>4. ASSUME NEW i \in 1 .. Len(s) PROVE (s \o t)[i] = s[i] /\ i \in 1 .. Len(s) + Len(t)
  BY <1>1, <1>2
<1>5. ASSUME NEW i \in 1 .. Len(t) PROVE (s \o t)[Len(s) + i] = t[i] /\ Len(s) + i \in 1 .. Len(s) + Len(t)
  <2>1. /\ Len(s) + i \in 1 .. Len(s) + Len(t) /\ ~(Len(s) + i <= Len(s))
        /\ (Len(s) + i) - Len(s) = i
    BY <1>1
  <2> QED BY <1>2, <2>1
<1>6. ASSUME NEW i \in 1 .. Len(s) + Len(t), i \notin 1 .. Len(s)
      PROVE  \E j \in 1 .. Len(t) : i = Len(s) + j
  <2>1. PICK m \in Nat, n \in Nat : m = Len(s) /\ n = Len(t)
    BY <1>1
  <2>2. i \in 1 .. m + n /\ i \notin 1 .. m
    BY <1>6, <2>1
  <2>3. i - m \in 1 .. n /\ i = m + (i - m)
    BY <2>2
  <2> QED BY <2>1, <2>3
<1>7. ToSet(s \o t) = ToSet(s) \cup ToSet(t)
  <2>1. ToSet(s \o t) \subseteq ToSet(s) \cup ToSet(t)
    <3> SUFFICES ASSUME NEW i \in 1 .. Len(s) + Len(t) PROVE (s \o t)[i] \in ToSet(s) \cup ToSet(t)
      BY <1>3 DEF ToSet
    <3>1. CASE i \in 1 .. Len(s)
      BY <1>1, <1>4, <3>1 DEF ToSet
    <3>2. CASE i \notin 1 .. Len(s)
      BY <1>1, <1>5, <1>6, <3>2 DEF ToSet
    <3> QED BY <3>1, <3>2
  <2>2. ToSet(s) \cup ToSet(t) \subseteq ToSet(s \o t)
    BY <1>1, <1>3, <1>4, <1>5 DEF ToSet
  <2> QED BY <2>1, <2>2
<1> QED BY <1>1, <1>2, <1>3, <1>4, <1>5, <1>7

LEMMA Listing ==
  ASSUME NEW S
  PROVE  /\ <<>> \in Seq(S) /\ Len(<<>>) = 0 /\ ToSet(<<>>) = {}
         /\ \A a \in S : <<a>> \in Seq(S) /\ Len(<<a>>) = 1 /\ <<a>>[1] = a /\ ToSet(<<a>>) = {a}
         /\ \A a, b \in S : /\ <<a, b>> \in Seq(S) /\ Len(<<a, b>>) = 2
                            /\ <<a, b>>[1] = a /\ <<a, b>>[2] = b /\ ToSet(<<a, b>>) = {a, b}
         /\ \A a, b, c \in S : /\ <<a, b, c>> \in Seq(S) /\ Len(<<a, b, c>>) = 3
                               /\ <<a, b, c>>[1] = a /\ <<a, b, c>>[2] = b /\ <<a, b, c>>[3] = c
                               /\ ToSet(<<a, b, c>>) = {a, b, c}
<1>1. /\ <<>> \in Seq(S) /\ Len(<<>>) = 0
      /\ \A a \in S : <<a>> \in Seq(S) /\ Len(<<a>>) = 1 /\ <<a>>[1] = a
      /\ \A a, b \in S : <<a, b>> \in Seq(S) /\ Len(<<a, b>>) = 2 /\ <<a, b>>[1] = a /\ <<a, b>>[2] = b
      /\ \A a, b, c \in S : /\ <<a, b, c>> \in Seq(S) /\ Len(<<a, b, c>>) = 3
                            /\ <<a, b, c>>[1] = a /\ <<a, b, c>>[2] = b /\ <<a, b, c>>[3] = c
  OBVIOUS
<1>2. ToSet(<<>>) = {}
  BY DEF ToSet
<1>3. ASSUME NEW a PROVE ToSet(<<a>>) = {a}
  BY DEF ToSet
<1>4. ASSUME NEW a, NEW b PROVE ToSet(<<a, b>>) = {a, b}
  <2>1. DOMAIN <<a, b>> = {1, 2}
    OBVIOUS
  <2> QED BY <2>1 DEF ToSet
<1>5. ASSUME NEW a, NEW b, NEW c PROVE ToSet(<<a, b, c>>) = {a, b, c}
  <2>1. DOMAIN <<a, b, c>> = {1, 2, 3}
    OBVIOUS
  <2> QED BY <2>1 DEF ToSet
<1> QED BY <1>1, <1>2, <1>3, <1>4, <1>5

LEMMA StepsOf ==
  ASSUME NEW e
  PROVE  /\ \A a : Steps(<<a>>, e) = <<Step(a, e)>>
         /\ \A a, b : Steps(<<a, b>>, e) = <<Step(a, e), Step(b, e)>>
         /\ \A a, b, c : Steps(<<a, b, c>>, e) = <<Step(a, e), Step(b, e), Step(c, e)>>
         /\ \A a, b, c, d : Steps(<<a, b, c, d>>, e) = <<Step(a, e), Step(b, e), Step(c, e), Step(d, e)>>
BY DEF Steps


-----------------------------------------------------------------------------
(* The invariant. *)

StepType == [do : Dos, key : Catalog \cup Unknown]
OpType   == [op : Ops, page : Page]

Typed ==
  /\ victim \subseteq Catalog /\ (\A v, w \in victim : v = w) /\ lost \subseteq Catalog
  /\ pages \in [DOMAIN pages -> Page] /\ DOMAIN pages \subseteq Catalog
  /\ evicting \in [DOMAIN evicting -> Page] /\ DOMAIN evicting \subseteq Catalog
  /\ pending \subseteq DOMAIN pages /\ graphs \subseteq Range(pages)
  /\ compute \in ComputeStreams
  /\ call \in Seq(StepType)
  /\ q \in [Streams -> Seq(OpType)]
  /\ busy \subseteq {s \in Streams : q[s] # <<>>}
  /\ live \subseteq Page /\ IsFiniteSet(live)

Copy == q["copy"]

(* What the copy stream has still to do. *)
In(op, p) == \E i \in DOMAIN Copy : Copy[i].op = op /\ Copy[i].page = p

(* The pages the store counts on, the one it is giving up, and those whose free
   is on its way. *)
Dropping == {evicting[call[i].key] : i \in {j \in DOMAIN call : call[j].do = "free"}}
Kept     == Range(pages) \cup Dropping
Leaving  == {Copy[i].page : i \in {j \in DOMAIN Copy :
                                     Copy[j].op = "free" /\ ~(j = 1 /\ "copy" \in busy)}}
Owned    == Kept \cup Leaving

Fills == {"alloc", "h2d", "recordReady"}

(* The operation at place i has its page's next one behind it. *)
Then(i, op) == i + 1 \in DOMAIN Copy /\ Copy[i + 1].op = op /\ Copy[i + 1].page = Copy[i].page

(* The copy stream fills a page in order, once, before it frees it. *)
CopyOK ==
  /\ \A i, j \in DOMAIN Copy : Copy[i].op = Copy[j].op /\ Copy[i].page = Copy[j].page => i = j
  /\ \A i \in DOMAIN Copy :
       /\ Copy[i].op \in Fills \cup {"waitDrained", "free"}
       /\ Copy[i].op = "alloc" => Then(i, "h2d")
       /\ Copy[i].op = "h2d" => Then(i, "recordReady")
       /\ Copy[i].op = "waitDrained" => Then(i, "free")
       /\ Copy[i].op \in Fills =>
            /\ Copy[i].page \in Owned
            /\ \A j \in DOMAIN Copy : Copy[j].op = "free" /\ Copy[j].page = Copy[i].page => i < j

(* What is on the device is what the copy stream has done. *)
MemoryOK ==
  /\ filled \subseteq live /\ live \subseteq Owned
  /\ \A p \in Owned : (p \in live <=> ~In("alloc", p)) /\ (p \in filled <=> ~In("h2d", p))
  /\ \A p \in Kept : ~In("free", p)

(* Kernels are queued on pages that are there; a wait that is over stays so. *)
ReadersOK ==
  \A s \in ComputeStreams :
    /\ \A i \in DOMAIN q[s] :
         /\ q[s][i].op \in {"waitReady", "kernel", "recordDrained"}
         /\ q[s][i].op = "kernel" => q[s][i].page \in Kept \cap filled
    /\ s \in busy /\ Head(q[s]).op = "waitReady" => ~In("recordReady", Head(q[s]).page)

Device == CopyOK /\ MemoryOK /\ ReadersOK

(* A page whose event has been given away has arrived, or the call waits for the
   stream that waits for it. *)
Waited(k) ==
  \/ pages[k] \in filled
  \/ /\ call # <<>> /\ Head(call) = Step("syncCompute", k)
     /\ \E i \in DOMAIN q[compute] : q[compute][i].op = "waitReady" /\ q[compute][i].page = pages[k]

PagesOK ==
  /\ \A k, m \in DOMAIN pages : pages[k] = pages[m] => k = m
  /\ graphs \subseteq filled
  /\ \A k \in DOMAIN pages \ pending : Waited(k)
  /\ Dropping \cap Range(pages) = {}

(* Pages follow the cache: a key without one gets it before the call is over, and
   the page of a key that has left is to be given up. *)
PlacesOK ==
  /\ DOMAIN pages \subseteq resident \cup victim \cup lost
  /\ victim \cap resident = {}
  /\ \A k \in resident \ DOMAIN pages :
       \E i \in DOMAIN call : call[i].do \in {"ensure", "fill"} /\ call[i].key = k

(* What a call still has to do fits its place in the call and the state. *)
FaultOK(i) ==
  call[i].do = "fault" =>
    /\ pc \in {"prefetch", "predict", "pins"}
    /\ \E j \in DOMAIN call : j > i /\ call[j].do = "ensure" /\ call[j].key = call[i].key

FillOK(i) ==
  call[i].do = "fill" =>
    /\ call[i].key \in resident \ DOMAIN pages
    /\ \A j \in DOMAIN call : j < i => call[j].do \in {"waitCompute", "free"}

FreeOK(i) ==
  call[i].do = "free" =>
    /\ call[i].key \in DOMAIN evicting
    /\ \/ i = 1 /\ \A s \in ComputeStreams : q[s] = <<>>
       \/ i = 2 /\ call[1].do = "waitCompute"

UseOK(i) ==
  /\ call[i].do \in {"gemm", "launch", "lease"} =>
       /\ pc = "experts" /\ queue # <<>> /\ call[i].key = Key /\ call[i].key \in resident
       /\ \A j \in DOMAIN call : j > i => call[i].do # "lease" /\ call[j].do = "lease"
  /\ call[i].do = "launch" => call[i].key \in DOMAIN pages \ pending

SettledOK(i) ==
  call[i].do = "settled" =>
    \/ i = 1 /\ (call[i].key \in DOMAIN pages => pages[call[i].key] \in filled)
    \/ i = 2 /\ call[1].do = "syncCopy"

PinOK(i) ==
  call[i].do = "pin" =>
    /\ pc = "pins" /\ i = Len(call) /\ Cardinality(pinned) < Cache!Budget
    /\ call[i].key \in Catalog
    /\ \/ call[i].key \in resident
       \/ \E j \in DOMAIN call : j < i /\ call[j].do = "fault" /\ call[j].key = call[i].key
    /\ \A j \in DOMAIN call : call[j].do = "fault" => call[j].key = call[i].key

StepOK(i) == FaultOK(i) /\ FillOK(i) /\ FreeOK(i) /\ UseOK(i) /\ SettledOK(i) /\ PinOK(i)

CallShape ==
  /\ call # <<>> => pc \in {"idle", "prefetch", "predict", "experts", "pins"}
  /\ \A i \in DOMAIN call : StepOK(i)

GpuInv == C!IInv /\ Typed /\ Device /\ PagesOK /\ PlacesOK /\ CallShape


-----------------------------------------------------------------------------
(* What the types say of the queues. *)

LEMMA QueueTypes ==
  ASSUME Typed
  PROVE  /\ Copy \in Seq(OpType) /\ \A s \in Streams : q[s] \in Seq(OpType)
         /\ "copy" \in Streams /\ ComputeStreams \subseteq Streams /\ "copy" \notin ComputeStreams
         /\ compute \in ComputeStreams /\ Streams = {"copy"} \cup ComputeStreams
         /\ DOMAIN q = Streams
         /\ \A s \in Streams : /\ DOMAIN q[s] = 1 .. Len(q[s]) /\ Len(q[s]) \in Nat
                               /\ \A i \in DOMAIN q[s] : q[s][i] \in OpType
         /\ \A s \in busy : s \in Streams /\ q[s] # <<>>
<1>1. "copy" \notin ComputeStreams
  BY GpuAssumption
<1>2. \A s \in Streams : q[s] \in Seq(OpType)
  BY DEF Typed
<1>3. \A s \in Streams : /\ DOMAIN q[s] = 1 .. Len(q[s]) /\ Len(q[s]) \in Nat
                         /\ \A i \in DOMAIN q[s] : q[s][i] \in OpType
  BY <1>2, LenProperties, ElementOfSeq
<1> QED BY <1>1, <1>2, <1>3 DEF Typed, Copy, Streams

LEMMA CallTypes ==
  ASSUME Typed
  PROVE  /\ DOMAIN call = 1 .. Len(call) /\ Len(call) \in Nat
         /\ \A i \in DOMAIN call : call[i] \in StepType
         /\ call # <<>> => /\ 1 \in DOMAIN call /\ Head(call) = call[1] /\ K = call[1].key
                           /\ K \in Catalog \cup Unknown /\ Head(call).do \in Dos
<1>1. /\ DOMAIN call = 1 .. Len(call) /\ Len(call) \in Nat
      /\ \A i \in DOMAIN call : call[i] \in StepType
  BY LenProperties, ElementOfSeq DEF Typed
<1>2. ASSUME call # <<>> PROVE 1 \in DOMAIN call /\ Head(call) = call[1]
  BY <1>1, <1>2, Parts DEF Typed
<1> QED BY <1>1, <1>2 DEF StepType, K

(* An event of a fill is recorded on the copy stream only. *)
LEMMA ReadyOnCopy ==
  ASSUME Typed, ReadersOK, NEW p
  PROVE  Queued("recordReady", p) <=> In("recordReady", p)
<1>1. ASSUME NEW s \in Streams, NEW i \in DOMAIN q[s], q[s][i] = Op("recordReady", p)
      PROVE  In("recordReady", p)
  <2>1. s = "copy"
    BY <1>1, QueueTypes DEF ReadersOK, Op
  <2> QED BY <1>1, <2>1 DEF In, Copy, Op
<1>2. ASSUME NEW i \in DOMAIN Copy, Copy[i].op = "recordReady", Copy[i].page = p
      PROVE  Copy[i] = Op("recordReady", p)
  BY <1>2, QueueTypes DEF OpType, Op, Copy
<1> QED BY <1>1, <1>2, QueueTypes DEF Queued, In, ToSet, Copy

(* A page whose fill is over has arrived. *)
LEMMA ArrivedFilled ==
  ASSUME CopyOK, MemoryOK, NEW p \in Owned, ~In("recordReady", p)
  PROVE  p \in filled
<1>1. ~In("h2d", p)
  BY DEF CopyOK, In, Then
<1> QED BY <1>1 DEF MemoryOK

(* With the copy stream idle everything has arrived. *)
LEMMA CopyIdle ==
  ASSUME Typed, MemoryOK, Copy = <<>>, NEW p \in Owned
  PROVE  p \in filled
<1>1. DOMAIN Copy = {}
  OBVIOUS
<1> QED BY <1>1 DEF MemoryOK, In

(* The step being done, and the ones behind it. *)
LEMMA FreeFirst ==
  ASSUME Typed, CallShape, call # <<>>, Head(call).do \notin {"waitCompute", "free"}
  PROVE  Dropping = {} /\ \A i \in DOMAIN call : call[i].do \notin {"free", "fill"} \/ call[1].do = "fill"
<1>1. 1 \in DOMAIN call /\ Head(call) = call[1] /\ DOMAIN call = 1 .. Len(call)
  BY CallTypes
<1>2. ASSUME NEW i \in DOMAIN call PROVE call[i].do # "free"
  BY <1>1 DEF CallShape, StepOK, FreeOK
<1>3. ASSUME NEW i \in DOMAIN call, call[i].do = "fill" PROVE call[1].do = "fill"
  <2>1. CASE i = 1
    BY <1>3, <2>1
  <2>2. CASE i # 1
    <3>1. 1 < i
      BY <1>1, <2>2, CallTypes
    <3> QED BY <1>1, <1>3, <3>1 DEF CallShape, StepOK, FillOK
  <2> QED BY <2>1, <2>2
<1> QED BY <1>2, <1>3 DEF Dropping

LEMMA NoDropping ==
  ASSUME call = <<>> PROVE Dropping = {}
<1>1. DOMAIN call = {}
  OBVIOUS
<1> QED BY <1>1 DEF Dropping


-----------------------------------------------------------------------------
(* The device. *)

(* A step of the host that queues nothing and keeps the same pages. *)
LEMMA DeviceKept ==
  ASSUME Device, UNCHANGED <<q, deviceVars>>, Kept' = Kept
  PROVE  Device'
<1>1. /\ Copy' = Copy /\ busy' = busy /\ live' = live /\ filled' = filled
      /\ Leaving' = Leaving /\ Owned' = Owned /\ \A op, p : In(op, p)' <=> In(op, p)
  BY DEF deviceVars, Copy, Leaving, Owned, In
<1>2. CopyOK' /\ MemoryOK'
  BY <1>1 DEF Device, CopyOK, MemoryOK, Then
<1>3. ReadersOK'
  BY <1>1 DEF Device, ReadersOK
<1> QED BY <1>2, <1>3 DEF Device

(* The page of the free that starts now. *)
LEMMA StartFree ==
  ASSUME Typed, Device, Copy # <<>>, "copy" \notin busy, Head(Copy).op = "free",
         UNCHANGED <<pages, evicting, call, q>>, busy' = busy \cup {"copy"}
  PROVE  /\ Head(Copy).page \notin Kept /\ Kept' = Kept
         /\ Owned' = Owned \ {Head(Copy).page}
         /\ \A i \in DOMAIN Copy : Copy[i].op \in Fills => Copy[i].page # Head(Copy).page
<1>1. /\ 1 \in DOMAIN Copy /\ Head(Copy) = Copy[1] /\ DOMAIN Copy = 1 .. Len(Copy) /\ Len(Copy) \in Nat
  BY QueueTypes, Parts
<1>2. Kept' = Kept /\ Copy' = Copy
  BY DEF Kept, Dropping, Copy
<1>3. Head(Copy).page \notin Kept
  BY <1>1 DEF Device, MemoryOK, In
<1>4. ASSUME NEW i \in DOMAIN Copy, Copy[i].op \in Fills, Copy[i].page = Head(Copy).page PROVE FALSE
  BY <1>1, <1>4 DEF Device, CopyOK
<1>5. Leaving' = Leaving \ {Head(Copy).page}
  <2>1. ASSUME NEW i \in DOMAIN Copy, Copy[i].op = "free", i # 1 PROVE Copy[i].page # Copy[1].page
    BY <1>1, <2>1 DEF Device, CopyOK
  <2>2. Leaving = {Copy[i].page : i \in {j \in DOMAIN Copy : Copy[j].op = "free"}}
    BY DEF Leaving
  <2>3. Leaving' = {Copy[i].page : i \in {j \in DOMAIN Copy : Copy[j].op = "free" /\ ~(j = 1)}}
    BY <1>2 DEF Leaving
  <2> QED BY <1>1, <2>1, <2>2, <2>3
<1> QED BY <1>2, <1>3, <1>4, <1>5 DEF Owned

(* Any other start leaves the pages as they are. *)
LEMMA StartOther ==
  ASSUME Typed, NEW s \in Streams, q[s] # <<>>, ~(s = "copy" /\ Head(Copy).op = "free"),
         UNCHANGED <<pages, evicting, call, q>>, busy' = busy \cup {s}
  PROVE  Kept' = Kept /\ Owned' = Owned
<1>1. Kept' = Kept /\ Copy' = Copy
  BY DEF Kept, Dropping, Copy
<1>2. s = "copy" => Copy # <<>> /\ Head(Copy) = Copy[1]
  BY QueueTypes, Parts DEF Copy
<1>3. \A j \in DOMAIN Copy : Copy[j].op = "free" /\ ~(j = 1 /\ "copy" \in busy')
                               <=> Copy[j].op = "free" /\ ~(j = 1 /\ "copy" \in busy)
  BY <1>2
<1>4. Leaving' = Leaving
  BY <1>1, <1>3 DEF Leaving
<1> QED BY <1>1, <1>4 DEF Owned

LEMMA StartDevice ==
  ASSUME Typed, Device, NEW s \in Streams, Start(s)
  PROVE  Device'
<1>1. /\ s \notin busy /\ q[s] # <<>> /\ Ready(Head(q[s])) /\ busy' = busy \cup {s}
      /\ live'   = IF Head(q[s]).op = "free" THEN live \ {Head(q[s]).page} ELSE live
      /\ filled' = IF Head(q[s]).op = "free" THEN filled \ {Head(q[s]).page} ELSE filled
      /\ UNCHANGED <<pages, evicting, call, q, compute>>
  BY DEF Start, Startable, pageVars
<1>2. Copy' = Copy /\ \A op, p : In(op, p)' <=> In(op, p)
  BY <1>1 DEF Copy, In
<1>3. Head(q[s]).op = "free" => s = "copy" /\ Head(Copy).op = "free" /\ Copy # <<>>
  <2>1. Head(q[s]) = q[s][1] /\ 1 \in DOMAIN q[s]
    BY <1>1, QueueTypes, Parts
  <2> QED BY <1>1, <2>1, QueueTypes DEF Device, ReadersOK, Copy
<1>4. ASSUME NEW t \in ComputeStreams, t \in busy', Head(q[t]).op = "waitReady"
      PROVE  ~In("recordReady", Head(q[t]).page)
  <2>1. CASE t \in busy
    BY <1>4, <2>1 DEF Device, ReadersOK
  <2>2. CASE t = s
    BY <1>1, <1>4, <2>2, ReadyOnCopy DEF Ready, Device
  <2> QED BY <1>1, <1>4, <2>1, <2>2
<1>5. CASE Head(q[s]).op = "free"
  <2> DEFINE p == Head(Copy).page
  <2>1. /\ s = "copy" /\ p \notin Kept /\ Kept' = Kept /\ Owned' = Owned \ {p}
        /\ \A i \in DOMAIN Copy : Copy[i].op \in Fills => Copy[i].page # p
    BY <1>1, <1>3, <1>5, StartFree
  <2>2. live' = live \ {p} /\ filled' = filled \ {p}
    BY <1>1, <1>5, <2>1 DEF Copy
  <2> HIDE DEF p
  <2>3. CopyOK'
    BY <1>2, <2>1 DEF Device, CopyOK, Then
  <2>4. MemoryOK'
    BY <1>2, <2>1, <2>2 DEF Device, MemoryOK, Owned
  <2>5. ReadersOK'
    BY <1>1, <1>2, <1>4, <2>1, <2>2 DEF Device, ReadersOK
  <2> QED BY <2>3, <2>4, <2>5 DEF Device
<1>6. CASE Head(q[s]).op # "free"
  <2>1. Kept' = Kept /\ Owned' = Owned
    BY <1>1, <1>6, StartOther DEF Copy
  <2>2. live' = live /\ filled' = filled
    BY <1>1, <1>6
  <2>3. CopyOK' /\ MemoryOK'
    BY <1>2, <2>1, <2>2 DEF Device, CopyOK, Then, MemoryOK
  <2>4. ReadersOK'
    BY <1>1, <1>2, <1>4, <2>1, <2>2 DEF Device, ReadersOK
  <2> QED BY <2>3, <2>4 DEF Device
<1> QED BY <1>5, <1>6


(* An operation of the copy stream ends. *)
LEMMA FinishCopy ==
  ASSUME Typed, CopyOK, MemoryOK, Copy # <<>>, "copy" \in busy, "copy" \notin busy',
         Copy' = Tail(Copy), Kept' = Kept,
         live' = live \cup (IF Head(Copy).op = "alloc" THEN {Head(Copy).page} ELSE {}),
         filled' = filled \cup (IF Head(Copy).op = "h2d" THEN {Head(Copy).page} ELSE {})
  PROVE  CopyOK' /\ MemoryOK' /\ (\A op, p : In(op, p)' => In(op, p))
<1> DEFINE c == Copy
           n == Len(Copy)
           o == Head(Copy)
<1>1. /\ n \in Nat \ {0} /\ DOMAIN c = 1 .. n /\ o = c[1] /\ Copy' = Tail(Copy)
      /\ DOMAIN Tail(Copy) = 1 .. n - 1 /\ \A i \in 1 .. n - 1 : Tail(Copy)[i] = c[i + 1]
  BY QueueTypes, Parts
<1>2. /\ \A i \in 1 .. n - 1 : i + 1 \in 1 .. n /\ i + 1 # 1
      /\ \A i \in 1 .. n : i # 1 => i - 1 \in 1 .. n - 1 /\ (i - 1) + 1 = i
      /\ 1 \in 1 .. n
  BY <1>1
<1>o. PICK a, r : a = o.op /\ r = o.page
  OBVIOUS
<1>3. \A op, p : In(op, p) <=> \/ In(op, p)'
                               \/ o.op = op /\ o.page = p
  <2> SUFFICES ASSUME NEW op, NEW p PROVE In(op, p) <=> (In(op, p)' \/ (o.op = op /\ o.page = p))
    OBVIOUS
  <2>1. ASSUME In(op, p)' PROVE In(op, p)
    <3>1. PICK i \in 1 .. n - 1 : Tail(Copy)[i].op = op /\ Tail(Copy)[i].page = p
      BY <1>1, <2>1 DEF In
    <3> QED BY <1>1, <1>2, <3>1 DEF In
  <2>2. ASSUME In(op, p), ~(o.op = op /\ o.page = p) PROVE In(op, p)'
    <3>1. PICK i \in 1 .. n : Copy[i].op = op /\ Copy[i].page = p
      BY <1>1, <2>2 DEF In
    <3>2. i # 1
      BY <1>1, <2>2, <3>1
    <3>3. i - 1 \in 1 .. n - 1 /\ Tail(Copy)[i - 1] = Copy[i]
      BY <1>1, <1>2, <3>2
    <3> QED BY <1>1, <3>1, <3>3 DEF In
  <2>3. ASSUME o.op = op, o.page = p PROVE In(op, p)
    BY <1>1, <1>2, <2>3 DEF In
  <2> QED BY <2>1, <2>2, <2>3
<1>4. ASSUME In(a, r)' PROVE FALSE
  <2>1. PICK i \in 1 .. n - 1 : Tail(Copy)[i].op = a /\ Tail(Copy)[i].page = r
    BY <1>1, <1>4 DEF In
  <2>2. i + 1 \in DOMAIN Copy /\ 1 \in DOMAIN Copy /\ Copy[i + 1].op = Copy[1].op
        /\ Copy[i + 1].page = Copy[1].page /\ i + 1 # 1
    BY <1>1, <1>2, <1>o, <2>1
  <2> QED BY <2>2 DEF CopyOK
<1>5. Owned' = Owned
  <2>1. Leaving = {p \in {Copy[i].page : i \in DOMAIN Copy} : \E i \in 2 .. n : Copy[i].op = "free" /\ Copy[i].page = p}
    <3>1. \A j \in DOMAIN Copy : ~(j = 1 /\ "copy" \in busy) <=> j \in 2 .. n
      BY <1>1
    <3>2. \A j \in 2 .. n : j \in DOMAIN Copy
      BY <1>1
    <3> QED BY <3>1, <3>2 DEF Leaving
  <2>2. ASSUME NEW p PROVE p \in Leaving' <=> \E i \in 1 .. n - 1 : Copy[i + 1].op = "free" /\ Copy[i + 1].page = p
    <3>1. p \in Leaving' <=> \E i \in DOMAIN Copy' : Copy'[i].op = "free" /\ Copy'[i].page = p
      BY DEF Leaving
    <3> QED BY <1>1, <3>1
  <2>3. ASSUME NEW p PROVE p \in Leaving <=> p \in Leaving'
    <3>1. ASSUME NEW i \in 2 .. n PROVE i - 1 \in 1 .. n - 1 /\ (i - 1) + 1 = i
      BY <1>1
    <3>2. ASSUME NEW i \in 1 .. n - 1 PROVE i + 1 \in 2 .. n /\ i + 1 \in DOMAIN Copy
      BY <1>1
    <3>3. ASSUME p \in Leaving PROVE p \in Leaving'
      <4>1. PICK i \in 2 .. n : Copy[i].op = "free" /\ Copy[i].page = p
        BY <2>1, <3>3
      <4> QED BY <2>2, <3>1, <4>1
    <3>4. ASSUME p \in Leaving' PROVE p \in Leaving
      <4>1. PICK i \in 1 .. n - 1 : Copy[i + 1].op = "free" /\ Copy[i + 1].page = p
        BY <2>2, <3>4
      <4> QED BY <2>1, <3>2, <4>1
    <3> QED BY <3>3, <3>4
  <2> QED BY <2>3 DEF Owned
<1>6. MemoryOK'
  <2>1. ASSUME NEW p \in Owned PROVE (p \in live' <=> ~In("alloc", p)') /\ (p \in filled' <=> ~In("h2d", p)')
    <3>1. (In("alloc", p) <=> In("alloc", p)' \/ (a = "alloc" /\ r = p))
          /\ (In("h2d", p) <=> In("h2d", p)' \/ (a = "h2d" /\ r = p))
      BY <1>3, <1>o
    <3>2. (a = "alloc" /\ r = p => ~In("alloc", p)') /\ (a = "h2d" /\ r = p => ~In("h2d", p)')
      BY <1>4
    <3>3. (p \in live' <=> p \in live \/ (a = "alloc" /\ r = p))
          /\ (p \in filled' <=> p \in filled \/ (a = "h2d" /\ r = p))
      BY <1>o
    <3> QED BY <3>1, <3>2, <3>3 DEF MemoryOK
  <2>2. o.op \in Fills => o.page \in Owned
    BY <1>1, <1>2 DEF CopyOK
  <2>3. live' \subseteq Owned
    BY <2>2 DEF MemoryOK, Fills
  <2>4. o.op = "h2d" => ~In("alloc", o.page)
    <3> SUFFICES ASSUME o.op = "h2d", NEW i \in DOMAIN Copy, Copy[i].op = "alloc", Copy[i].page = o.page
                 PROVE  FALSE
      BY DEF In
    <3>1. i + 1 \in DOMAIN Copy /\ Copy[i + 1].op = "h2d" /\ Copy[i + 1].page = o.page
      BY DEF CopyOK, Then
    <3>2. i + 1 = 1
      BY <1>1, <1>2, <3>1 DEF CopyOK
    <3> QED BY <1>1, <3>2
  <2>5. filled' \subseteq live'
    BY <2>2, <2>4 DEF MemoryOK, Fills
  <2>6. ASSUME NEW p \in Kept' PROVE ~In("free", p)'
    BY <1>3 DEF MemoryOK
  <2> QED BY <1>5, <2>1, <2>3, <2>5, <2>6 DEF MemoryOK
<1>7. CopyOK'
  <2>1. \A i \in 1 .. n - 1 : Copy'[i] = Copy[i + 1] /\ i + 1 \in DOMAIN Copy
    BY <1>1, <1>2
  <2>2. DOMAIN Copy' = 1 .. n - 1
    BY <1>1
  <2>3. ASSUME NEW i \in 1 .. n - 1, NEW j \in 1 .. n - 1, i + 1 = j + 1 PROVE i = j
    BY <1>1, <2>3
  <2>4. ASSUME NEW i \in 1 .. n - 1, NEW op, Then(i + 1, op)
        PROVE  i + 1 \in DOMAIN Copy' /\ Copy'[i + 1].op = op /\ Copy'[i + 1].page = Copy'[i].page
    <3>1. (i + 1) + 1 \in 1 .. n
      BY <1>1, <2>4 DEF Then
    <3>2. i + 1 \in 1 .. n - 1
      BY <1>1, <3>1
    <3> QED BY <2>1, <2>2, <2>4, <3>2 DEF Then
  <2>5. ASSUME NEW i \in 1 .. n - 1, NEW j \in 1 .. n - 1, i + 1 < j + 1 PROVE i < j
    BY <1>1, <2>5
  <2>6. \A i, j \in 1 .. n - 1 : Copy'[i].op = Copy'[j].op /\ Copy'[i].page = Copy'[j].page => i = j
    BY <2>1, <2>3 DEF CopyOK
  <2>7. ASSUME NEW i \in 1 .. n - 1
        PROVE  /\ Copy'[i].op \in Fills \cup {"waitDrained", "free"}
               /\ Copy'[i].op \in Fills =>
                    /\ Copy'[i].page \in Owned'
                    /\ \A j \in 1 .. n - 1 : Copy'[j].op = "free" /\ Copy'[j].page = Copy'[i].page => i < j
    BY <1>5, <2>1, <2>5 DEF CopyOK
  <2>8. ASSUME NEW i \in 1 .. n - 1
        PROVE  /\ Copy'[i].op = "alloc" => i + 1 \in DOMAIN Copy' /\ Copy'[i + 1].op = "h2d"
                                           /\ Copy'[i + 1].page = Copy'[i].page
               /\ Copy'[i].op = "h2d" => i + 1 \in DOMAIN Copy' /\ Copy'[i + 1].op = "recordReady"
                                         /\ Copy'[i + 1].page = Copy'[i].page
               /\ Copy'[i].op = "waitDrained" => i + 1 \in DOMAIN Copy' /\ Copy'[i + 1].op = "free"
                                                 /\ Copy'[i + 1].page = Copy'[i].page
    <3>1. /\ Copy'[i].op = "alloc" => Then(i + 1, "h2d")
          /\ Copy'[i].op = "h2d" => Then(i + 1, "recordReady")
          /\ Copy'[i].op = "waitDrained" => Then(i + 1, "free")
      BY <2>1 DEF CopyOK
    <3> QED BY <2>4, <3>1
  <2> HIDE DEF n, c, o
  <2>9. (\A i, j \in DOMAIN Copy : Copy[i].op = Copy[j].op /\ Copy[i].page = Copy[j].page => i = j)'
    BY <2>2, <2>6
  <2>10. (\A i \in DOMAIN Copy : Copy[i].op \in Fills \cup {"waitDrained", "free"})'
    BY <2>2, <2>7 DEF Fills
  <2>11. (\A i \in DOMAIN Copy : Copy[i].op \in Fills =>
            /\ Copy[i].page \in Owned
            /\ \A j \in DOMAIN Copy : Copy[j].op = "free" /\ Copy[j].page = Copy[i].page => i < j)'
    <3>1. \A i \in DOMAIN Copy' : Copy'[i].op \in Fills => Copy'[i].page \in Owned'
      BY <2>2, <2>7
    <3>2. \A i, j \in DOMAIN Copy' : Copy'[i].op \in Fills /\ Copy'[j].op = "free"
                                     /\ Copy'[j].page = Copy'[i].page => i < j
      BY <2>2, <2>7
    <3> QED BY <3>1, <3>2, Zenon DEF Fills
  <2>12. (\A i \in DOMAIN Copy : /\ Copy[i].op = "alloc" => Then(i, "h2d")
                                 /\ Copy[i].op = "h2d" => Then(i, "recordReady")
                                 /\ Copy[i].op = "waitDrained" => Then(i, "free"))'
    BY <2>2, <2>8 DEF Then
  <2> QED BY <2>9, <2>10, <2>11, <2>12 DEF CopyOK
<1> QED BY <1>3, <1>6, <1>7

(* What finishes takes the first operation off some queues. *)
LEMMA FinishQueues ==
  ASSUME Typed, NEW S \in SUBSET Streams, Finish(S), NEW s \in Streams
  PROVE  /\ q'[s] = IF s \in S THEN Tail(q[s]) ELSE q[s]
         /\ \A i \in DOMAIN q'[s] : \E j \in DOMAIN q[s] : q'[s][i] = q[s][j]
         /\ s \in S => q[s] # <<>> /\ s \in busy
         /\ q'[s] \in Seq(OpType)
<1>1. q'[s] = IF s \in S THEN Tail(q[s]) ELSE q[s]
  BY DEF Finish
<1>2. s \in S => q[s] # <<>> /\ s \in busy
  BY QueueTypes DEF Finish
<1>3. CASE s \in S
  <2>1. /\ Len(q[s]) \in Nat /\ DOMAIN q[s] = 1 .. Len(q[s]) /\ DOMAIN Tail(q[s]) = 1 .. Len(q[s]) - 1
        /\ \A i \in 1 .. Len(q[s]) - 1 : Tail(q[s])[i] = q[s][i + 1]
        /\ Tail(q[s]) \in Seq(OpType)
    BY <1>2, <1>3, QueueTypes, Parts
  <2>2. \A i \in 1 .. Len(q[s]) - 1 : i + 1 \in 1 .. Len(q[s])
    BY <2>1
  <2> QED BY <1>1, <1>2, <1>3, <2>1, <2>2
<1>4. CASE s \notin S
  BY <1>1, <1>4, QueueTypes
<1> QED BY <1>1, <1>2, <1>3, <1>4


LEMMA FinishMemory ==
  ASSUME Typed, ReadersOK, NEW S \in SUBSET Streams, Finish(S)
  PROVE  /\ live' = live \cup (IF "copy" \in S /\ Head(Copy).op = "alloc" THEN {Head(Copy).page} ELSE {})
         /\ filled' = filled \cup (IF "copy" \in S /\ Head(Copy).op = "h2d" THEN {Head(Copy).page} ELSE {})
<1> DEFINE over(op) == {Head(q[s]).page : s \in {t \in S : Head(q[t]).op = op}}
<1>1. live' = live \cup over("alloc") /\ filled' = filled \cup over("h2d")
  BY DEF Finish
<1>2. ASSUME NEW t \in S, Head(q[t]).op \in {"alloc", "h2d"} PROVE t = "copy"
  <2>1. q[t] # <<>> /\ t \in Streams
    BY FinishQueues
  <2>2. Head(q[t]) = q[t][1] /\ 1 \in DOMAIN q[t]
    BY <2>1, QueueTypes, Parts
  <2> QED BY <1>2, <2>1, <2>2, QueueTypes DEF ReadersOK
<1>3. over("alloc") = IF "copy" \in S /\ Head(Copy).op = "alloc" THEN {Head(Copy).page} ELSE {}
  BY <1>2 DEF Copy
<1>4. over("h2d") = IF "copy" \in S /\ Head(Copy).op = "h2d" THEN {Head(Copy).page} ELSE {}
  BY <1>2 DEF Copy
<1> QED BY <1>1, <1>3, <1>4

LEMMA FinishDevice ==
  ASSUME Typed, Device, NEW S \in SUBSET Streams, Finish(S)
  PROVE  Device' /\ Kept' = Kept /\ (\A op, p : In(op, p)' => In(op, p))
<1>1. /\ busy' = busy \ S /\ S \subseteq busy
      /\ UNCHANGED <<pages, evicting, call, compute>>
  BY DEF Finish, pageVars
<1>2. Kept' = Kept
  BY <1>1 DEF Kept, Dropping
<1>3. /\ live' = live \cup (IF "copy" \in S /\ Head(Copy).op = "alloc" THEN {Head(Copy).page} ELSE {})
      /\ filled' = filled \cup (IF "copy" \in S /\ Head(Copy).op = "h2d" THEN {Head(Copy).page} ELSE {})
  BY FinishMemory DEF Device
<1>4. CopyOK' /\ MemoryOK' /\ (\A op, p : In(op, p)' => In(op, p))
  <2>1. CASE "copy" \in S
    <3>1. Copy' = Tail(Copy) /\ Copy # <<>> /\ "copy" \in busy /\ "copy" \notin busy'
      BY <1>1, <2>1, FinishQueues, QueueTypes DEF Copy
    <3>2. /\ live' = live \cup (IF Head(Copy).op = "alloc" THEN {Head(Copy).page} ELSE {})
          /\ filled' = filled \cup (IF Head(Copy).op = "h2d" THEN {Head(Copy).page} ELSE {})
      BY <1>3, <2>1
    <3> QED BY <1>2, <3>1, <3>2, FinishCopy DEF Device
  <2>2. CASE "copy" \notin S
    <3>1. Copy' = Copy /\ ("copy" \in busy' <=> "copy" \in busy) /\ live' = live /\ filled' = filled
      BY <1>1, <1>3, <2>2, FinishQueues, QueueTypes DEF Copy
    <3>2. Leaving' = Leaving /\ Owned' = Owned /\ \A op, p : In(op, p)' <=> In(op, p)
      BY <1>2, <3>1 DEF Leaving, Owned, In
    <3> QED BY <1>2, <3>1, <3>2 DEF Device, CopyOK, MemoryOK, Then
  <2> QED BY <2>1, <2>2
<1>5. filled \subseteq filled'
  BY <1>3
<1>6. ReadersOK'
  <2> SUFFICES ASSUME NEW s \in ComputeStreams
               PROVE  /\ \A i \in DOMAIN q'[s] :
                           /\ q'[s][i].op \in {"waitReady", "kernel", "recordDrained"}
                           /\ q'[s][i].op = "kernel" => q'[s][i].page \in Kept' \cap filled'
                      /\ s \in busy' /\ Head(q'[s]).op = "waitReady" =>
                           \A p : p = Head(q'[s]).page => ~In("recordReady", p)'
    BY DEF ReadersOK
  <2>0. s \in Streams
    BY QueueTypes
  <2>1. ASSUME NEW i \in DOMAIN q'[s]
        PROVE  /\ q'[s][i].op \in {"waitReady", "kernel", "recordDrained"}
               /\ q'[s][i].op = "kernel" => q'[s][i].page \in Kept' \cap filled'
    <3>1. PICK j \in DOMAIN q[s] : q'[s][i] = q[s][j]
      BY <2>0, FinishQueues
    <3> QED BY <1>2, <1>5, <3>1 DEF Device, ReadersOK
  <2>2. ASSUME s \in busy', Head(q'[s]).op = "waitReady", NEW p, p = Head(q'[s]).page
        PROVE  ~In("recordReady", p)'
    <3>1. s \in busy /\ q'[s] = q[s]
      BY <1>1, <2>0, <2>2, FinishQueues
    <3>2. ~In("recordReady", p)
      BY <2>2, <3>1 DEF Device, ReadersOK
    <3> QED BY <1>4, <3>2
  <2> QED BY <2>1, <2>2
<1> QED BY <1>2, <1>4, <1>6 DEF Device

(* The device leaves the calls of the host alone. *)
LEMMA DeviceTyped ==
  ASSUME Typed, Device,
         \/ \E s \in Streams : Start(s)
         \/ \E S \in SUBSET Streams : Finish(S)
  PROVE  Typed'
<1>1. CASE \E s \in Streams : Start(s)
  <2>1. PICK s \in Streams : Start(s)
    BY <1>1
  <2>2. q[s] # <<>> /\ busy' = busy \cup {s} /\ UNCHANGED <<victim, lost, pageVars, compute, call, q>>
        /\ live' \subseteq live
    BY <2>1 DEF Start, Startable, victimVars
  <2>3. IsFiniteSet(live')
    BY <2>2, FS_Subset DEF Typed
  <2> QED BY <2>2, <2>3 DEF Typed, pageVars
<1>2. CASE \E S \in SUBSET Streams : Finish(S)
  <2>1. PICK S \in SUBSET Streams : Finish(S)
    BY <1>2
  <2>2. /\ busy' = busy \ S /\ UNCHANGED <<victim, lost, pageVars, compute, call>>
        /\ q' = [s \in Streams |-> IF s \in S THEN Tail(q[s]) ELSE q[s]]
    BY <2>1 DEF Finish, victimVars
  <2>3. \A s \in Streams : q'[s] \in Seq(OpType) /\ (s \notin S => q'[s] = q[s])
    BY <2>1, FinishQueues
  <2>4. q' \in [Streams -> Seq(OpType)]
    BY <2>2, <2>3
  <2>5. live' \subseteq Page /\ IsFiniteSet(live')
    <3>1. live' = live \/ ("copy" \in S /\ live' = live \cup {Head(Copy).page})
      BY <2>1, FinishMemory DEF Device
    <3>2. ASSUME "copy" \in S PROVE Head(Copy).page \in Page
      <4>1. Copy # <<>> /\ Copy \in Seq(OpType)
        BY <2>1, <3>2, FinishQueues, QueueTypes DEF Copy
      <4>2. Head(Copy) \in OpType
        BY <4>1, Parts
      <4> QED BY <4>2 DEF OpType
    <3>3. live \subseteq Page /\ IsFiniteSet(live)
      BY DEF Typed
    <3>4. IsFiniteSet(live \cup {Head(Copy).page})
      BY <3>3, FS_AddElement
    <3> QED BY <3>1, <3>2, <3>3, <3>4
  <2>6. busy' \subseteq {s \in Streams : q'[s] # <<>>}
    BY <2>2, <2>3 DEF Typed
  <2> QED BY <2>2, <2>4, <2>5, <2>6 DEF Typed, pageVars
<1> QED BY <1>1, <1>2


LEMMA CacheStill ==
  ASSUME C!IInv, UNCHANGED <<cacheVars, clientVars>> PROVE C!IInv'
<1>1. UNCHANGED C!vars
  BY DEF cacheVars, clientVars, C!vars, C!storeVars
<1> QED BY <1>1, SameAssumption, C!NextInv

(* Pages the store counts on lose nothing while the device runs. *)
LEMMA DeviceKeeps ==
  ASSUME Typed, Device,
         \/ \E s \in Streams : Start(s)
         \/ \E S \in SUBSET Streams : Finish(S)
  PROVE  filled \cap Kept \subseteq filled'
<1>1. CASE \E s \in Streams : Start(s)
  <2>1. PICK s \in Streams : Start(s)
    BY <1>1
  <2>2. /\ s \notin busy /\ q[s] # <<>> /\ busy' = busy \cup {s}
        /\ filled' = IF Head(q[s]).op = "free" THEN filled \ {Head(q[s]).page} ELSE filled
    BY <2>1 DEF Start, Startable
  <2>3. CASE Head(q[s]).op = "free"
    <3>1. Head(q[s]) = q[s][1] /\ 1 \in DOMAIN q[s]
      BY <2>2, QueueTypes, Parts
    <3>2. s = "copy"
      BY <2>3, <3>1, QueueTypes DEF Device, ReadersOK
    <3>3. In("free", Head(q[s]).page)
      BY <2>3, <3>1, <3>2 DEF In, Copy
    <3> QED BY <2>2, <3>3 DEF Device, MemoryOK
  <2> QED BY <2>2, <2>3
<1>2. CASE \E S \in SUBSET Streams : Finish(S)
  BY <1>2, FinishMemory DEF Device
<1> QED BY <1>1, <1>2

LEMMA DevicePages ==
  ASSUME Typed, Device, PagesOK,
         \/ \E s \in Streams : Start(s)
         \/ \E S \in SUBSET Streams : Finish(S)
  PROVE  PagesOK'
<1>1. UNCHANGED <<pages, pending, evicting, graphs, call, compute>>
  BY DEF Start, Finish, pageVars
<1>2. filled \cap Kept \subseteq filled' /\ Range(pages) \subseteq Kept
  BY DeviceKeeps DEF Kept
<1>3. graphs \subseteq filled'
  BY <1>2 DEF PagesOK, Typed
<1>4. ASSUME NEW m \in DOMAIN pages \ pending PROVE Waited(m)'
  <2>0. pages[m] \in Kept /\ pages[m] \in Owned
    BY DEF Kept, Owned, Range
  <2>1. CASE pages[m] \in filled
    BY <1>1, <1>2, <2>0, <2>1 DEF Waited
  <2>2. CASE pages[m] \notin filled
    <3>1. PICK i \in DOMAIN q[compute] : q[compute][i].op = "waitReady" /\ q[compute][i].page = pages[m]
      BY <2>2 DEF PagesOK, Waited
    <3>2. call # <<>> /\ Head(call) = Step("syncCompute", m)
      BY <2>2 DEF PagesOK, Waited
    <3>3. CASE \E s \in Streams : Start(s)
      BY <1>1, <3>1, <3>2, <3>3 DEF Waited, Start
    <3>4. CASE \E S \in SUBSET Streams : Finish(S)
      <4>1. PICK S \in SUBSET Streams : Finish(S)
        BY <3>4
      <4>2. compute \in Streams /\ q[compute] \in Seq(OpType) /\ compute \in ComputeStreams
        BY QueueTypes
      <4>3. CASE compute \notin S
        <5>1. q'[compute] = q[compute]
          BY <4>1, <4>2, <4>3, FinishQueues
        <5> QED BY <1>1, <3>1, <3>2, <5>1 DEF Waited
      <4>4. CASE compute \in S /\ i = 1
        <5>1. compute \in busy /\ Head(q[compute]) = q[compute][1]
          BY <4>1, <4>2, <4>4, FinishQueues, Parts
        <5>2. ~In("recordReady", pages[m])
          BY <3>1, <4>2, <4>4, <5>1 DEF Device, ReadersOK
        <5> QED BY <2>0, <2>2, <5>2, ArrivedFilled DEF Device
      <4>5. CASE compute \in S /\ i # 1
        <5>1. /\ q'[compute] = Tail(q[compute]) /\ q[compute] # <<>>
              /\ DOMAIN Tail(q[compute]) = 1 .. Len(q[compute]) - 1
              /\ \A j \in 1 .. Len(q[compute]) - 1 : Tail(q[compute])[j] = q[compute][j + 1]
              /\ Len(q[compute]) \in Nat /\ i \in 1 .. Len(q[compute])
          BY <4>1, <4>2, <4>5, FinishQueues, Parts
        <5>2. i - 1 \in 1 .. Len(q[compute]) - 1 /\ (i - 1) + 1 = i
          BY <4>5, <5>1
        <5>3. i - 1 \in DOMAIN q'[compute] /\ q'[compute][i - 1] = q[compute][i]
          BY <5>1, <5>2
        <5> QED BY <1>1, <3>1, <3>2, <5>3 DEF Waited
      <4> QED BY <4>3, <4>4, <4>5
    <3> QED BY <3>3, <3>4
  <2> QED BY <2>1, <2>2
<1>5. Dropping' = Dropping
  BY <1>1 DEF Dropping
<1> QED BY <1>1, <1>3, <1>4, <1>5 DEF PagesOK

LEMMA DeviceInv ==
  ASSUME GpuInv,
         \/ \E s \in Streams : Start(s)
         \/ \E S \in SUBSET Streams : Finish(S)
  PROVE  GpuInv'
<1> USE DEF GpuInv
<1>1. UNCHANGED <<cacheVars, clientVars, victimVars, pageVars, call, compute>>
  BY DEF Start, Finish
<1>2. C!IInv' /\ Typed' /\ PagesOK'
  BY <1>1, CacheStill, DeviceTyped, DevicePages
<1>3. Device'
  BY StartDevice, FinishDevice
<1>4. PlacesOK'
  BY <1>1 DEF PlacesOK, cacheVars, victimVars, pageVars
<1>5. \A k \in DOMAIN pages : pages[k] \in filled => pages[k] \in filled'
  BY DeviceKeeps DEF Kept, Range
<1>6. (\A s \in ComputeStreams : q[s] = <<>>) => \A s \in ComputeStreams : q'[s] = <<>>
  <2>1. ASSUME NEW S \in SUBSET Streams, Finish(S), NEW s \in ComputeStreams, q[s] = <<>>
        PROVE  q'[s] = <<>>
    BY <2>1, FinishQueues, QueueTypes
  <2> QED BY <2>1 DEF Start
<1>7. CallShape'
  <2>1. ASSUME NEW i \in DOMAIN call PROVE StepOK(i)'
    <3>1. StepOK(i)
      BY DEF CallShape
    <3>2. FreeOK(i)' /\ SettledOK(i)'
      BY <1>1, <1>5, <1>6, <3>1 DEF StepOK, FreeOK, SettledOK, pageVars
    <3>3. FaultOK(i)' /\ FillOK(i)' /\ PinOK(i)'
      BY <1>1, <3>1 DEF StepOK, FaultOK, FillOK, PinOK, pageVars, cacheVars, clientVars, Cache!Budget
    <3>4. UseOK(i)'
      BY <1>1, <3>1 DEF StepOK, UseOK, pageVars, cacheVars, clientVars, Key, Cache!Key
    <3> QED BY <3>2, <3>3, <3>4 DEF StepOK
  <2> QED BY <1>1, <2>1 DEF CallShape, clientVars
<1> QED BY <1>2, <1>3, <1>4, <1>7


-----------------------------------------------------------------------------
(* The steps of a call.  A step is replaced by the ones of pre; the steps behind
   it keep what they need. *)

LEMMA Reshape ==
  ASSUME Typed, CallShape, call # <<>>,
         NEW pre \in Seq(StepType), call' = pre \o Tail(call),
         \A i \in DOMAIN pre : pre[i].do # "fault",
         Head(call).do = "waitCompute" =>
           /\ \A s \in ComputeStreams : q'[s] = <<>>
           /\ DOMAIN evicting' = DOMAIN evicting,
         Head(call).do = "syncCopy" => pre = <<>> /\ \A k \in DOMAIN pages' : pages'[k] \in filled',
         UNCHANGED <<pc, queue, pinned>>,
         \/ resident' = resident /\ Head(call).do # "fault"
         \/ Head(call).do = "fault" /\ (K \in Catalog => K \in resident'),
         Head(call).do \in {"waitCompute", "free"} => pre = <<>> /\ DOMAIN pages' = DOMAIN pages,
         \A k \in resident : k \in DOMAIN pages \ pending => k \in DOMAIN pages' \ pending',
         \A i \in DOMAIN pre : StepOK(i)'
  PROVE  CallShape'
<1>1. PICK n \in Nat, l \in Nat \ {0} : n = Len(pre) /\ l = Len(call)
  BY Parts, LenProperties DEF Typed
<1>2. /\ DOMAIN call = 1 .. l /\ DOMAIN pre = 1 .. n
      /\ Len(call') = n + (l - 1) /\ DOMAIN call' = 1 .. n + (l - 1)
      /\ \A i \in 1 .. n : call'[i] = pre[i]
      /\ \A m \in 1 .. l - 1 : call'[n + m] = call[m + 1]
      /\ Head(call) = call[1] /\ K = call[1].key
  <2>1. /\ Tail(call) \in Seq(StepType) /\ Len(Tail(call)) = l - 1 /\ DOMAIN call = 1 .. l
        /\ \A m \in 1 .. l - 1 : Tail(call)[m] = call[m + 1]
        /\ Head(call) = call[1]
    BY <1>1, Parts DEF Typed
  <2>2. DOMAIN pre = 1 .. n
    BY <1>1, LenProperties
  <2>3. /\ Len(call') = n + (l - 1) /\ DOMAIN call' = 1 .. n + (l - 1)
        /\ \A i \in 1 .. n : call'[i] = pre[i]
        /\ \A m \in 1 .. l - 1 : call'[n + m] = Tail(call)[m]
    BY <1>1, <2>1, Joined
  <2> QED BY <2>1, <2>2, <2>3 DEF K
<1>3. /\ \A i \in 1 .. n + (l - 1) : i \in 1 .. n \/ \E m \in 1 .. l - 1 : i = n + m
      /\ \A m \in 1 .. l - 1 : /\ n + m \in 1 .. n + (l - 1) /\ m + 1 \in 1 .. l
                               /\ m + 1 # 1 /\ 1 < m + 1 /\ 1 \in 1 .. l
  <2>1. ASSUME NEW i \in 1 .. n + (l - 1), i \notin 1 .. n PROVE i - n \in 1 .. l - 1 /\ i = n + (i - n)
    BY <2>1
  <2> QED BY <2>1
<1>4. ASSUME NEW m \in 1 .. l - 1 PROVE StepOK(n + m)'
  <2>0. /\ StepOK(m + 1) /\ StepOK(1) /\ call'[n + m] = call[m + 1]
        /\ n + m \in 1 .. n + (l - 1) /\ m + 1 \in 1 .. l
    BY <1>2, <1>3 DEF CallShape
  <2>1. FaultOK(n + m)'
    <3> SUFFICES ASSUME call[m + 1].do = "fault"
                 PROVE  /\ pc \in {"prefetch", "predict", "pins"}
                        /\ \E j \in DOMAIN call' : /\ j > n + m /\ call'[j].do = "ensure"
                                                   /\ call'[j].key = call[m + 1].key
      BY <2>0 DEF FaultOK
    <3>1. PICK j \in 1 .. l : j > m + 1 /\ call[j].do = "ensure" /\ call[j].key = call[m + 1].key
      BY <1>2, <2>0 DEF StepOK, FaultOK
    <3>2. j - 1 \in 1 .. l - 1 /\ n + (j - 1) > n + m /\ (j - 1) + 1 = j
      BY <3>1
    <3>3. n + (j - 1) \in DOMAIN call' /\ call'[n + (j - 1)] = call[j]
      BY <1>2, <1>3, <3>2
    <3> QED BY <2>0, <3>1, <3>2, <3>3 DEF StepOK, FaultOK
  <2>2. FillOK(n + m)'
    <3> SUFFICES ASSUME call[m + 1].do = "fill"
                 PROVE  /\ call[m + 1].key \in resident' \ DOMAIN pages'
                        /\ \A j \in DOMAIN call' : j < n + m => call'[j].do \in {"waitCompute", "free"}
      BY <2>0 DEF FillOK
    <3>1. /\ call[m + 1].key \in resident \ DOMAIN pages
          /\ \A j \in 1 .. l : j < m + 1 => call[j].do \in {"waitCompute", "free"}
      BY <1>2, <2>0 DEF StepOK, FillOK
    <3>2. call[1].do \in {"waitCompute", "free"}
      BY <1>2, <1>3, <3>1
    <3>3. pre = <<>> /\ resident' = resident /\ DOMAIN pages' = DOMAIN pages
      BY <1>2, <3>2
    <3>4. n = 0
      BY <1>1, <3>3
    <3>5. ASSUME NEW j \in DOMAIN call', j < n + m PROVE call'[j].do \in {"waitCompute", "free"}
      <4>1. j \in 1 .. l - 1 /\ j + 1 \in 1 .. l /\ j + 1 < m + 1 /\ n + j = j
        BY <1>2, <3>4, <3>5
      <4>2. call'[j] = call[j + 1]
        BY <1>2, <4>1
      <4> QED BY <3>1, <4>1, <4>2
    <3> QED BY <3>1, <3>3, <3>5
  <2>3. FreeOK(n + m)'
    <3> SUFFICES ASSUME call[m + 1].do = "free"
                 PROVE  /\ call[m + 1].key \in DOMAIN evicting'
                        /\ n + m = 1 /\ \A s \in ComputeStreams : q'[s] = <<>>
      BY <2>0 DEF FreeOK
    <3>1. m + 1 = 2 /\ call[1].do = "waitCompute" /\ call[m + 1].key \in DOMAIN evicting
      BY <1>3, <2>0 DEF StepOK, FreeOK
    <3>2. n = 0
      BY <1>1, <1>2, <3>1
    <3> QED BY <1>2, <3>1, <3>2
  <2>6. SettledOK(n + m)'
    <3> SUFFICES ASSUME call[m + 1].do = "settled"
                 PROVE  n + m = 1 /\ (call[m + 1].key \in DOMAIN pages' => pages'[call[m + 1].key] \in filled')
      BY <2>0 DEF SettledOK
    <3>1. m + 1 = 2 /\ call[1].do = "syncCopy"
      BY <1>3, <2>0 DEF StepOK, SettledOK
    <3>2. n = 0
      BY <1>1, <1>2, <3>1
    <3> QED BY <1>2, <3>1, <3>2
  <2>4. UseOK(n + m)'
    <3>1. CASE call[m + 1].do \in {"gemm", "launch", "lease"}
      <4>1. /\ pc = "experts" /\ queue # <<>> /\ call[m + 1].key = Key /\ call[m + 1].key \in resident
            /\ \A j \in 1 .. l : j > m + 1 => call[m + 1].do # "lease" /\ call[j].do = "lease"
            /\ call[m + 1].do = "launch" => call[m + 1].key \in DOMAIN pages \ pending
        BY <1>2, <2>0, <3>1 DEF StepOK, UseOK
      <4>2. resident' = resident
        BY <1>2, <2>0, <4>1 DEF StepOK, FaultOK
      <4>3. Key' = Key
        BY DEF Key, Cache!Key
      <4>4. ASSUME NEW j \in DOMAIN call', j > n + m PROVE call[m + 1].do # "lease" /\ call'[j].do = "lease"
        <5>1. j - n \in 1 .. l - 1 /\ n + (j - n) = j /\ (j - n) + 1 \in 1 .. l /\ (j - n) + 1 > m + 1
          BY <1>2, <4>4
        <5>2. call'[j] = call[(j - n) + 1]
          BY <1>2, <5>1
        <5> QED BY <4>1, <5>1, <5>2
      <4>5. call[m + 1].do = "launch" => call[m + 1].key \in DOMAIN pages' \ pending'
        BY <4>1
      <4> QED BY <2>0, <4>1, <4>2, <4>3, <4>4, <4>5 DEF UseOK
    <3>2. CASE call[m + 1].do \notin {"gemm", "launch", "lease"}
      BY <2>0, <3>2 DEF UseOK
    <3> QED BY <3>1, <3>2
  <2>5. PinOK(n + m)'
    <3> SUFFICES ASSUME call[m + 1].do = "pin"
                 PROVE  /\ pc = "pins" /\ n + m = Len(call') /\ Cardinality(pinned) < Cache!Budget
                        /\ call[m + 1].key \in Catalog
                        /\ \/ call[m + 1].key \in resident'
                           \/ \E j \in DOMAIN call' : j < n + m /\ call'[j].do = "fault" /\ call'[j].key = call[m + 1].key
                        /\ \A j \in DOMAIN call' : call'[j].do = "fault" => call'[j].key = call[m + 1].key
      BY <2>0 DEF PinOK, Cache!Budget
    <3>1. /\ pc = "pins" /\ m + 1 = l /\ Cardinality(pinned) < Cache!Budget
          /\ call[m + 1].key \in Catalog
          /\ \/ call[m + 1].key \in resident
             \/ \E j \in DOMAIN call : j < m + 1 /\ call[j].do = "fault" /\ call[j].key = call[m + 1].key
          /\ \A j \in DOMAIN call : call[j].do = "fault" => call[j].key = call[m + 1].key
      BY <1>1, <2>0 DEF StepOK, PinOK
    <3>2. n + m = Len(call')
      <4>1. m = l - 1
        BY <3>1
      <4> QED BY <1>2, <4>1
    <3>3. ASSUME NEW j \in DOMAIN call', call'[j].do = "fault" PROVE call'[j].key = call[m + 1].key
      <4>1. j \notin 1 .. n
        BY <1>2, <3>3
      <4>2. PICK r \in 1 .. l - 1 : j = n + r
        BY <1>2, <1>3, <4>1
      <4>3. call'[j] = call[r + 1] /\ r + 1 \in DOMAIN call
        BY <1>2, <1>3, <4>2
      <4> QED BY <3>1, <3>3, <4>3
    <3>4. CASE Head(call).do = "fault"
      BY <1>2, <1>3, <3>1, <3>2, <3>3, <3>4
    <3>5. CASE Head(call).do # "fault"
      <4>1. CASE call[m + 1].key \in resident
        BY <3>1, <3>2, <3>3, <3>5, <4>1
      <4>2. CASE \E j \in DOMAIN call : j < m + 1 /\ call[j].do = "fault" /\ call[j].key = call[m + 1].key
        <5>1. PICK j \in 1 .. l : j < m + 1 /\ call[j].do = "fault" /\ call[j].key = call[m + 1].key
          BY <1>2, <4>2
        <5>2. j # 1
          BY <1>2, <3>5, <5>1
        <5>3. j - 1 \in 1 .. l - 1 /\ (j - 1) + 1 = j /\ n + (j - 1) < n + m
          BY <5>1, <5>2
        <5>4. n + (j - 1) \in DOMAIN call' /\ call'[n + (j - 1)] = call[j]
          BY <1>2, <1>3, <5>3
        <5> QED BY <3>1, <3>2, <3>3, <5>1, <5>3, <5>4
      <4> QED BY <3>1, <4>1, <4>2
    <3> QED BY <3>4, <3>5
  <2> QED BY <2>1, <2>2, <2>3, <2>4, <2>5, <2>6 DEF StepOK
<1>5. ASSUME NEW i \in DOMAIN call' PROVE StepOK(i)'
  <2>1. CASE i \in 1 .. n
    BY <1>2, <2>1
  <2>2. CASE i \notin 1 .. n
    <3>1. PICK m \in 1 .. l - 1 : i = n + m
      BY <1>2, <1>3, <2>2
    <3> QED BY <1>4, <3>1
  <2> QED BY <2>1, <2>2
<1>6. pc' \in {"idle", "prefetch", "predict", "experts", "pins"}
  BY DEF CallShape
<1> QED BY <1>5, <1>6 DEF CallShape


LEMMA Replaced ==
  ASSUME Typed, call # <<>>, NEW pre \in Seq(StepType), call' = pre \o Tail(call)
  PROVE  /\ call' \in Seq(StepType)
         /\ \A i \in DOMAIN call : i # 1 => \E j \in DOMAIN call' : call'[j] = call[i]
         /\ \A i \in DOMAIN pre : i \in DOMAIN call' /\ call'[i] = pre[i]
         /\ \A j \in DOMAIN call' : \/ j \in DOMAIN pre /\ call'[j] = pre[j]
                                    \/ \E i \in DOMAIN call : i # 1 /\ call'[j] = call[i]
<1>1. PICK n \in Nat, l \in Nat \ {0} : n = Len(pre) /\ l = Len(call)
  BY Parts, LenProperties DEF Typed
<1>2. /\ Tail(call) \in Seq(StepType) /\ Len(Tail(call)) = l - 1 /\ DOMAIN call = 1 .. l
      /\ \A m \in 1 .. l - 1 : Tail(call)[m] = call[m + 1]
  BY <1>1, Parts DEF Typed
<1>3. DOMAIN pre = 1 .. n
  BY <1>1, LenProperties
<1>4. /\ DOMAIN call' = 1 .. n + (l - 1) /\ call' \in Seq(StepType)
      /\ \A i \in 1 .. n : call'[i] = pre[i]
      /\ \A m \in 1 .. l - 1 : call'[n + m] = call[m + 1]
  BY <1>1, <1>2, Joined
<1>5. \A i \in 1 .. n : i \in 1 .. n + (l - 1)
  OBVIOUS
<1>6. ASSUME NEW i \in 1 .. l, i # 1 PROVE \E j \in DOMAIN call' : call'[j] = call[i]
  <2>1. i - 1 \in 1 .. l - 1 /\ (i - 1) + 1 = i /\ n + (i - 1) \in 1 .. n + (l - 1)
    BY <1>6
  <2> QED BY <1>4, <2>1
<1>7. ASSUME NEW j \in 1 .. n + (l - 1), j \notin 1 .. n
      PROVE  \E i \in DOMAIN call : i # 1 /\ call'[j] = call[i]
  <2>1. j - n \in 1 .. l - 1 /\ n + (j - n) = j /\ (j - n) + 1 \in 1 .. l /\ (j - n) + 1 # 1
    BY <1>7
  <2>2. call'[j] = call[(j - n) + 1]
    BY <1>4, <2>1
  <2> QED BY <1>2, <2>1, <2>2
<1> QED BY <1>2, <1>3, <1>4, <1>5, <1>6, <1>7

(* Doing the first step leaves the others: nothing comes before them. *)
LEMMA Continued ==
  ASSUME Typed, call # <<>>, Continue
  PROVE  <<>> \in Seq(StepType) /\ call' = <<>> \o Tail(call) /\ DOMAIN <<>> = {}
<1>1. Tail(call) \in Seq(StepType)
  BY Parts DEF Typed
<1> QED BY <1>1, ConcatEmptySeq DEF Continue

LEMMA NoFrees ==
  ASSUME Typed, CallShape, call # <<>>, Head(call).do \notin {"waitCompute", "free"},
         NEW pre \in Seq(StepType), call' = pre \o Tail(call), \A i \in DOMAIN pre : pre[i].do # "free"
  PROVE  Dropping = {} /\ Dropping' = {}
<1>1. 1 \in DOMAIN call /\ Head(call) = call[1]
  BY CallTypes
<1>2. ASSUME NEW i \in DOMAIN call PROVE call[i].do # "free"
  BY <1>1 DEF CallShape, StepOK, FreeOK
<1>3. ASSUME NEW j \in DOMAIN call' PROVE call'[j].do # "free"
  BY <1>2, Replaced
<1> QED BY <1>2, <1>3 DEF Dropping

(* Away from syncCompute every page without its event has arrived. *)
LEMMA AllArrived ==
  ASSUME PagesOK, call = <<>> \/ Head(call).do # "syncCompute"
  PROVE  \A k \in DOMAIN pages \ pending : pages[k] \in filled
BY DEF PagesOK, Waited, Step

(* A step that changes no page, no queue and nothing of the cache. *)
LEMMA Quiet ==
  ASSUME GpuInv, call # <<>>,
         Head(call).do \notin {"waitCompute", "syncCompute", "syncCopy", "fault", "free"},
         Head(call).do \in {"ensure", "fill"} => K \notin resident \ DOMAIN pages,
         NEW pre \in Seq(StepType), call' = pre \o Tail(call),
         \A i \in DOMAIN pre : pre[i].do \notin {"fault", "free"},
         UNCHANGED <<cacheVars, clientVars, victimVars, pages, graphs, compute, q, deviceVars>>,
         evicting' \in [DOMAIN evicting' -> Page], DOMAIN evicting' \subseteq Catalog,
         pending' \subseteq pending, \A k \in pending \ pending' : pages[k] \in filled,
         \A i \in DOMAIN pre : StepOK(i)'
  PROVE  GpuInv'
<1> USE DEF GpuInv
<1>1. C!IInv'
  BY CacheStill
<1>2. Typed'
  BY Replaced DEF Typed, victimVars, deviceVars
<1>3. Dropping = {} /\ Dropping' = {}
  BY NoFrees
<1>4. Device'
  <2>1. Kept' = Kept
    BY <1>3 DEF Kept
  <2> QED BY <2>1, DeviceKept
<1>5. PagesOK'
  <2>1. \A k \in DOMAIN pages \ pending' : pages[k] \in filled
    BY AllArrived
  <2>2. \A k \in DOMAIN pages' \ pending' : Waited(k)'
    BY <2>1 DEF Waited, deviceVars
  <2> QED BY <1>3, <2>2 DEF PagesOK, deviceVars
<1>6. PlacesOK'
  <2>1. Head(call) = call[1] /\ K = call[1].key
    BY CallTypes
  <2>2. ASSUME NEW k \in resident \ DOMAIN pages
        PROVE  \E j \in DOMAIN call' : call'[j].do \in {"ensure", "fill"} /\ call'[j].key = k
    <3>1. PICK i \in DOMAIN call : call[i].do \in {"ensure", "fill"} /\ call[i].key = k
      BY DEF PlacesOK
    <3>2. i # 1
      BY <2>1, <2>2, <3>1
    <3> QED BY <3>1, <3>2, Replaced
  <2> QED BY <2>2 DEF PlacesOK, cacheVars, victimVars
<1>7. CallShape'
  <2>1. UNCHANGED <<pc, queue, pinned, resident>>
    BY DEF cacheVars, clientVars
  <2> QED BY <2>1, Reshape
<1> QED BY <1>1, <1>2, <1>4, <1>5, <1>6, <1>7


LEMMA SweptTyped ==
  ASSUME Typed
  PROVE  Swept \in [DOMAIN Swept -> Page] /\ DOMAIN Swept \subseteq Catalog
BY DEF Typed, Swept, Restrict

LEMMA SweepInv == ASSUME GpuInv, Sweep PROVE GpuInv'
<1>1. call # <<>> /\ Head(call).do = "sweep" /\ evicting' = Swept /\ Continue
      /\ UNCHANGED <<cacheVars, clientVars, victimVars, pages, pending, graphs, compute, q, deviceVars>>
  BY DEF Sweep, Now
<1>2. <<>> \in Seq(StepType) /\ call' = <<>> \o Tail(call) /\ DOMAIN <<>> = {}
  BY <1>1, Continued DEF GpuInv
<1>3. evicting' \in [DOMAIN evicting' -> Page] /\ DOMAIN evicting' \subseteq Catalog
  BY <1>1, SweptTyped DEF GpuInv
<1> QED BY <1>1, <1>2, <1>3, Quiet

(* The first step of a call that is not one of those that need something. *)
LEMMA Plain ==
  ASSUME NEW i, call'[i].do \in {"syncCompute", "syncCopy", "ensure", "settle", "waitCompute",
                                 "syncDecode", "syncAll", "sweep"}
  PROVE  StepOK(i)'
BY DEF StepOK, FaultOK, FillOK, FreeOK, UseOK, SettledOK, PinOK

(* With its event recorded, or given away, a page has arrived. *)
LEMMA PlacedArrived ==
  ASSUME GpuInv, NEW k \in DOMAIN pages, k \notin pending \/ Arrived(k),
         call # <<>>, Head(call).do # "syncCompute"
  PROVE  pages[k] \in filled
<1> USE DEF GpuInv
<1>1. CASE k \notin pending
  BY <1>1, AllArrived
<1>2. CASE Arrived(k)
  <2>1. ~In("recordReady", pages[k])
    BY <1>2, ReadyOnCopy DEF Arrived, Device
  <2>2. pages[k] \in Owned
    BY DEF Owned, Kept, Range
  <2> QED BY <2>1, <2>2, ArrivedFilled DEF Device
<1> QED BY <1>1, <1>2

LEMMA SettleInv == ASSUME GpuInv, Settle PROVE GpuInv'
<1>1. /\ call # <<>> /\ Head(call).do = "settle" /\ K \in Catalog \cup Unknown
      /\ UNCHANGED <<cacheVars, clientVars, victimVars, pageVars, compute, q, deviceVars>>
  BY CallTypes DEF Settle, Now, GpuInv
<1>2. PICK e : e = K
  OBVIOUS
<1>3. Step("syncCopy", e) \in StepType /\ Step("settled", e) \in StepType
  BY <1>1, <1>2 DEF Step, StepType, Dos
<1>4. UNCHANGED <<pages, pending, evicting, graphs>>
  BY <1>1 DEF pageVars
<1>5. evicting' \in [DOMAIN evicting' -> Page] /\ DOMAIN evicting' \subseteq Catalog
  BY <1>4 DEF GpuInv, Typed
<1>6. CASE e \in pending /\ ~Arrived(e)
  <2> DEFINE pre == <<Step("syncCopy", e), Step("settled", e)>>
  <2>1. call' = pre \o Tail(call)
    BY <1>2, <1>6, StepsOf DEF Settle
  <2>2. pre \in Seq(StepType) /\ DOMAIN pre = {1, 2}
        /\ pre[1] = Step("syncCopy", e) /\ pre[2] = Step("settled", e)
    BY <1>3
  <2> HIDE DEF pre
  <2>3. call'[1] = Step("syncCopy", e) /\ call'[2] = Step("settled", e)
    BY <1>1, <2>1, <2>2, Replaced DEF GpuInv
  <2>4. StepOK(1)'
    BY <2>3, Plain DEF Step
  <2>5. StepOK(2)'
    BY <2>3 DEF StepOK, FaultOK, FillOK, FreeOK, UseOK, SettledOK, PinOK, Step
  <2>6. \A i \in DOMAIN pre : pre[i].do \notin {"fault", "free"}
    BY <2>2 DEF Step
  <2> QED BY <1>1, <1>4, <1>5, <2>1, <2>2, <2>4, <2>5, <2>6, Quiet
<1>7. CASE ~(e \in pending /\ ~Arrived(e))
  <2> DEFINE pre == <<Step("settled", e)>>
  <2>1. call' = pre \o Tail(call)
    BY <1>2, <1>7, StepsOf DEF Settle
  <2>2. pre \in Seq(StepType) /\ DOMAIN pre = {1} /\ pre[1] = Step("settled", e)
    BY <1>3
  <2> HIDE DEF pre
  <2>3. call'[1] = Step("settled", e)
    BY <1>1, <2>1, <2>2, Replaced DEF GpuInv
  <2>4. e \in DOMAIN pages => pages[e] \in filled
    BY <1>1, <1>7, PlacedArrived
  <2>5. StepOK(1)'
    BY <1>1, <1>4, <2>3, <2>4 DEF StepOK, FaultOK, FillOK, FreeOK, UseOK, SettledOK, PinOK, Step, deviceVars
  <2>6. \A i \in DOMAIN pre : pre[i].do \notin {"fault", "free"}
    BY <2>2 DEF Step
  <2> QED BY <1>1, <1>4, <1>5, <2>1, <2>2, <2>5, <2>6, Quiet
<1> QED BY <1>6, <1>7

LEMMA SettledInv == ASSUME GpuInv, Settled PROVE GpuInv'
<1>1. /\ call # <<>> /\ Head(call).do = "settled" /\ pending' = pending \ {K} /\ Continue
      /\ UNCHANGED <<cacheVars, clientVars, victimVars, pages, evicting, graphs, compute, q, deviceVars>>
  BY DEF Settled, Now
<1>2. <<>> \in Seq(StepType) /\ call' = <<>> \o Tail(call) /\ DOMAIN <<>> = {}
  BY <1>1, Continued DEF GpuInv
<1>3. evicting' \in [DOMAIN evicting' -> Page] /\ DOMAIN evicting' \subseteq Catalog
  BY <1>1 DEF GpuInv, Typed
<1>4. K \in DOMAIN pages => pages[K] \in filled
  <2>1. 1 \in DOMAIN call /\ Head(call) = call[1] /\ K = call[1].key
    BY <1>1, CallTypes DEF GpuInv
  <2> QED BY <1>1, <2>1 DEF GpuInv, CallShape, StepOK, SettledOK
<1>5. \A k \in pending \ pending' : pages[k] \in filled
  BY <1>1, <1>4 DEF GpuInv, Typed
<1> QED BY <1>1, <1>2, <1>3, <1>5, Quiet


LEMMA DrainedInv == ASSUME GpuInv, Drained PROVE GpuInv'
<1> USE DEF GpuInv
<1>1. /\ call # <<>> /\ Continue /\ \A s \in Awaited : q[s] = <<>>
      /\ Head(call).do \in {"waitCompute", "syncCompute", "syncCopy", "syncDecode", "syncAll"}
      /\ UNCHANGED <<cacheVars, clientVars, victimVars, pageVars, compute, q, deviceVars>>
  BY DEF Drained, Driving, Awaited
<1>2. <<>> \in Seq(StepType) /\ call' = <<>> \o Tail(call) /\ DOMAIN <<>> = {}
  BY <1>1, Continued
<1>3. /\ UNCHANGED <<resident, pinned, pc, queue, victim, lost, pages, pending, evicting, graphs>>
      /\ UNCHANGED <<busy, live, filled>>
  BY <1>1 DEF cacheVars, clientVars, victimVars, pageVars, deviceVars
<1>4. /\ \A i \in DOMAIN call : i # 1 => \E j \in DOMAIN call' : call'[j] = call[i]
      /\ \A j \in DOMAIN call' : \E i \in DOMAIN call : i # 1 /\ call'[j] = call[i]
      /\ call' \in Seq(StepType) /\ Head(call) = call[1] /\ K = call[1].key /\ 1 \in DOMAIN call
  BY <1>1, <1>2, Replaced, CallTypes
<1>5. Dropping' = Dropping
  <2>1. \A j \in DOMAIN call' : call'[j].do = "free" =>
            \E i \in DOMAIN call : call[i].do = "free" /\ call'[j] = call[i]
    BY <1>4
  <2>2. \A i \in DOMAIN call : call[i].do = "free" =>
            \E j \in DOMAIN call' : call'[j].do = "free" /\ call'[j] = call[i]
    BY <1>1, <1>4
  <2>3. ASSUME NEW p PROVE p \in Dropping' <=> \E j \in DOMAIN call' : call'[j].do = "free" /\ evicting[call'[j].key] = p
    BY <1>3 DEF Dropping
  <2>4. ASSUME NEW p PROVE p \in Dropping <=> \E i \in DOMAIN call : call[i].do = "free" /\ evicting[call[i].key] = p
    BY DEF Dropping
  <2>5. ASSUME NEW p PROVE p \in Dropping' <=> p \in Dropping
    BY <2>1, <2>2, <2>3, <2>4
  <2> QED BY <2>5
<1>6. C!IInv' /\ Typed'
  BY <1>1, <1>3, <1>4, CacheStill DEF Typed
<1>7. Device'
  BY <1>1, <1>3, <1>5, DeviceKept DEF Kept
<1>8. \A k \in DOMAIN pages \ pending : pages[k] \in filled
  <2>1. CASE Head(call).do = "syncCompute"
    <3>1. q[compute] = <<>>
      BY <1>1, <2>1 DEF Awaited
    <3>2. DOMAIN q[compute] = {}
      BY <3>1
    <3> QED BY <3>2 DEF PagesOK, Waited
  <2>2. CASE Head(call).do # "syncCompute"
    BY <2>2, AllArrived
  <2> QED BY <2>1, <2>2
<1>9. PagesOK'
  BY <1>3, <1>5, <1>8 DEF PagesOK, Waited
<1>10. PlacesOK'
  <2>1. ASSUME NEW k \in resident \ DOMAIN pages
        PROVE  \E j \in DOMAIN call' : call'[j].do \in {"ensure", "fill"} /\ call'[j].key = k
    <3>1. PICK i \in DOMAIN call : call[i].do \in {"ensure", "fill"} /\ call[i].key = k
      BY DEF PlacesOK
    <3> QED BY <1>1, <1>4, <3>1
  <2> QED BY <1>3, <2>1 DEF PlacesOK
<1>11. CallShape'
  <2>1. Head(call).do = "waitCompute" => \A s \in ComputeStreams : q'[s] = <<>>
    BY <1>1 DEF Awaited
  <2>2. Head(call).do = "syncCopy" => \A k \in DOMAIN pages' : pages'[k] \in filled'
    <3>1. ASSUME Head(call).do = "syncCopy" PROVE Copy = <<>>
      BY <1>1, <3>1 DEF Awaited, Copy
    <3>2. \A k \in DOMAIN pages : pages[k] \in Owned
      BY DEF Owned, Kept, Range
    <3> QED BY <1>3, <3>1, <3>2, CopyIdle DEF Device
  <2> QED BY <1>1, <1>2, <1>3, <2>1, <2>2, Reshape
<1> QED BY <1>6, <1>7, <1>9, <1>10, <1>11

(* A page given up. *)
LEMMA DropPages ==
  ASSUME Typed, PagesOK, NEW v \in DOMAIN pages, NEW others,
         others \in [DOMAIN others -> Page], DOMAIN others \subseteq Catalog,
         NEW rest, Drop(v, others, rest)
  PROVE  /\ DOMAIN pages' = DOMAIN pages \ {v} /\ \A k \in DOMAIN pages' : pages'[k] = pages[k]
         /\ pages' \in [DOMAIN pages' -> Page]
         /\ Range(pages') = Range(pages) \ {pages[v]} /\ pages[v] \in Range(pages)
         /\ evicting' \in [DOMAIN evicting' -> Page] /\ DOMAIN evicting' \subseteq Catalog
         /\ v \in DOMAIN evicting' /\ evicting'[v] = pages[v] /\ v \in Catalog
         /\ pending' = pending \ {v} /\ pending' \subseteq DOMAIN pages'
         /\ graphs' = graphs \ {pages[v]} /\ graphs' \subseteq Range(pages')
         /\ call' = <<Step("waitCompute", v), Step("free", v)>> \o rest
<1>1. pages' = [k \in DOMAIN pages \ {v} |-> pages[k]]
  BY DEF Drop, Restrict
<1>2. Range(pages') = Range(pages) \ {pages[v]} /\ pages[v] \in Range(pages)
  BY <1>1 DEF PagesOK, Range
<1>3. evicting' = [k \in {v} \cup DOMAIN others |-> IF k = v THEN pages[v] ELSE others[k]]
  BY DEF Drop, Placing
<1>4. pages[v] \in Page /\ v \in Catalog /\ DOMAIN pages' = DOMAIN pages \ {v}
  BY <1>1 DEF Typed
<1>5. /\ evicting' \in [DOMAIN evicting' -> Page] /\ DOMAIN evicting' \subseteq Catalog
      /\ v \in DOMAIN evicting' /\ evicting'[v] = pages[v]
  BY <1>3, <1>4
<1>6. call' = <<Step("waitCompute", v), Step("free", v)>> \o rest
  BY StepsOf DEF Drop
<1>7. pending' = pending \ {v} /\ graphs' = graphs \ {pages[v]}
  BY DEF Drop
<1> QED BY <1>1, <1>2, <1>4, <1>5, <1>6, <1>7 DEF Typed


(* A fill, and a free behind its wait, fit where they are put. *)
LEMMA FillFits ==
  ASSUME NEW i, NEW e, call'[i].do = "fill", call'[i].key = e, e \in resident' \ DOMAIN pages',
         \A j \in DOMAIN call' : j < i => call'[j].do \in {"waitCompute", "free"}
  PROVE  StepOK(i)'
<1>1. FillOK(i)'
  BY DEF FillOK
<1>2. FaultOK(i)' /\ FreeOK(i)' /\ UseOK(i)' /\ SettledOK(i)' /\ PinOK(i)'
  BY DEF FaultOK, FreeOK, UseOK, SettledOK, PinOK
<1> QED BY <1>1, <1>2 DEF StepOK

LEMMA FreeFits ==
  ASSUME call'[2].do = "free", call'[2].key \in DOMAIN evicting', call'[1].do = "waitCompute"
  PROVE  StepOK(2)'
<1>1. FreeOK(2)'
  BY DEF FreeOK
<1>2. FaultOK(2)' /\ FillOK(2)' /\ UseOK(2)' /\ SettledOK(2)' /\ PinOK(2)'
  BY DEF FaultOK, FillOK, UseOK, SettledOK, PinOK
<1> QED BY <1>1, <1>2 DEF StepOK

LEMMA Concat21 == \A a, b, c : <<a, b>> \o <<c>> = <<a, b, c>>
<1> SUFFICES ASSUME NEW a, NEW b, NEW c PROVE <<a, b>> \o <<c>> = <<a, b, c>>
  OBVIOUS
<1> DEFINE S == {a, b, c}
<1>1. /\ <<a, b>> \in Seq(S) /\ <<c>> \in Seq(S) /\ <<a, b, c>> \in Seq(S)
      /\ Len(<<a, b>>) = 2 /\ Len(<<c>>) = 1 /\ Len(<<a, b, c>>) = 3
      /\ <<a, b>>[1] = a /\ <<a, b>>[2] = b /\ <<c>>[1] = c
      /\ <<a, b, c>>[1] = a /\ <<a, b, c>>[2] = b /\ <<a, b, c>>[3] = c
  BY Listing
<1>2. PICK s : s = <<a, b>> \o <<c>>
  OBVIOUS
<1>3. PICK t : t = <<a, b, c>>
  OBVIOUS
<1>4. s \in Seq(S) /\ Len(s) = 3 /\ s[1] = a /\ s[2] = b /\ s[3] = c
  BY <1>1, <1>2, Joined
<1>5. t \in Seq(S) /\ Len(t) = 3 /\ t[1] = a /\ t[2] = b /\ t[3] = c
  BY <1>1, <1>3
<1>6. \A i \in 1 .. 3 : s[i] = t[i]
  <2>1. \A i \in 1 .. 3 : i = 1 \/ i = 2 \/ i = 3
    OBVIOUS
  <2> QED BY <1>4, <1>5, <2>1
<1> HIDE DEF S
<1>7. s = t
  BY <1>4, <1>5, <1>6, SeqEqual
<1> QED BY <1>2, <1>3, <1>7

LEMMA StepParts == \A d, e : Step(d, e).do = d /\ Step(d, e).key = e
BY DEF Step

(* The steps with which a page is given up, then the fill that waited for it. *)
LEMMA EnsureShape ==
  ASSUME GpuInv, call # <<>>, Head(call).do = "ensure", K \in resident \ DOMAIN pages,
         UNCHANGED <<cacheVars, clientVars>>,
         NEW e, e = K,
         NEW pre \in Seq(StepType), call' = pre \o Tail(call),
         \/ pre = <<Step("fill", e)>>
         \/ \E v \in DOMAIN evicting' :
              pre = <<Step("waitCompute", v), Step("free", v), Step("fill", e)>>,
         \A k \in resident : /\ k \in DOMAIN pages <=> k \in DOMAIN pages'
                             /\ k \in DOMAIN pages \ pending => k \notin pending'
  PROVE  CallShape'
<1>1. UNCHANGED <<pc, queue, pinned, resident>>
  BY DEF cacheVars, clientVars
<1>2. /\ \A i \in DOMAIN pre : i \in DOMAIN call' /\ call'[i] = pre[i]
      /\ DOMAIN call' = 1 .. Len(call') /\ Len(call') \in Nat
  BY Replaced, LenProperties, Zenon DEF GpuInv
<1>3. e \in resident' \ DOMAIN pages'
  BY <1>1
<1>4. \A i \in DOMAIN pre : pre[i].do # "fault" /\ StepOK(i)'
  <2>1. CASE pre = <<Step("fill", e)>>
    <3>1. DOMAIN pre = {1} /\ pre[1] = Step("fill", e)
      BY <2>1
    <3>2. pre[1].do = "fill" /\ call'[1].do = "fill" /\ call'[1].key = e
      BY <1>2, <3>1, StepParts
    <3>3. \A j \in DOMAIN call' : ~(j < 1)
      BY <1>2
    <3>4. StepOK(1)'
      BY <1>3, <3>2, <3>3, FillFits
    <3> QED BY <3>1, <3>2, <3>4
  <2>2. CASE \E v \in DOMAIN evicting' : pre = <<Step("waitCompute", v), Step("free", v), Step("fill", e)>>
    <3>0. PICK v \in DOMAIN evicting' : pre = <<Step("waitCompute", v), Step("free", v), Step("fill", e)>>
      BY <2>2
    <3>1. DOMAIN pre = {1, 2, 3} /\ pre[1] = Step("waitCompute", v) /\ pre[2] = Step("free", v)
          /\ pre[3] = Step("fill", e)
      BY <3>0
    <3>2. /\ pre[1].do = "waitCompute" /\ pre[2].do = "free" /\ pre[3].do = "fill"
          /\ call'[1].do = "waitCompute" /\ call'[2].do = "free" /\ call'[2].key = v
          /\ call'[3].do = "fill" /\ call'[3].key = e
      BY <1>2, <3>1, StepParts
    <3>3. \A j \in DOMAIN call' : j < 3 => j = 1 \/ j = 2
      BY <1>2
    <3>4. StepOK(1)'
      BY <3>2, Plain
    <3>5. StepOK(2)'
      BY <3>2, FreeFits
    <3>6. \A j \in DOMAIN call' : j < 3 => call'[j].do \in {"waitCompute", "free"}
      BY <3>2, <3>3
    <3>7. StepOK(3)'
      BY <1>3, <3>2, <3>6, FillFits
    <3> QED BY <3>1, <3>2, <3>4, <3>5, <3>7
  <2> QED BY <2>1, <2>2
<1>5. /\ \A k \in resident : k \in DOMAIN pages \ pending => k \in DOMAIN pages' \ pending'
      /\ \A i \in DOMAIN pre : pre[i].do # "fault"
      /\ \A i \in DOMAIN pre : StepOK(i)'
  BY <1>4
<1> QED BY <1>1, <1>5, Reshape DEF GpuInv

LEMMA EnsureInv == ASSUME GpuInv, Ensure PROVE GpuInv'
<1> USE DEF GpuInv
<1>1. /\ call # <<>> /\ Head(call).do = "ensure"
      /\ UNCHANGED <<cacheVars, clientVars, lost, compute, q, deviceVars>>
  BY DEF Ensure, Now
<1>2. Head(call) = call[1] /\ K = call[1].key /\ K \in Catalog \cup Unknown
  BY <1>1, CallTypes
<1>3. CASE K \notin resident \ DOMAIN pages
  <2>1. Continue /\ UNCHANGED <<victim, pageVars>>
    BY <1>3 DEF Ensure
  <2>2. <<>> \in Seq(StepType) /\ call' = <<>> \o Tail(call) /\ DOMAIN <<>> = {}
    BY <1>1, <2>1, Continued
  <2>3. /\ UNCHANGED <<victimVars, pages, graphs, pending, evicting>>
        /\ evicting' \in [DOMAIN evicting' -> Page] /\ DOMAIN evicting' \subseteq Catalog
    BY <1>1, <2>1 DEF victimVars, pageVars, Typed
  <2> QED BY <1>1, <1>3, <2>2, <2>3, Quiet
<1>4. CASE K \in resident \ DOMAIN pages
  <2> DEFINE fill == <<Step("fill", K)>> \o Tail(call)
  <2>1. /\ victim' = {}
        /\ \/ victim \cap DOMAIN pages = {} /\ call' = fill /\ UNCHANGED pageVars
           \/ \E v \in victim : v \in DOMAIN pages /\ Drop(v, evicting, fill)
    BY <1>4 DEF Ensure, Typed
  <2>2. Step("fill", K) \in StepType /\ Tail(call) \in Seq(StepType)
    BY <1>1, <1>2, Parts DEF Step, StepType, Dos, Typed
  <2>3. C!IInv'
    BY <1>1, CacheStill
  <2>4. Dropping = {} /\ \A k \in DOMAIN pages \ pending : pages[k] \in filled
    BY <1>1, FreeFirst, AllArrived
  <2>5. UNCHANGED <<resident, leased, pinned, lost, compute, q, busy, live, filled>>
    BY <1>1 DEF cacheVars, deviceVars
  <2>6. CASE victim \cap DOMAIN pages = {} /\ call' = fill /\ UNCHANGED pageVars
    <3> DEFINE pre == <<Step("fill", K)>>
    <3>1. pre \in Seq(StepType) /\ call' = pre \o Tail(call) /\ DOMAIN pre = {1} /\ pre[1] = Step("fill", K)
      BY <2>2, <2>6
    <3>2. UNCHANGED <<pages, pending, evicting, graphs>>
      BY <2>6 DEF pageVars
    <3>3. CallShape'
      BY <1>1, <1>4, <3>1, <3>2, EnsureShape
    <3>10. \A i \in DOMAIN pre : pre[i].do # "free"
      BY <3>1, StepParts
    <3> HIDE DEF pre, fill
    <3>4. /\ call' \in Seq(StepType)
          /\ \A i \in DOMAIN call : i # 1 => \E j \in DOMAIN call' : call'[j] = call[i]
          /\ 1 \in DOMAIN call' /\ call'[1] = Step("fill", K)
      BY <1>1, <3>1, Replaced
    <3>5. Dropping' = {}
      BY <1>1, <3>1, <3>10, NoFrees
    <3>6. Typed'
      BY <2>1, <2>5, <3>2, <3>4 DEF Typed
    <3>7. Device'
      BY <1>1, <2>4, <3>2, <3>5, DeviceKept DEF Kept
    <3>8. PagesOK'
      BY <2>4, <2>5, <3>2, <3>5 DEF PagesOK, Waited
    <3>9. PlacesOK'
      <4>1. ASSUME NEW k \in resident \ DOMAIN pages
            PROVE  \E j \in DOMAIN call' : call'[j].do \in {"ensure", "fill"} /\ call'[j].key = k
        <5>1. PICK i \in DOMAIN call : call[i].do \in {"ensure", "fill"} /\ call[i].key = k
          BY DEF PlacesOK
        <5>2. CASE i = 1
          BY <1>2, <3>4, <5>1, <5>2 DEF Step
        <5>3. CASE i # 1
          BY <3>4, <5>1, <5>3
        <5> QED BY <5>2, <5>3
      <4> QED BY <2>1, <2>5, <2>6, <3>2, <4>1 DEF PlacesOK
    <3> QED BY <2>3, <3>3, <3>6, <3>7, <3>8, <3>9
  <2>7. CASE \E v \in victim : v \in DOMAIN pages /\ Drop(v, evicting, fill)
    <3>0. PICK v \in victim : v \in DOMAIN pages /\ Drop(v, evicting, fill)
      BY <2>7
    <3> DEFINE pre == <<Step("waitCompute", v), Step("free", v), Step("fill", K)>>
    <3>1. evicting \in [DOMAIN evicting -> Page] /\ DOMAIN evicting \subseteq Catalog
      BY DEF Typed
    <3>2. /\ DOMAIN pages' = DOMAIN pages \ {v} /\ \A k \in DOMAIN pages' : pages'[k] = pages[k]
          /\ pages' \in [DOMAIN pages' -> Page]
          /\ Range(pages') = Range(pages) \ {pages[v]} /\ pages[v] \in Range(pages)
          /\ evicting' \in [DOMAIN evicting' -> Page] /\ DOMAIN evicting' \subseteq Catalog
          /\ v \in DOMAIN evicting' /\ evicting'[v] = pages[v] /\ v \in Catalog
          /\ pending' = pending \ {v} /\ pending' \subseteq DOMAIN pages'
          /\ graphs' = graphs \ {pages[v]} /\ graphs' \subseteq Range(pages')
          /\ call' = <<Step("waitCompute", v), Step("free", v)>> \o fill
      BY <3>0, <3>1, DropPages
    <3>3. /\ Step("waitCompute", v) \in StepType /\ Step("free", v) \in StepType
      BY <3>2 DEF Step, StepType, Dos
    <3>4. pre \in Seq(StepType) /\ call' = pre \o Tail(call)
      <4>1. <<Step("waitCompute", v), Step("free", v)>> \in Seq(StepType) /\ <<Step("fill", K)>> \in Seq(StepType)
        BY <2>2, <3>3
      <4>2. (<<Step("waitCompute", v), Step("free", v)>> \o <<Step("fill", K)>>) \o Tail(call) = call'
        BY <2>2, <3>2, <4>1, ConcatAssociative
      <4>3. <<Step("waitCompute", v), Step("free", v)>> \o <<Step("fill", K)>> = pre
        BY Concat21
      <4> QED BY <2>2, <3>3, <4>2, <4>3
    <3>5. /\ DOMAIN pre = {1, 2, 3} /\ pre[1] = Step("waitCompute", v) /\ pre[2] = Step("free", v)
          /\ pre[3] = Step("fill", K)
      OBVIOUS
    <3>6. v \notin resident
      BY <3>0 DEF PlacesOK
    <3>7. CallShape'
      BY <1>1, <1>4, <3>2, <3>4, <3>6, EnsureShape
    <3> HIDE DEF pre, fill
    <3>8. /\ call' \in Seq(StepType)
          /\ \A i \in DOMAIN call : i # 1 => \E j \in DOMAIN call' : call'[j] = call[i]
          /\ \A j \in DOMAIN call' : \/ j \in DOMAIN pre /\ call'[j] = pre[j]
                                     \/ \E i \in DOMAIN call : i # 1 /\ call'[j] = call[i]
          /\ 2 \in DOMAIN call' /\ call'[2] = Step("free", v)
          /\ 3 \in DOMAIN call' /\ call'[3] = Step("fill", K)
      BY <1>1, <3>4, <3>5, Replaced
    <3>9. Dropping' = {pages[v]}
      <4>1. ASSUME NEW j \in DOMAIN call', call'[j].do = "free" PROVE call'[j].key = v
        <5>1. CASE j \in DOMAIN pre /\ call'[j] = pre[j]
          BY <3>5, <4>1, <5>1 DEF Step
        <5>2. CASE \E i \in DOMAIN call : i # 1 /\ call'[j] = call[i]
          BY <1>1, <4>1, <5>2, CallTypes DEF CallShape, StepOK, FreeOK
        <5> QED BY <3>8, <5>1, <5>2
      <4> QED BY <3>2, <3>8, <4>1 DEF Dropping, Step
    <3>10. Kept' = Kept
      BY <2>4, <3>2, <3>9 DEF Kept
    <3>11. Typed'
      BY <2>1, <2>5, <3>2, <3>8 DEF Typed
    <3>12. Device'
      BY <1>1, <3>10, DeviceKept
    <3>13. PagesOK'
      <4>1. \A k, m \in DOMAIN pages' : pages'[k] = pages'[m] => k = m
        BY <3>2 DEF PagesOK
      <4>2. graphs' \subseteq filled'
        BY <2>5, <3>2 DEF PagesOK
      <4>3. \A k \in DOMAIN pages' \ pending' : Waited(k)'
        BY <2>4, <2>5, <3>2 DEF Waited
      <4>4. Dropping' \cap Range(pages') = {}
        BY <3>2, <3>9
      <4> QED BY <4>1, <4>2, <4>3, <4>4 DEF PagesOK
    <3>14. PlacesOK'
      <4>1. ASSUME NEW k \in resident \ DOMAIN pages
            PROVE  \E j \in DOMAIN call' : call'[j].do \in {"ensure", "fill"} /\ call'[j].key = k
        <5>1. PICK i \in DOMAIN call : call[i].do \in {"ensure", "fill"} /\ call[i].key = k
          BY DEF PlacesOK
        <5>2. CASE i = 1
          BY <1>2, <3>8, <5>1, <5>2 DEF Step
        <5>3. CASE i # 1
          BY <3>8, <5>1, <5>3
        <5> QED BY <5>2, <5>3
      <4>2. victim = {v}
        BY <3>0 DEF Typed
      <4> QED BY <2>1, <2>5, <3>2, <3>6, <4>1, <4>2 DEF PlacesOK
    <3> QED BY <2>3, <3>7, <3>11, <3>12, <3>13, <3>14
  <2> QED BY <2>1, <2>6, <2>7
<1> QED BY <1>3, <1>4


(* t is s with ops behind it. *)
Behind(s, n, ops, m, t) ==
  /\ n \in Nat /\ m \in Nat /\ DOMAIN s = 1 .. n /\ DOMAIN t = 1 .. n + m
  /\ \A i \in 1 .. n : i \in 1 .. n + m /\ t[i] = s[i]
  /\ \A j \in 1 .. m : n + j \in 1 .. n + m /\ t[n + j] = ops[j]
  /\ \A i \in 1 .. n + m : i \in 1 .. n \/ \E j \in 1 .. m : i = n + j

LEMMA Extended ==
  ASSUME NEW S, NEW s \in Seq(S), NEW ops \in Seq(S)
  PROVE  /\ Behind(s, Len(s), ops, Len(ops), s \o ops)
         /\ s \o ops \in Seq(S)
<1>1. PICK n \in Nat, m \in Nat : n = Len(s) /\ m = Len(ops)
  BY LenProperties
<1>2. PICK t : t = s \o ops
  OBVIOUS
<1>3. /\ t \in Seq(S) /\ DOMAIN t = 1 .. n + m /\ DOMAIN s = 1 .. n
      /\ \A i \in 1 .. n : t[i] = s[i]
      /\ \A j \in 1 .. m : t[n + j] = ops[j]
  BY <1>1, <1>2, Joined
<1>4. /\ \A i \in 1 .. n : i \in 1 .. n + m
      /\ \A j \in 1 .. m : n + j \in 1 .. n + m
  OBVIOUS
<1>5. ASSUME NEW i \in 1 .. n + m, i \notin 1 .. n PROVE \E j \in 1 .. m : i = n + j
  <2>1. i - n \in 1 .. m /\ i = n + (i - n)
    BY <1>5
  <2> QED BY <2>1
<1>6. Behind(s, n, ops, m, t)
  BY <1>3, <1>4, <1>5 DEF Behind
<1> QED BY <1>1, <1>2, <1>3, <1>6

LEMMA CopyMore ==
  ASSUME NEW n, NEW m, NEW ops, Behind(Copy, n, ops, m, Copy')
  PROVE  \A op, p : In(op, p)' <=> In(op, p) \/ \E j \in 1 .. m : ops[j].op = op /\ ops[j].page = p
<1> SUFFICES ASSUME NEW op, NEW p
             PROVE  In(op, p)' <=> In(op, p) \/ \E j \in 1 .. m : ops[j].op = op /\ ops[j].page = p
  OBVIOUS
<1> USE DEF Behind
<1>1. ASSUME In(op, p)' PROVE In(op, p) \/ \E j \in 1 .. m : ops[j].op = op /\ ops[j].page = p
  <2>1. PICK i \in 1 .. n + m : Copy'[i].op = op /\ Copy'[i].page = p
    BY <1>1 DEF In
  <2>2. CASE i \in 1 .. n
    BY <2>1, <2>2 DEF In
  <2>3. CASE i \notin 1 .. n
    BY <2>1, <2>3
  <2> QED BY <2>2, <2>3
<1>2. ASSUME In(op, p) PROVE In(op, p)'
  <2>1. PICK i \in 1 .. n : Copy[i].op = op /\ Copy[i].page = p
    BY <1>2 DEF In
  <2> QED BY <2>1 DEF In
<1>3. ASSUME NEW j \in 1 .. m, ops[j].op = op, ops[j].page = p PROVE In(op, p)'
  BY <1>3 DEF In
<1> QED BY <1>1, <1>2, <1>3

(* The free of a page goes behind everything the copy stream has for it. *)
LEMMA FreeDevice ==
  ASSUME Typed, Device, NEW p \in Page, p \in Kept, p \notin Range(pages), Dropping = {p}, Dropping' = {},
         UNCHANGED <<pages, deviceVars>>,
         NEW n \in Nat, DOMAIN Copy = 1 .. n, DOMAIN Copy' = 1 .. n + 2,
         \A i \in 1 .. n : i \in 1 .. n + 2 /\ Copy'[i] = Copy[i],
         Copy'[n + 1].op = "waitDrained", Copy'[n + 1].page = p, n + 1 \in 1 .. n + 2,
         Copy'[n + 2].op = "free", Copy'[n + 2].page = p, n + 2 \in 1 .. n + 2,
         \A i \in 1 .. n + 2 : i \in 1 .. n \/ i = n + 1 \/ i = n + 2,
         \A op, r : In(op, r)' <=> In(op, r) \/ (r = p /\ op \in {"waitDrained", "free"}),
         \A s \in ComputeStreams : q[s] = <<>> /\ \A i \in DOMAIN q'[s] : q'[s][i].op = "recordDrained"
  PROVE  Device'
<1>10. ~In("free", p) /\ ~In("waitDrained", p)
  BY DEF Device, MemoryOK, CopyOK, In, Then
<1>11. UNCHANGED <<busy, live, filled>>
  BY DEF deviceVars
<1>12. Leaving' = Leaving \cup {p}
  <2>1. \A i \in 1 .. n : (Copy'[i].op = "free" /\ ~(i = 1 /\ "copy" \in busy)) <=>
                          (Copy[i].op = "free" /\ ~(i = 1 /\ "copy" \in busy))
    OBVIOUS
  <2>2. n + 2 # 1
    OBVIOUS
  <2>3. ASSUME NEW r
        PROVE  r \in Leaving' <=> \E i \in 1 .. n + 2 : Copy'[i].op = "free" /\ ~(i = 1 /\ "copy" \in busy) /\ Copy'[i].page = r
    BY <1>11 DEF Leaving
  <2>4. ASSUME NEW r
        PROVE  r \in Leaving <=> \E i \in 1 .. n : Copy[i].op = "free" /\ ~(i = 1 /\ "copy" \in busy) /\ Copy[i].page = r
    BY DEF Leaving
  <2>5. ASSUME NEW r PROVE r \in Leaving' <=> r \in Leaving \/ r = p
    <3>1. ASSUME r \in Leaving' PROVE r \in Leaving \/ r = p
      <4>1. PICK i \in 1 .. n + 2 : Copy'[i].op = "free" /\ ~(i = 1 /\ "copy" \in busy) /\ Copy'[i].page = r
        BY <2>3, <3>1
      <4> QED BY <2>4, <4>1
    <3>2. r \in Leaving => r \in Leaving'
      BY <2>3, <2>4
    <3>3. p \in Leaving'
      BY <2>2, <2>3
    <3> QED BY <3>1, <3>2, <3>3
  <2> QED BY <2>5
<1>13. Kept' = Range(pages) /\ Kept = Range(pages) \cup {p} /\ Owned' = Owned
  BY <1>12 DEF Kept, Owned
<1>14. CopyOK'
  <2>1. (\A i, j \in DOMAIN Copy : Copy[i].op = Copy[j].op /\ Copy[i].page = Copy[j].page => i = j)'
    <3> SUFFICES ASSUME NEW i \in 1 .. n + 2, NEW j \in 1 .. n + 2,
                        Copy'[i].op = Copy'[j].op, Copy'[i].page = Copy'[j].page
                 PROVE  i = j
      OBVIOUS
    <3>1. ASSUME NEW k \in 1 .. n PROVE ~(Copy[k].page = p /\ Copy[k].op \in {"waitDrained", "free"})
      BY <1>10 DEF In
    <3>2. CASE i \in 1 .. n /\ j \in 1 .. n
      <4>1. \A k, l \in DOMAIN Copy : Copy[k].op = Copy[l].op /\ Copy[k].page = Copy[l].page => k = l
        BY DEF Device, CopyOK
      <4>2. Copy'[i] = Copy[i] /\ Copy'[j] = Copy[j] /\ i \in DOMAIN Copy /\ j \in DOMAIN Copy
        BY <3>2
      <4> QED BY <4>1, <4>2, Zenon
    <3>3. CASE ~(i \in 1 .. n /\ j \in 1 .. n)
      BY <3>1, <3>3
    <3> QED BY <3>2, <3>3
  <2>2. ASSUME NEW i \in 1 .. n + 2
        PROVE  /\ Copy'[i].op \in Fills \cup {"waitDrained", "free"}
               /\ (Copy[i].op = "alloc" => Then(i, "h2d"))'
               /\ (Copy[i].op = "h2d" => Then(i, "recordReady"))'
               /\ (Copy[i].op = "waitDrained" => Then(i, "free"))'
               /\ (Copy[i].op \in Fills =>
                     /\ Copy[i].page \in Owned
                     /\ \A j \in DOMAIN Copy : Copy[j].op = "free" /\ Copy[j].page = Copy[i].page => i < j)'
    <3>1. CASE i \in 1 .. n
      <4>1. \A op : Then(i, op) => Then(i, op)'
        BY <3>1 DEF Then
      <4>2. ASSUME NEW j \in 1 .. n + 2, Copy'[i].op \in Fills, Copy'[j].op = "free", Copy'[j].page = Copy'[i].page
            PROVE  i < j
        <5>1. CASE j \in 1 .. n
          BY <3>1, <4>2, <5>1 DEF Device, CopyOK
        <5>2. CASE j \notin 1 .. n
          BY <3>1, <5>2
        <5> QED BY <5>1, <5>2
      <4> QED BY <1>13, <3>1, <4>1, <4>2 DEF Device, CopyOK
    <3>2. CASE i = n + 1
      <4>1. Then(i, "free")'
        <5>1. i + 1 = n + 2
          BY <3>2
        <5> QED BY <3>2, <5>1 DEF Then
      <4> QED BY <3>2, <4>1 DEF Fills
    <3>3. CASE i = n + 2
      BY <3>3 DEF Fills
    <3> QED BY <3>1, <3>2, <3>3
  <2> QED BY <2>1, <2>2 DEF CopyOK
<1>15. MemoryOK'
  <2>1. \A r : (In("alloc", r)' <=> In("alloc", r)) /\ (In("h2d", r)' <=> In("h2d", r))
    OBVIOUS
  <2>2. \A r \in Range(pages) : ~In("free", r)'
    BY <1>13 DEF Device, MemoryOK
  <2> QED BY <1>11, <1>13, <2>1, <2>2 DEF Device, MemoryOK
<1>16. ReadersOK'
  <2>1. \A s \in ComputeStreams : s \notin busy'
    BY <1>11, QueueTypes
  <2>2. ASSUME NEW s \in ComputeStreams
        PROVE  (/\ \A i \in DOMAIN q[s] :
                     /\ q[s][i].op \in {"waitReady", "kernel", "recordDrained"}
                     /\ q[s][i].op = "kernel" => q[s][i].page \in Kept \cap filled
                /\ s \in busy /\ Head(q[s]).op = "waitReady" => ~In("recordReady", Head(q[s]).page))'
    BY <2>1
  <2> QED BY <2>2 DEF ReadersOK
<1> QED BY <1>14, <1>15, <1>16 DEF Device


LEMMA FreeInv == ASSUME GpuInv, Free PROVE GpuInv'
<1> USE DEF GpuInv
<1>0. PICK p, s0 : p = evicting[K] /\ s0 = compute
  OBVIOUS
<1>1. /\ call # <<>> /\ Head(call).do = "free" /\ Continue
      /\ q' = [q EXCEPT ![s0] = Append(@, Op("recordDrained", p)),
                        !["copy"] = @ \o <<Op("waitDrained", p), Op("free", p)>>]
      /\ UNCHANGED <<cacheVars, clientVars, victimVars, pageVars, compute, deviceVars>>
  BY <1>0 DEF Free, Now
<1>2. /\ 1 \in DOMAIN call /\ Head(call) = call[1] /\ K = call[1].key
      /\ <<>> \in Seq(StepType) /\ call' = <<>> \o Tail(call) /\ DOMAIN <<>> = {}
  BY <1>1, CallTypes, Continued
<1>3. /\ \A i \in DOMAIN call : i # 1 => \E j \in DOMAIN call' : call'[j] = call[i]
      /\ \A j \in DOMAIN call' : \E i \in DOMAIN call : i # 1 /\ call'[j] = call[i]
      /\ call' \in Seq(StepType)
  BY <1>1, <1>2, Replaced
<1>4. /\ UNCHANGED <<resident, pinned, pc, queue, victim, lost, pages, pending, evicting, graphs>>
      /\ UNCHANGED <<busy, live, filled>>
  BY <1>1 DEF cacheVars, clientVars, victimVars, pageVars, deviceVars
<1>5. /\ \A i \in DOMAIN call : call[i].do = "free" => i = 1
      /\ K \in DOMAIN evicting /\ \A s \in ComputeStreams : q[s] = <<>>
  BY <1>1, <1>2 DEF CallShape, StepOK, FreeOK
<1>6. p \in Page /\ Dropping = {p} /\ Dropping' = {} /\ p \in Kept /\ p \notin Range(pages)
  <2>1. p \in Page
    BY <1>0, <1>5 DEF Typed
  <2>2. Dropping = {p}
    BY <1>0, <1>1, <1>2, <1>5 DEF Dropping
  <2>3. \A j \in DOMAIN call' : call'[j].do # "free"
    BY <1>3, <1>5
  <2> QED BY <2>1, <2>2, <2>3 DEF Dropping, Kept, PagesOK
<1>7. PICK ops, last : ops = <<Op("waitDrained", p), Op("free", p)>> /\ last = Op("recordDrained", p)
  OBVIOUS
<1>8. /\ Op("waitDrained", p) \in OpType /\ Op("free", p) \in OpType /\ Op("recordDrained", p) \in OpType
      /\ \A op, r : Op(op, r).op = op /\ Op(op, r).page = r
  BY <1>6 DEF Op, OpType, Ops
<1>9. /\ ops \in Seq(OpType) /\ Len(ops) = 2 /\ ops[1].op = "waitDrained" /\ ops[2].op = "free"
      /\ ops[1].page = p /\ ops[2].page = p
  <2>1. PICK w, f : w = Op("waitDrained", p) /\ f = Op("free", p)
    OBVIOUS
  <2>2. /\ w \in OpType /\ w.op = "waitDrained" /\ w.page = p
        /\ f \in OpType /\ f.op = "free" /\ f.page = p
    BY <1>8, <2>1
  <2>3. ops = <<w, f>>
    BY <1>7, <2>1
  <2>4. ops \in Seq(OpType) /\ Len(ops) = 2 /\ ops[1] = w /\ ops[2] = f
    BY <2>2, <2>3
  <2> QED BY <2>2, <2>4
<1>10. /\ DOMAIN q' = Streams /\ q'[s0] = Append(q[s0], last)
       /\ q'["copy"] = q["copy"] \o ops /\ \A s \in ComputeStreams : s # s0 => q'[s] = q[s]
  <2>1. q' = [q EXCEPT ![s0] = Append(@, last), !["copy"] = @ \o ops]
    BY <1>1, <1>7, Zenon
  <2>2. s0 # "copy" /\ s0 \in Streams /\ "copy" \in Streams /\ DOMAIN q = Streams
        /\ "copy" \notin ComputeStreams /\ ComputeStreams \subseteq Streams
    BY <1>0, QueueTypes
  <2> QED BY <2>1, <2>2
<1>11. q'[s0] = <<last>> /\ last \in OpType /\ last.op = "recordDrained"
  <2>1. q[s0] = <<>>
    BY <1>0, <1>5, QueueTypes
  <2>2. \A e : Append(<<>>, e) = <<e>>
    OBVIOUS
  <2> QED BY <1>7, <1>8, <1>10, <2>1, <2>2, Zenon
<1>12. \A s \in ComputeStreams : q'[s] = <<last>> \/ q'[s] = <<>>
  BY <1>5, <1>10, <1>11, Zenon
<1>13. \A s \in ComputeStreams : \A i \in DOMAIN q'[s] : q'[s][i].op = "recordDrained"
  <2> SUFFICES ASSUME NEW s \in ComputeStreams, NEW i \in DOMAIN q'[s] PROVE q'[s][i].op = "recordDrained"
    OBVIOUS
  <2>1. PICK u : u = q'[s]
    OBVIOUS
  <2>2. u = <<last>> \/ u = <<>>
    BY <1>12, <2>1, Zenon
  <2>3. DOMAIN <<>> = {} /\ DOMAIN <<last>> = {1} /\ <<last>>[1] = last
    OBVIOUS
  <2>4. i \in DOMAIN u => u[i] = last
    BY <2>2, <2>3, Zenon
  <2> QED BY <1>11, <2>1, <2>4, Zenon
<1>14. PICK n \in Nat, m \in Nat : n = Len(Copy) /\ m = Len(ops) /\ m = 2
  BY <1>9, QueueTypes DEF Copy
<1>15. Copy' = Copy \o ops
  BY <1>10, Zenon DEF Copy
<1>16b. Behind(Copy, n, ops, m, Copy') /\ Copy' \in Seq(OpType)
  <2>1. Copy \in Seq(OpType) /\ ops \in Seq(OpType)
    BY <1>9, QueueTypes
  <2>2. Behind(Copy, Len(Copy), ops, Len(ops), Copy \o ops) /\ Copy \o ops \in Seq(OpType)
    BY <2>1, Extended
  <2> QED BY <1>14, <1>15, <2>2
<1>16. /\ Copy' \in Seq(OpType) /\ DOMAIN Copy = 1 .. n /\ DOMAIN Copy' = 1 .. n + m
       /\ \A i \in 1 .. n : i \in 1 .. n + m /\ Copy'[i] = Copy[i]
       /\ \A j \in 1 .. m : n + j \in 1 .. n + m /\ Copy'[n + j] = ops[j]
       /\ \A i \in 1 .. n + m : i \in 1 .. n \/ \E j \in 1 .. m : i = n + j
  BY <1>16b DEF Behind
<1>16a. \A op, r : In(op, r)' <=> In(op, r) \/ \E j \in 1 .. m : ops[j].op = op /\ ops[j].page = r
  BY <1>16b, CopyMore
<1> HIDE DEF GpuInv
<1>17. 1 \in 1 .. m /\ 2 \in 1 .. m /\ \A j \in 1 .. m : j = 1 \/ j = 2
  BY <1>14
<1>18. Device'
  <2>1. /\ DOMAIN Copy = 1 .. n /\ DOMAIN Copy' = 1 .. n + 2
        /\ \A i \in 1 .. n : i \in 1 .. n + 2 /\ Copy'[i] = Copy[i]
        /\ n + 1 \in 1 .. n + 2 /\ n + 2 \in 1 .. n + 2
        /\ \A i \in 1 .. n + 2 : i \in 1 .. n \/ i = n + 1 \/ i = n + 2
    BY <1>14, <1>16
  <2>2. /\ Copy'[n + 1].op = "waitDrained" /\ Copy'[n + 1].page = p
        /\ Copy'[n + 2].op = "free" /\ Copy'[n + 2].page = p
    BY <1>9, <1>16, <1>17, Zenon
  <2>3. \A op, r : In(op, r)' <=> In(op, r) \/ (r = p /\ op \in {"waitDrained", "free"})
    <3>1. ASSUME NEW op, NEW r
          PROVE  (\E j \in 1 .. m : ops[j].op = op /\ ops[j].page = r) <=> (r = p /\ op \in {"waitDrained", "free"})
      BY <1>9, <1>17
    <3> QED BY <1>16a, <3>1
  <2>4. UNCHANGED <<pages, deviceVars>>
    BY <1>1, <1>4
  <2> QED BY <1>5, <1>6, <1>13, <2>1, <2>2, <2>3, <2>4, FreeDevice DEF GpuInv
<1>19. C!IInv'
  BY <1>1, CacheStill DEF GpuInv
<1>20. Typed'
  <2>1. \A a \in OpType : <<a>> \in Seq(OpType)
    BY Listing
  <2>2. <<>> \in Seq(OpType)
    OBVIOUS
  <2>3. \A s \in Streams : q'[s] \in Seq(OpType)
    BY <1>11, <1>12, <1>16, <2>1, <2>2, QueueTypes, Zenon DEF Copy, GpuInv
  <2>4. q' \in [Streams -> Seq(OpType)]
    <3>1. q' = [s \in Streams |-> q'[s]]
      BY <1>1, <1>10 DEF GpuInv, Typed
    <3> QED BY <2>3, <3>1, Zenon
  <2>5. \A s \in busy : s \in Streams /\ q'[s] # <<>>
    <3>1. 1 \in DOMAIN Copy'
      BY <1>14, <1>16
    <3>2. Copy' # <<>>
      BY <3>1
    <3> QED BY <1>5, <3>2, QueueTypes, Zenon DEF GpuInv, Copy
  <2> QED BY <1>1, <1>3, <1>4, <2>4, <2>5 DEF GpuInv, Typed
<1>21. PagesOK'
  <2>1. \A k \in DOMAIN pages \ pending : pages[k] \in filled
    BY <1>1, AllArrived DEF GpuInv
  <2> QED BY <1>4, <1>6, <2>1 DEF GpuInv, PagesOK, Waited
<1>22. PlacesOK'
  <2>1. ASSUME NEW k \in resident \ DOMAIN pages
        PROVE  \E j \in DOMAIN call' : call'[j].do \in {"ensure", "fill"} /\ call'[j].key = k
    <3>1. PICK i \in DOMAIN call : call[i].do \in {"ensure", "fill"} /\ call[i].key = k
      BY DEF PlacesOK, GpuInv
    <3> QED BY <1>1, <1>2, <1>3, <3>1
  <2> QED BY <1>4, <2>1 DEF PlacesOK, GpuInv
<1>23. CallShape'
  BY <1>1, <1>2, <1>4, Reshape DEF GpuInv
<1> QED BY <1>18, <1>19, <1>20, <1>21, <1>22, <1>23 DEF GpuInv


-----------------------------------------------------------------------------
(* The page of a fill. *)

LEMMA FiniteRange ==
  ASSUME NEW f, IsFiniteSet(DOMAIN f), f = [x \in DOMAIN f |-> f[x]]
  PROVE  IsFiniteSet(Range(f))
<1>1. f \in [DOMAIN f -> Range(f)] /\ \A t \in Range(f) : \E s \in DOMAIN f : f[s] = t
  BY DEF Range
<1>2. f \in Surjection(DOMAIN f, Range(f))
  BY <1>1 DEF Surjection
<1> QED BY <1>2, FS_Surjection

LEMMA FinitePages ==
  ASSUME NEW s \in Seq(OpType)
  PROVE  IsFiniteSet({o.page : o \in ToSet(s)})
<1> DEFINE f == [i \in DOMAIN s |-> s[i].page]
<1>1. DOMAIN s = 1 .. Len(s) /\ Len(s) \in Nat
  BY LenProperties
<1>2. IsFiniteSet(DOMAIN f) /\ f = [x \in DOMAIN f |-> f[x]]
  BY <1>1, FS_Interval
<1>3. {o.page : o \in ToSet(s)} \subseteq Range(f)
  BY DEF ToSet, Range
<1> HIDE DEF f
<1> QED BY <1>2, <1>3, FiniteRange, FS_Subset

LEMMA FreshNew ==
  ASSUME Typed
  PROVE  /\ Fresh \in Page
         /\ Fresh \notin Range(pages) \cup Range(evicting) \cup live
         /\ \A s \in Streams : \A i \in DOMAIN q[s] : q[s][i].page # Fresh
<1> DEFINE On(s) == {o.page : o \in ToSet(q[s])}
           queued == UNION {On(s) : s \in Streams}
           used == Range(pages) \cup Range(evicting) \cup live \cup queued
           spare == 1 .. Cardinality(used) + 1 \ used
<1>1. IsFiniteSet(queued)
  <2>1. \A s \in Streams : IsFiniteSet(On(s))
    BY QueueTypes, FinitePages
  <2>2. CASE Streams = {"copy", "prefill"}
    <3>1. queued \subseteq On("copy") \cup On("prefill")
      BY <2>2
    <3> HIDE DEF On, queued
    <3>2. IsFiniteSet(On("copy") \cup On("prefill"))
      BY <2>1, <2>2, FS_Union
    <3> QED BY <3>1, <3>2, FS_Subset
  <2>3. CASE Streams = {"copy", "prefill", "decode"}
    <3>1. queued \subseteq (On("copy") \cup On("prefill")) \cup On("decode")
      BY <2>3
    <3> HIDE DEF On, queued
    <3>2. IsFiniteSet(On("copy") \cup On("prefill"))
      BY <2>1, <2>3, FS_Union
    <3>3. IsFiniteSet((On("copy") \cup On("prefill")) \cup On("decode"))
      BY <2>1, <2>3, <3>2, FS_Union
    <3> QED BY <3>1, <3>3, FS_Subset
  <2>4. Streams = {"copy", "prefill"} \/ Streams = {"copy", "prefill", "decode"}
    BY GpuAssumption DEF Streams
  <2> QED BY <2>2, <2>3, <2>4
<1>2. IsFiniteSet(Range(pages)) /\ IsFiniteSet(Range(evicting))
  <2>1. IsFiniteSet(DOMAIN pages) /\ IsFiniteSet(DOMAIN evicting)
    <3>1. IsFiniteSet(Catalog)
      BY GpuAssumption, SameSets DEF Cache!CacheAssumption
    <3> QED BY <3>1, FS_Subset DEF Typed
  <2> QED BY <2>1, FiniteRange DEF Typed
<1>3. IsFiniteSet(used)
  <2>1. IsFiniteSet(Range(pages) \cup Range(evicting))
    BY <1>2, FS_Union
  <2>2. IsFiniteSet((Range(pages) \cup Range(evicting)) \cup live)
    BY <2>1, FS_Union DEF Typed
  <2> HIDE DEF queued
  <2> QED BY <1>1, <2>2, FS_Union
<1>4. PICK c \in Nat : c = Cardinality(used)
  BY <1>3, FS_CardinalityType
<1>5. ~(1 .. c + 1 \subseteq used)
  <2>1. IsFiniteSet(1 .. c + 1) /\ Cardinality(1 .. c + 1) = c + 1
    BY FS_Interval
  <2> HIDE DEF used
  <2> QED BY <1>3, <1>4, <2>1, FS_Subset
<1>6. spare \subseteq Nat /\ spare # {} /\ spare = 1 .. c + 1 \ used
  <2> HIDE DEF used
  <2>1. 1 .. c + 1 \subseteq Nat
    OBVIOUS
  <2> QED BY <1>4, <1>5, <2>1
<1>7. Min(spare) \in spare
  <2> HIDE DEF spare
  <2> QED BY <1>6, SameAssumption, SameSequences, C!MinIn
<1>8. Fresh = Min(spare)
  BY DEF Fresh
<1>9. Fresh \in Page /\ Fresh \notin used
  <2> HIDE DEF used, spare
  <2>1. Fresh \in 1 .. c + 1 /\ Fresh \notin used
    BY <1>6, <1>7, <1>8
  <2> QED BY <2>1 DEF Page
<1>10. ASSUME NEW s \in Streams, NEW i \in DOMAIN q[s] PROVE q[s][i].page \in used
  BY DEF ToSet
<1> QED BY <1>9, <1>10


(* The fill of a new page goes behind everything the copy stream has to do. *)
LEMMA FillDevice ==
  ASSUME Typed, Device, NEW f, f \notin Owned \cup live, \A s \in Streams : \A i \in DOMAIN q[s] : q[s][i].page # f,
         UNCHANGED deviceVars, Kept' = Kept \cup {f},
         NEW n \in Nat, DOMAIN Copy = 1 .. n, DOMAIN Copy' = 1 .. n + 3,
         \A i \in 1 .. n : i \in 1 .. n + 3 /\ Copy'[i] = Copy[i],
         Copy'[n + 1].op = "alloc", Copy'[n + 1].page = f, n + 1 \in 1 .. n + 3,
         Copy'[n + 2].op = "h2d", Copy'[n + 2].page = f, n + 2 \in 1 .. n + 3,
         Copy'[n + 3].op = "recordReady", Copy'[n + 3].page = f, n + 3 \in 1 .. n + 3,
         \A i \in 1 .. n + 3 : i \in 1 .. n \/ i = n + 1 \/ i = n + 2 \/ i = n + 3,
         \A op, r : In(op, r)' <=> In(op, r) \/ (r = f /\ op \in Fills),
         \A s \in ComputeStreams : q'[s] = q[s]
  PROVE  Device'
<1>1. UNCHANGED <<busy, live, filled>>
  BY DEF deviceVars
<1>2. \A i \in 1 .. n : Copy[i].page # f
  BY QueueTypes DEF Copy
<1>3. \A op : ~In(op, f)
  BY <1>2 DEF In
<1>4. Leaving' = Leaving
  <2>1. ASSUME NEW r
        PROVE  r \in Leaving' <=> \E i \in 1 .. n + 3 : Copy'[i].op = "free" /\ ~(i = 1 /\ "copy" \in busy) /\ Copy'[i].page = r
    BY <1>1 DEF Leaving
  <2>2. ASSUME NEW r
        PROVE  r \in Leaving <=> \E i \in 1 .. n : Copy[i].op = "free" /\ ~(i = 1 /\ "copy" \in busy) /\ Copy[i].page = r
    BY DEF Leaving
  <2>3. ASSUME NEW r PROVE r \in Leaving' <=> r \in Leaving
    <3>1. ASSUME r \in Leaving' PROVE r \in Leaving
      <4>1. PICK i \in 1 .. n + 3 : Copy'[i].op = "free" /\ ~(i = 1 /\ "copy" \in busy) /\ Copy'[i].page = r
        BY <2>1, <3>1
      <4>2. i \in 1 .. n /\ Copy'[i] = Copy[i]
        BY <4>1
      <4> QED BY <2>2, <4>1, <4>2
    <3>2. ASSUME r \in Leaving PROVE r \in Leaving'
      <4>1. PICK i \in 1 .. n : Copy[i].op = "free" /\ ~(i = 1 /\ "copy" \in busy) /\ Copy[i].page = r
        BY <2>2, <3>2
      <4>2. i \in 1 .. n + 3 /\ Copy'[i] = Copy[i]
        OBVIOUS
      <4> QED BY <2>1, <4>1, <4>2
    <3> QED BY <3>1, <3>2
  <2> QED BY <2>3
<1>5. Owned' = Owned \cup {f}
  BY <1>4 DEF Owned
<1>6. CopyOK'
  <2>1. (\A i, j \in DOMAIN Copy : Copy[i].op = Copy[j].op /\ Copy[i].page = Copy[j].page => i = j)'
    <3> SUFFICES ASSUME NEW i \in 1 .. n + 3, NEW j \in 1 .. n + 3,
                        Copy'[i].op = Copy'[j].op, Copy'[i].page = Copy'[j].page
                 PROVE  i = j
      OBVIOUS
    <3>1. CASE i \in 1 .. n /\ j \in 1 .. n
      <4>1. \A k, l \in DOMAIN Copy : Copy[k].op = Copy[l].op /\ Copy[k].page = Copy[l].page => k = l
        BY DEF Device, CopyOK
      <4>2. Copy'[i] = Copy[i] /\ Copy'[j] = Copy[j] /\ i \in DOMAIN Copy /\ j \in DOMAIN Copy
        BY <3>1
      <4> QED BY <4>1, <4>2, Zenon
    <3>2. CASE ~(i \in 1 .. n /\ j \in 1 .. n)
      BY <1>2, <3>2
    <3> QED BY <3>1, <3>2
  <2>2. ASSUME NEW i \in 1 .. n + 3
        PROVE  /\ Copy'[i].op \in Fills \cup {"waitDrained", "free"}
               /\ (Copy[i].op = "alloc" => Then(i, "h2d"))'
               /\ (Copy[i].op = "h2d" => Then(i, "recordReady"))'
               /\ (Copy[i].op = "waitDrained" => Then(i, "free"))'
               /\ (Copy[i].op \in Fills =>
                     /\ Copy[i].page \in Owned
                     /\ \A j \in DOMAIN Copy : Copy[j].op = "free" /\ Copy[j].page = Copy[i].page => i < j)'
    <3>1. CASE i \in 1 .. n
      <4>1. \A op : Then(i, op) => Then(i, op)'
        BY <3>1 DEF Then
      <4>2. ASSUME NEW j \in 1 .. n + 3, Copy'[i].op \in Fills, Copy'[j].op = "free", Copy'[j].page = Copy'[i].page
            PROVE  i < j
        <5>1. CASE j \in 1 .. n
          BY <3>1, <4>2, <5>1 DEF Device, CopyOK
        <5>2. CASE j \notin 1 .. n
          BY <3>1, <5>2
        <5> QED BY <5>1, <5>2
      <4> QED BY <1>5, <3>1, <4>1, <4>2 DEF Device, CopyOK
    <3>2. CASE i \notin 1 .. n
      <4>1. Copy'[i].page = f /\ Copy'[i].op \in Fills /\ f \in Owned'
        BY <1>5, <3>2 DEF Fills
      <4>2. ~\E j \in DOMAIN Copy' : Copy'[j].op = "free" /\ Copy'[j].page = f
        BY <1>2
      <4>3. Copy'[i].op = "alloc" => Then(i, "h2d")'
        <5>1. Copy'[i].op = "alloc" => i = n + 1
          BY <3>2
        <5>2. (n + 1) + 1 = n + 2
          OBVIOUS
        <5> QED BY <5>1, <5>2 DEF Then
      <4>4. Copy'[i].op = "h2d" => Then(i, "recordReady")'
        <5>1. Copy'[i].op = "h2d" => i = n + 2
          BY <3>2
        <5>2. (n + 2) + 1 = n + 3
          OBVIOUS
        <5> QED BY <5>1, <5>2 DEF Then
      <4>5. Copy'[i].op # "waitDrained"
        BY <4>1 DEF Fills
      <4> QED BY <4>1, <4>2, <4>3, <4>4, <4>5
    <3> QED BY <3>1, <3>2
  <2> QED BY <2>1, <2>2 DEF CopyOK
<1>7. MemoryOK'
  <2>1. \A r : r # f => (In("alloc", r)' <=> In("alloc", r)) /\ (In("h2d", r)' <=> In("h2d", r))
    OBVIOUS
  <2>2. In("alloc", f)' /\ In("h2d", f)' /\ f \notin live /\ f \notin filled
    BY DEF Fills, Device, MemoryOK
  <2>3. \A r : In("free", r)' <=> In("free", r)
    BY DEF Fills
  <2> QED BY <1>1, <1>3, <1>5, <2>1, <2>2, <2>3 DEF Device, MemoryOK
<1>8. ReadersOK'
  <2>1. ASSUME NEW s \in ComputeStreams, s \in busy PROVE Head(q[s]) = q[s][1] /\ 1 \in DOMAIN q[s] /\ s \in Streams
    BY <2>1, QueueTypes, Parts
  <2>2. ASSUME NEW s \in ComputeStreams, s \in busy, NEW p, p = Head(q[s]).page, ~In("recordReady", p)
        PROVE  ~In("recordReady", p)'
    BY <2>1, <2>2
  <2>3. ASSUME NEW s \in ComputeStreams
        PROVE  (/\ \A i \in DOMAIN q[s] :
                     /\ q[s][i].op \in {"waitReady", "kernel", "recordDrained"}
                     /\ q[s][i].op = "kernel" => q[s][i].page \in Kept \cap filled
                /\ s \in busy /\ Head(q[s]).op = "waitReady" => ~In("recordReady", Head(q[s]).page))'
    <3>1. /\ q'[s] = q[s] /\ busy' = busy /\ Kept \subseteq Kept' /\ filled' = filled
      BY <1>1
    <3>2. /\ \A i \in DOMAIN q[s] :
               /\ q[s][i].op \in {"waitReady", "kernel", "recordDrained"}
               /\ q[s][i].op = "kernel" => q[s][i].page \in Kept \cap filled
          /\ s \in busy /\ Head(q[s]).op = "waitReady" => ~In("recordReady", Head(q[s]).page)
      BY DEF Device, ReadersOK
    <3> QED BY <2>2, <3>1, <3>2
  <2> QED BY <2>3 DEF ReadersOK
<1> QED BY <1>6, <1>7, <1>8 DEF Device


LEMMA FillInv == ASSUME GpuInv, Fill PROVE GpuInv'
<1>0. PICK f, e : f = Fresh /\ e = K
  OBVIOUS
<1>1. /\ call # <<>> /\ Head(call).do = "fill" /\ Continue
      /\ pages' = Placing(e, f, pages) /\ pending' = pending \cup {e}
      /\ q' = [q EXCEPT !["copy"] = @ \o <<Op("alloc", f), Op("h2d", f), Op("recordReady", f)>>]
      /\ UNCHANGED <<cacheVars, clientVars, victimVars, evicting, graphs, compute, deviceVars>>
  BY <1>0 DEF Fill, Now, Submit
<1>2. /\ 1 \in DOMAIN call /\ Head(call) = call[1] /\ e = call[1].key
      /\ <<>> \in Seq(StepType) /\ call' = <<>> \o Tail(call) /\ DOMAIN <<>> = {}
  BY <1>0, <1>1, CallTypes, Continued DEF GpuInv
<1>3. /\ \A i \in DOMAIN call : i # 1 => \E j \in DOMAIN call' : call'[j] = call[i]
      /\ \A j \in DOMAIN call' : \E i \in DOMAIN call : i # 1 /\ call'[j] = call[i]
      /\ call' \in Seq(StepType)
  BY <1>1, <1>2, Replaced DEF GpuInv
<1>4. /\ UNCHANGED <<resident, pinned, pc, queue, victim, lost, evicting, graphs>>
      /\ UNCHANGED <<busy, live, filled>>
  BY <1>1 DEF cacheVars, clientVars, victimVars, deviceVars
<1>5. e \in resident \ DOMAIN pages /\ e \in Catalog
  <2>1. e \in resident \ DOMAIN pages
    BY <1>1, <1>2 DEF GpuInv, CallShape, StepOK, FillOK
  <2> QED BY <2>1 DEF GpuInv, C!IInv, C!Listed
<1>6. /\ f \in Page /\ f \notin Range(pages) \cup Range(evicting) \cup live
      /\ \A s \in Streams : \A i \in DOMAIN q[s] : q[s][i].page # f
  BY <1>0, FreshNew DEF GpuInv
<1>7. Dropping = {} /\ Dropping' = {}
  <2>1. \A i \in DOMAIN <<>> : <<>>[i].do # "free"
    BY <1>2
  <2> QED BY <1>1, <1>2, <2>1, NoFrees DEF GpuInv
<1>8. /\ DOMAIN pages' = {e} \cup DOMAIN pages /\ pages'[e] = f
      /\ \A k \in DOMAIN pages : pages'[k] = pages[k]
      /\ Range(pages') = Range(pages) \cup {f}
      /\ pages' \in [DOMAIN pages' -> Page]
  <2>1. pages' = [k \in {e} \cup DOMAIN pages |-> IF k = e THEN f ELSE pages[k]]
    BY <1>1 DEF Placing
  <2>2. /\ DOMAIN pages' = {e} \cup DOMAIN pages /\ pages'[e] = f
        /\ \A k \in DOMAIN pages : pages'[k] = pages[k]
    BY <1>5, <2>1
  <2>3. Range(pages') = Range(pages) \cup {f}
    BY <1>5, <2>2 DEF Range
  <2>4. pages' \in [DOMAIN pages' -> Page]
    BY <1>6, <2>1 DEF GpuInv, Typed
  <2> QED BY <2>2, <2>3, <2>4
<1>9. Kept' = Kept \cup {f} /\ f \notin Owned \cup live
  <2>1. \A r \in Leaving : r # f
    BY <1>6, QueueTypes DEF Leaving, Copy, GpuInv
  <2> QED BY <1>6, <1>7, <1>8, <2>1 DEF Kept, Owned
<1>10. PICK ops : ops = <<Op("alloc", f), Op("h2d", f), Op("recordReady", f)>>
  OBVIOUS
<1>11. /\ DOMAIN q' = Streams /\ Copy' = Copy \o ops /\ \A s \in ComputeStreams : q'[s] = q[s]
  BY <1>1, <1>10, QueueTypes DEF Copy, GpuInv
<1>12. /\ ops \in Seq(OpType) /\ Len(ops) = 3
       /\ ops[1].op = "alloc" /\ ops[1].page = f /\ ops[2].op = "h2d" /\ ops[2].page = f
       /\ ops[3].op = "recordReady" /\ ops[3].page = f
  <2>1. PICK a, h, r : a = Op("alloc", f) /\ h = Op("h2d", f) /\ r = Op("recordReady", f)
    OBVIOUS
  <2>2. /\ a \in OpType /\ a.op = "alloc" /\ a.page = f
        /\ h \in OpType /\ h.op = "h2d" /\ h.page = f
        /\ r \in OpType /\ r.op = "recordReady" /\ r.page = f
    BY <1>6, <2>1 DEF Op, OpType, Ops
  <2>3. ops = <<a, h, r>>
    BY <1>10, <2>1
  <2>4. ops \in Seq(OpType) /\ Len(ops) = 3 /\ ops[1] = a /\ ops[2] = h /\ ops[3] = r
    BY <2>2, <2>3
  <2> QED BY <2>2, <2>4
<1>13. PICK n \in Nat, m \in Nat : n = Len(Copy) /\ m = Len(ops) /\ m = 3
  BY <1>12, QueueTypes DEF Copy, GpuInv
<1>14. Behind(Copy, n, ops, m, Copy') /\ Copy' \in Seq(OpType)
  <2>1. Copy \in Seq(OpType) /\ ops \in Seq(OpType)
    BY <1>12, QueueTypes DEF GpuInv
  <2>2. Behind(Copy, Len(Copy), ops, Len(ops), Copy \o ops) /\ Copy \o ops \in Seq(OpType)
    BY <2>1, Extended
  <2> QED BY <1>11, <1>13, <2>2
<1>15. /\ DOMAIN Copy = 1 .. n /\ DOMAIN Copy' = 1 .. n + m
       /\ \A i \in 1 .. n : i \in 1 .. n + m /\ Copy'[i] = Copy[i]
       /\ \A j \in 1 .. m : n + j \in 1 .. n + m /\ Copy'[n + j] = ops[j]
       /\ \A i \in 1 .. n + m : i \in 1 .. n \/ \E j \in 1 .. m : i = n + j
  BY <1>14 DEF Behind
<1>16. \A op, r : In(op, r)' <=> In(op, r) \/ \E j \in 1 .. m : ops[j].op = op /\ ops[j].page = r
  BY <1>14, CopyMore
<1>17. 1 \in 1 .. m /\ 2 \in 1 .. m /\ 3 \in 1 .. m /\ \A j \in 1 .. m : j = 1 \/ j = 2 \/ j = 3
  BY <1>13
<1>18. Device'
  <2>1. /\ DOMAIN Copy = 1 .. n /\ DOMAIN Copy' = 1 .. n + 3
        /\ \A i \in 1 .. n : i \in 1 .. n + 3 /\ Copy'[i] = Copy[i]
        /\ n + 1 \in 1 .. n + 3 /\ n + 2 \in 1 .. n + 3 /\ n + 3 \in 1 .. n + 3
        /\ \A i \in 1 .. n + 3 : i \in 1 .. n \/ i = n + 1 \/ i = n + 2 \/ i = n + 3
    BY <1>13, <1>15
  <2>2. /\ Copy'[n + 1].op = "alloc" /\ Copy'[n + 1].page = f
        /\ Copy'[n + 2].op = "h2d" /\ Copy'[n + 2].page = f
        /\ Copy'[n + 3].op = "recordReady" /\ Copy'[n + 3].page = f
    BY <1>12, <1>15, <1>17, Zenon
  <2>3. \A op, r : In(op, r)' <=> In(op, r) \/ (r = f /\ op \in Fills)
    <3>1. ASSUME NEW op, NEW r
          PROVE  (\E j \in 1 .. m : ops[j].op = op /\ ops[j].page = r) <=> (r = f /\ op \in Fills)
      BY <1>12, <1>17 DEF Fills
    <3> QED BY <1>16, <3>1
  <2>4. UNCHANGED deviceVars
    BY <1>1
  <2> QED BY <1>6, <1>9, <1>11, <2>1, <2>2, <2>3, <2>4, FillDevice DEF GpuInv
<1>19. C!IInv'
  BY <1>1, CacheStill DEF GpuInv
<1>20. Typed'
  <2>1. \A s \in Streams : q'[s] \in Seq(OpType)
    BY <1>11, <1>14, QueueTypes, Zenon DEF Copy, GpuInv
  <2>2. q' \in [Streams -> Seq(OpType)]
    <3>1. q' = [s \in Streams |-> q'[s]]
      BY <1>1, <1>11 DEF GpuInv, Typed
    <3> QED BY <2>1, <3>1, Zenon
  <2>3. \A s \in busy : s \in Streams /\ q'[s] # <<>>
    <3>1. 1 \in DOMAIN Copy'
      BY <1>13, <1>15
    <3>2. Copy' # <<>>
      BY <3>1
    <3> QED BY <1>11, <3>2, QueueTypes, Zenon DEF GpuInv, Copy
  <2> QED BY <1>1, <1>3, <1>4, <1>5, <1>8, <2>2, <2>3 DEF GpuInv, Typed
<1>21. PagesOK'
  <2>1. \A k \in DOMAIN pages \ pending : pages[k] \in filled
    BY <1>1, AllArrived DEF GpuInv
  <2>2. \A k, m1 \in DOMAIN pages' : pages'[k] = pages'[m1] => k = m1
    BY <1>6, <1>8 DEF GpuInv, PagesOK, Range
  <2>3. \A k \in DOMAIN pages' \ pending' : Waited(k)'
    BY <1>1, <1>4, <1>8, <2>1 DEF Waited
  <2> QED BY <1>4, <1>7, <2>2, <2>3 DEF GpuInv, PagesOK
<1>22. PlacesOK'
  <2>1. ASSUME NEW k \in resident \ DOMAIN pages'
        PROVE  \E j \in DOMAIN call' : call'[j].do \in {"ensure", "fill"} /\ call'[j].key = k
    <3>1. k # e /\ k \in resident \ DOMAIN pages
      BY <1>8
    <3>2. PICK i \in DOMAIN call : call[i].do \in {"ensure", "fill"} /\ call[i].key = k
      BY <3>1 DEF PlacesOK, GpuInv
    <3> QED BY <1>2, <1>3, <3>1, <3>2
  <2> QED BY <1>4, <1>5, <1>8, <2>1 DEF PlacesOK, GpuInv
<1>23. CallShape'
  <2>1. \A k \in resident : k \in DOMAIN pages \ pending => k \in DOMAIN pages' \ pending'
    BY <1>1, <1>5, <1>8
  <2>2. ~(Head(call).do \in {"waitCompute", "free", "syncCopy", "fault"})
    BY <1>1
  <2>3. \A i \in DOMAIN <<>> : <<>>[i].do # "fault" /\ StepOK(i)'
    BY <1>2
  <2> QED BY <1>1, <1>2, <1>4, <2>1, <2>2, <2>3, Reshape DEF GpuInv
<1> QED BY <1>18, <1>19, <1>20, <1>21, <1>22, <1>23 DEF GpuInv


-----------------------------------------------------------------------------
(* Kernels. *)

(* An operation of the compute stream bound now. *)
LEMMA ReadDevice ==
  ASSUME Typed, Device, NEW o \in OpType, o.op \in {"waitReady", "kernel"},
         o.op = "kernel" => o.page \in Kept \cap filled,
         Kept' = Kept, UNCHANGED deviceVars, q' = [q EXCEPT ![compute] = @ \o <<o>>]
  PROVE  /\ Device' /\ q' \in [Streams -> Seq(OpType)] /\ \A s \in busy : q'[s] # <<>>
         /\ \E i \in DOMAIN q'[compute] : q'[compute][i] = o
<1>0. PICK s0 : s0 = compute
  OBVIOUS
<1>1. s0 \in Streams /\ s0 \in ComputeStreams /\ s0 # "copy" /\ "copy" \in Streams /\ DOMAIN q = Streams
  BY <1>0, QueueTypes
<1>2. DOMAIN q' = Streams /\ q'[s0] = q[s0] \o <<o>> /\ \A s \in Streams : s # s0 => q'[s] = q[s]
  BY <1>0, <1>1
<1>3. PICK u, v, ops : u = q[s0] /\ v = q'[s0] /\ ops = <<o>>
  OBVIOUS
<1>4. u \in Seq(OpType) /\ ops \in Seq(OpType) /\ Len(ops) = 1 /\ ops[1] = o /\ v = u \o ops
  BY <1>1, <1>2, <1>3, QueueTypes
<1>5. PICK n \in Nat, m \in Nat : n = Len(u) /\ m = Len(ops) /\ m = 1
  BY <1>4, LenProperties
<1>6. Behind(u, n, ops, m, v) /\ v \in Seq(OpType)
  <2>1. Behind(u, Len(u), ops, Len(ops), u \o ops) /\ u \o ops \in Seq(OpType)
    BY <1>4, Extended
  <2> QED BY <1>4, <1>5, <2>1
<1>7. /\ DOMAIN u = 1 .. n /\ DOMAIN v = 1 .. n + 1 /\ n + 1 \in DOMAIN v /\ v[n + 1] = o
      /\ \A i \in 1 .. n : i \in DOMAIN v /\ v[i] = u[i]
      /\ \A i \in DOMAIN v : i \in 1 .. n \/ i = n + 1
  <2>1. /\ DOMAIN u = 1 .. n /\ DOMAIN v = 1 .. n + m
        /\ \A i \in 1 .. n : i \in 1 .. n + m /\ v[i] = u[i]
        /\ \A j \in 1 .. m : n + j \in 1 .. n + m /\ v[n + j] = ops[j]
        /\ \A i \in 1 .. n + m : i \in 1 .. n \/ \E j \in 1 .. m : i = n + j
    BY <1>6 DEF Behind
  <2>2. 1 \in 1 .. m /\ \A j \in 1 .. m : j = 1
    BY <1>5
  <2> QED BY <1>4, <1>5, <2>1, <2>2
<1>8. Copy' = Copy /\ \A op, p : In(op, p)' <=> In(op, p)
  BY <1>1, <1>2 DEF Copy, In
<1>9. UNCHANGED <<busy, live, filled>>
  BY DEF deviceVars
<1>10. Leaving' = Leaving /\ Owned' = Owned
  BY <1>8, <1>9 DEF Leaving, Owned
<1>11. CopyOK' /\ MemoryOK'
  BY <1>8, <1>9, <1>10 DEF Device, CopyOK, MemoryOK, Then
<1>12. s0 \in busy => Head(v) = v[1] /\ Head(u) = u[1] /\ v[1] = u[1]
  <2>1. ASSUME s0 \in busy PROVE u # <<>>
    BY <1>3, <2>1, QueueTypes
  <2>2. v # <<>>
    BY <1>7
  <2>3. ASSUME s0 \in busy PROVE 1 \in DOMAIN u /\ Head(u) = u[1]
    BY <1>4, <2>1, <2>3, Parts
  <2>4. Head(v) = v[1]
    BY <1>6, <2>2, Parts
  <2> QED BY <1>7, <2>3, <2>4
<1>13. ReadersOK'
  <2>1. ASSUME NEW s \in ComputeStreams
        PROVE  (/\ \A i \in DOMAIN q[s] :
                     /\ q[s][i].op \in {"waitReady", "kernel", "recordDrained"}
                     /\ q[s][i].op = "kernel" => q[s][i].page \in Kept \cap filled
                /\ s \in busy /\ Head(q[s]).op = "waitReady" => ~In("recordReady", Head(q[s]).page))'
    <3>1. /\ \A i \in DOMAIN q[s] :
               /\ q[s][i].op \in {"waitReady", "kernel", "recordDrained"}
               /\ q[s][i].op = "kernel" => q[s][i].page \in Kept \cap filled
          /\ s \in busy /\ Head(q[s]).op = "waitReady" => ~In("recordReady", Head(q[s]).page)
      BY DEF Device, ReadersOK
    <3>2. CASE s # s0
      <4>1. q'[s] = q[s]
        BY <1>2, <3>2, QueueTypes
      <4> QED BY <1>8, <1>9, <3>1, <4>1
    <3>3. CASE s = s0
      <4>1. \A i \in DOMAIN v : /\ v[i].op \in {"waitReady", "kernel", "recordDrained"}
                                /\ v[i].op = "kernel" => v[i].page \in Kept \cap filled
        BY <1>3, <1>7, <3>1, <3>3
      <4> QED BY <1>3, <1>8, <1>9, <1>12, <3>1, <3>3, <4>1
    <3> QED BY <3>2, <3>3
  <2> QED BY <2>1 DEF ReadersOK
<1>14. q' \in [Streams -> Seq(OpType)]
  <2>1. \A s \in Streams : q'[s] \in Seq(OpType)
    BY <1>2, <1>3, <1>6, QueueTypes, Zenon
  <2>2. q' = [s \in Streams |-> q'[s]]
    BY <1>1, <1>2
  <2> QED BY <2>1, <2>2, Zenon
<1>15. \A s \in busy : q'[s] # <<>>
  <2>1. v # <<>>
    BY <1>7
  <2> QED BY <1>2, <1>3, <2>1, QueueTypes, Zenon
<1> QED BY <1>0, <1>3, <1>7, <1>11, <1>13, <1>14, <1>15 DEF Device


(* A launch fits before the lease of its expert. *)
LEMMA LaunchFits ==
  ASSUME NEW i, NEW e, call'[i].do = "launch", call'[i].key = e,
         pc' = "experts", queue' # <<>>, e = Key', e \in resident', e \in DOMAIN pages' \ pending',
         \A j \in DOMAIN call' : j > i => call'[j].do = "lease"
  PROVE  StepOK(i)'
<1>1. UseOK(i)'
  BY DEF UseOK
<1>2. FaultOK(i)' /\ FillOK(i)' /\ FreeOK(i)' /\ SettledOK(i)' /\ PinOK(i)'
  BY DEF FaultOK, FillOK, FreeOK, SettledOK, PinOK
<1> QED BY <1>1, <1>2 DEF StepOK

(* A product finds the page of its expert. *)
LEMMA GemmPage ==
  ASSUME GpuInv, call # <<>>, Head(call).do \in {"gemm", "launch"}, NEW e, e = K
  PROVE  /\ e \in DOMAIN pages /\ pc = "experts" /\ queue # <<>> /\ e = Key /\ e \in resident /\ e \in Catalog
         /\ \A i \in DOMAIN call : i # 1 => call[i].do = "lease"
         /\ pages[e] \in Kept /\ pages[e] \in Page
<1> USE DEF GpuInv
<1>1. 1 \in DOMAIN call /\ Head(call) = call[1] /\ e = call[1].key /\ DOMAIN call = 1 .. Len(call)
  BY CallTypes
<1>2. UseOK(1)
  BY <1>1 DEF CallShape, StepOK
<1>3. /\ pc = "experts" /\ queue # <<>> /\ e = Key /\ e \in resident
      /\ \A j \in DOMAIN call : j > 1 => call[j].do = "lease"
  BY <1>1, <1>2 DEF UseOK
<1>4. \A i \in DOMAIN call : i # 1 => i > 1
  BY <1>1, CallTypes
<1>5. e \in DOMAIN pages
  BY <1>1, <1>3, <1>4 DEF PlacesOK
<1>6. e \in Catalog
  BY <1>5 DEF Typed
<1>7. pages[e] \in Kept /\ pages[e] \in Page
  BY <1>5 DEF Kept, Range, Typed
<1> QED BY <1>3, <1>4, <1>5, <1>6, <1>7

LEMMA GemmShape ==
  ASSUME GpuInv, Gemm, NEW e, e = K
  PROVE  \E pre \in Seq(StepType) :
           /\ call' = pre \o Tail(call)
           /\ \A i \in DOMAIN pre : pre[i].do \notin {"fault", "free"} /\ StepOK(i)'
           /\ pages[e] \in graphs \/ (1 \in DOMAIN call' /\ call'[1] = Step("syncCompute", e))
<1>1. /\ call # <<>> /\ Head(call).do = "gemm"
      /\ UNCHANGED <<cacheVars, routed, queue, victimVars, pages, evicting, graphs, compute, deviceVars>>
  BY DEF Gemm, Now
<1>2. /\ e \in DOMAIN pages /\ pc = "experts" /\ queue # <<>> /\ e = Key /\ e \in resident /\ e \in Catalog
      /\ \A i \in DOMAIN call : i # 1 => call[i].do = "lease"
  BY <1>1, GemmPage
<1>3. pending' = pending \ {e} /\ pc' = pc
  BY <1>2 DEF Gemm
<1>4. pc' = "experts" /\ queue' # <<>> /\ e = Key' /\ e \in resident' /\ e \in DOMAIN pages' \ pending'
  BY <1>1, <1>2, <1>3 DEF cacheVars, Key, Cache!Key
<1>5. Step("launch", e) \in StepType /\ Step("syncCompute", e) \in StepType
  BY <1>2 DEF Step, StepType, Dos
<1>6. ASSUME NEW pre \in Seq(StepType), call' = pre \o Tail(call)
      PROVE  /\ \A i \in DOMAIN pre : i \in DOMAIN call' /\ call'[i] = pre[i]
             /\ \A j \in DOMAIN call' : j \notin DOMAIN pre => call'[j].do = "lease"
  BY <1>1, <1>2, <1>6, Replaced DEF GpuInv
<1>7. CASE pages[e] \in graphs
  <2>1. PICK pre : pre = <<Step("launch", e)>>
    OBVIOUS
  <2>2. pre \in Seq(StepType) /\ DOMAIN pre = {1} /\ pre[1] = Step("launch", e)
    BY <1>5, <2>1
  <2>3. call' = pre \o Tail(call)
    BY <1>2, <1>7, <2>1 DEF Gemm
  <2>4. /\ 1 \in DOMAIN call' /\ call'[1] = Step("launch", e)
        /\ \A j \in DOMAIN call' : j # 1 => call'[j].do = "lease"
    BY <1>6, <2>2, <2>3
  <2>5. \A j \in DOMAIN call' : j > 1 => call'[j].do = "lease"
    BY <2>4
  <2>6. StepOK(1)'
    BY <1>4, <2>4, <2>5, StepParts, LaunchFits
  <2>7. \A i \in DOMAIN pre : pre[i].do \notin {"fault", "free"} /\ StepOK(i)'
    BY <2>2, <2>6, StepParts
  <2> QED BY <1>7, <2>2, <2>3, <2>7
<1>8. CASE pages[e] \notin graphs
  <2>1. PICK pre : pre = <<Step("syncCompute", e), Step("launch", e)>>
    OBVIOUS
  <2>2. /\ pre \in Seq(StepType) /\ DOMAIN pre = {1, 2}
        /\ pre[1] = Step("syncCompute", e) /\ pre[2] = Step("launch", e)
    BY <1>5, <2>1
  <2>3. call' = pre \o Tail(call)
    <3>1. Steps(<<"syncCompute", "launch">>, e) = pre
      BY <2>1, StepsOf
    <3>2. call' = Steps(<<"syncCompute", "launch">>, e) \o Tail(call)
      BY <1>2, <1>8 DEF Gemm
    <3> QED BY <3>1, <3>2, Zenon
  <2>4. /\ 1 \in DOMAIN call' /\ call'[1] = Step("syncCompute", e)
        /\ 2 \in DOMAIN call' /\ call'[2] = Step("launch", e)
        /\ \A j \in DOMAIN call' : j # 1 /\ j # 2 => call'[j].do = "lease"
    BY <1>6, <2>2, <2>3
  <2>5. \A j \in DOMAIN call' : j > 2 => call'[j].do = "lease"
    BY <2>4
  <2>6. call'[1].do = "syncCompute" /\ call'[2].do = "launch" /\ call'[2].key = e
    BY <2>4, StepParts
  <2>7. StepOK(1)' /\ StepOK(2)'
    BY <1>4, <2>5, <2>6, Plain, LaunchFits
  <2>8. \A i \in DOMAIN pre : pre[i].do \notin {"fault", "free"} /\ StepOK(i)'
    BY <2>2, <2>7, StepParts
  <2> QED BY <2>2, <2>3, <2>4, <2>8
<1> QED BY <1>7, <1>8

LEMMA GemmInv == ASSUME GpuInv, Gemm PROVE GpuInv'
<1>0. PICK e, s0 : e = K /\ s0 = compute
  OBVIOUS
<1>1. /\ call # <<>> /\ Head(call).do = "gemm"
      /\ UNCHANGED <<cacheVars, routed, queue, victimVars, pages, evicting, graphs, compute, deviceVars>>
  BY DEF Gemm, Now
<1>2. /\ e \in DOMAIN pages /\ pc = "experts" /\ e \in resident /\ e \in Catalog
      /\ pages[e] \in Kept /\ pages[e] \in Page
  BY <1>0, <1>1, GemmPage
<1>3. pending' = pending \ {e} /\ pc' = pc
  BY <1>0, <1>2 DEF Gemm
<1>4. PICK pre \in Seq(StepType) :
           /\ call' = pre \o Tail(call)
           /\ \A i \in DOMAIN pre : pre[i].do \notin {"fault", "free"} /\ StepOK(i)'
           /\ pages[e] \in graphs \/ (1 \in DOMAIN call' /\ call'[1] = Step("syncCompute", e))
  BY <1>0, GemmShape
<1>5. UNCHANGED <<clientVars, resident, pinned, pc, queue, victim, lost>>
  BY <1>1, <1>3 DEF clientVars, cacheVars, victimVars
<1>6. CASE ~(e \in pending /\ ~Arrived(e))
  <2>1. UNCHANGED q
    BY <1>0, <1>2, <1>6 DEF Gemm
  <2>2. pages[e] \in filled
    BY <1>1, <1>2, <1>6, PlacedArrived
  <2>3. evicting' \in [DOMAIN evicting' -> Page] /\ DOMAIN evicting' \subseteq Catalog
    BY <1>1 DEF GpuInv, Typed
  <2>4. pending' \subseteq pending /\ \A k \in pending \ pending' : pages[k] \in filled
    BY <1>3, <2>2
  <2> QED BY <1>1, <1>4, <1>5, <2>1, <2>3, <2>4, Quiet
<1>7. CASE e \in pending /\ ~Arrived(e)
  <2>1. PICK o : o = Op("waitReady", pages[e])
    OBVIOUS
  <2>2. o \in OpType /\ o.op = "waitReady" /\ o.page = pages[e]
    BY <1>2, <2>1 DEF Op, OpType, Ops
  <2>3. q' = [q EXCEPT ![compute] = @ \o <<o>>]
    BY <1>0, <1>2, <1>7, <2>1 DEF Gemm, Submit
  <2>4. Dropping = {} /\ Dropping' = {}
    BY <1>1, <1>4, NoFrees DEF GpuInv
  <2>5. Kept' = Kept
    BY <1>1, <2>4 DEF Kept
  <2>6. /\ Device' /\ q' \in [Streams -> Seq(OpType)] /\ \A s \in busy : q'[s] # <<>>
        /\ \E i \in DOMAIN q'[compute] : q'[compute][i] = o
    <3>1. o \in OpType /\ o.op \in {"waitReady", "kernel"} /\ ~(o.op = "kernel") /\ UNCHANGED deviceVars
      BY <1>1, <2>2
    <3> QED BY <2>3, <2>5, <3>1, ReadDevice DEF GpuInv
  <2>7. call' \in Seq(StepType) /\ \A i \in DOMAIN call : i # 1 => \E j \in DOMAIN call' : call'[j] = call[i]
    BY <1>1, <1>4, Replaced DEF GpuInv
  <2>8. C!IInv'
    BY <1>1, <1>5, CacheStill DEF GpuInv
  <2>9. Typed'
    BY <1>1, <1>3, <1>5, <2>6, <2>7, QueueTypes DEF GpuInv, Typed, deviceVars
  <2>10. PagesOK'
    <3>1. \A k \in DOMAIN pages \ pending : pages[k] \in filled
      BY <1>1, AllArrived DEF GpuInv
    <3>2. Waited(e)'
      <4>1. CASE pages[e] \in graphs
        BY <1>1, <4>1 DEF GpuInv, PagesOK, Waited, deviceVars
      <4>2. CASE 1 \in DOMAIN call' /\ call'[1] = Step("syncCompute", e)
        <5>1. call' # <<>> /\ Head(call') = call'[1]
          <6>1. call' # <<>>
            BY <4>2
          <6> QED BY <2>7, <6>1, Parts
        <5>2. \E i \in DOMAIN q'[s0] : q'[s0][i].op = "waitReady" /\ q'[s0][i].page = pages'[e]
          BY <1>0, <1>1, <2>2, <2>6
        <5>3. s0 = compute'
          BY <1>0, <1>1
        <5> QED BY <4>2, <5>1, <5>2, <5>3 DEF Waited
      <4> QED BY <1>4, <4>1, <4>2
    <3>3. ASSUME NEW k \in DOMAIN pages' \ pending' PROVE Waited(k)'
      <4>1. CASE k = e
        BY <3>2, <4>1
      <4>2. CASE k # e
        BY <1>1, <1>3, <3>1, <3>3, <4>2 DEF Waited, deviceVars
      <4> QED BY <4>1, <4>2
    <3> QED BY <1>1, <2>4, <3>3 DEF GpuInv, PagesOK, deviceVars
  <2>11. PlacesOK'
    <3>1. ASSUME NEW k \in resident \ DOMAIN pages
          PROVE  \E j \in DOMAIN call' : call'[j].do \in {"ensure", "fill"} /\ call'[j].key = k
      <4>1. PICK i \in DOMAIN call : call[i].do \in {"ensure", "fill"} /\ call[i].key = k
        BY DEF PlacesOK, GpuInv
      <4>2. i # 1
        BY <1>1, <4>1, CallTypes DEF GpuInv
      <4> QED BY <2>7, <4>1, <4>2
    <3> QED BY <1>1, <1>5, <3>1 DEF PlacesOK, GpuInv
  <2>12. CallShape'
    <3>1. \A k \in resident : k \in DOMAIN pages \ pending => k \in DOMAIN pages' \ pending'
      BY <1>1, <1>3
    <3>2. ~(Head(call).do \in {"waitCompute", "free", "syncCopy", "fault"})
      BY <1>1
    <3> QED BY <1>1, <1>4, <1>5, <3>1, <3>2, Reshape DEF GpuInv
  <2> QED BY <2>6, <2>8, <2>9, <2>10, <2>11, <2>12 DEF GpuInv
<1> QED BY <1>6, <1>7


LEMMA LaunchInv == ASSUME GpuInv, Launch PROVE GpuInv'
<1>0. PICK e : e = K
  OBVIOUS
<1>1. /\ call # <<>> /\ Head(call).do = "launch" /\ Continue /\ graphs' = graphs \cup {pages[e]}
      /\ UNCHANGED <<cacheVars, clientVars, victimVars, pages, pending, evicting, compute, deviceVars>>
  BY <1>0 DEF Launch, Now
<1>2. e \in DOMAIN pages /\ pages[e] \in Kept /\ pages[e] \in Page /\ pages[e] \in Range(pages)
  BY <1>0, <1>1, GemmPage DEF Range
<1>3. /\ <<>> \in Seq(StepType) /\ call' = <<>> \o Tail(call) /\ DOMAIN <<>> = {}
      /\ 1 \in DOMAIN call /\ Head(call) = call[1] /\ e = call[1].key
  BY <1>0, <1>1, Continued, CallTypes DEF GpuInv
<1>4. UNCHANGED <<resident, pinned, pc, queue, victim, lost, live, filled, busy>>
  BY <1>1 DEF clientVars, cacheVars, victimVars, deviceVars
<1>5. \A k \in DOMAIN pages \ pending : pages[k] \in filled
  BY <1>1, AllArrived DEF GpuInv
<1>6. pages[e] \in filled
  BY <1>1, <1>3, <1>5 DEF GpuInv, CallShape, StepOK, UseOK
<1>7. Dropping = {} /\ Dropping' = {}
  <2>1. \A i \in DOMAIN <<>> : <<>>[i].do # "free"
    BY <1>3
  <2> QED BY <1>1, <1>3, <2>1, NoFrees DEF GpuInv
<1>8. Kept' = Kept
  BY <1>1, <1>7 DEF Kept
<1>9. Device' /\ q' \in [Streams -> Seq(OpType)] /\ \A s \in busy : q'[s] # <<>>
  <2>1. PICK o : o = Op("kernel", pages[e])
    OBVIOUS
  <2>2. /\ o \in OpType /\ o.op \in {"waitReady", "kernel"} /\ UNCHANGED deviceVars
        /\ o.op = "kernel" => o.page \in Kept \cap filled
    BY <1>1, <1>2, <1>6, <2>1 DEF Op, OpType, Ops
  <2>3. q' = [q EXCEPT ![compute] = @ \o <<o>>]
    BY <1>0, <2>1 DEF Launch, Submit
  <2> QED BY <1>8, <2>2, <2>3, ReadDevice DEF GpuInv
<1>10. call' \in Seq(StepType) /\ \A i \in DOMAIN call : i # 1 => \E j \in DOMAIN call' : call'[j] = call[i]
  BY <1>1, <1>3, Replaced DEF GpuInv
<1>11. C!IInv'
  BY <1>1, CacheStill DEF GpuInv
<1>12. Typed'
  BY <1>1, <1>2, <1>4, <1>9, <1>10, QueueTypes DEF GpuInv, Typed
<1>13. PagesOK'
  BY <1>1, <1>4, <1>5, <1>6, <1>7 DEF GpuInv, PagesOK, Waited
<1>14. PlacesOK'
  <2>1. ASSUME NEW k \in resident \ DOMAIN pages
        PROVE  \E j \in DOMAIN call' : call'[j].do \in {"ensure", "fill"} /\ call'[j].key = k
    <3>1. PICK i \in DOMAIN call : call[i].do \in {"ensure", "fill"} /\ call[i].key = k
      BY DEF PlacesOK, GpuInv
    <3>2. i # 1
      BY <1>1, <1>3, <3>1
    <3> QED BY <1>10, <3>1, <3>2
  <2> QED BY <1>1, <1>4, <2>1 DEF PlacesOK, GpuInv
<1>15. CallShape'
  <2>1. ~(Head(call).do \in {"waitCompute", "free", "syncCopy", "fault"})
    BY <1>1
  <2>2. \A k \in resident : k \in DOMAIN pages \ pending => k \in DOMAIN pages' \ pending'
    BY <1>1
  <2>3. \A i \in DOMAIN <<>> : <<>>[i].do # "fault" /\ StepOK(i)'
    BY <1>3
  <2> QED BY <1>1, <1>3, <1>4, <2>1, <2>2, <2>3, Reshape DEF GpuInv
<1> QED BY <1>9, <1>11, <1>12, <1>13, <1>14, <1>15 DEF GpuInv

-----------------------------------------------------------------------------
(* The ends of the calls. *)

(* The last step leaves nothing. *)
LEMMA Ended ==
  ASSUME GpuInv, call # <<>>, Continue, \A i \in DOMAIN call : i = 1, Head(call).do \notin {"free", "ensure", "fill"}
  PROVE  /\ call' = <<>> /\ DOMAIN call' = {} /\ call' \in Seq(StepType)
         /\ Dropping = {} /\ Dropping' = {} /\ resident \subseteq DOMAIN pages
<1>1. /\ DOMAIN call = 1 .. Len(call) /\ Len(call) \in Nat \ {0} /\ Tail(call) \in Seq(StepType)
      /\ Len(Tail(call)) = Len(call) - 1 /\ Head(call) = call[1]
  BY Parts DEF GpuInv, Typed
<1>2. Len(call) = 1
  BY <1>1
<1>3. Len(Tail(call)) = 0
  BY <1>1, <1>2
<1>4. call' = <<>>
  BY <1>1, <1>3, EmptySeq DEF Continue
<1>5. DOMAIN call' = {} /\ call' \in Seq(StepType)
  BY <1>4
<1>6. resident \subseteq DOMAIN pages
  BY <1>1 DEF GpuInv, PlacesOK
<1>7. Dropping = {} /\ Dropping' = {}
  BY <1>1, <1>5 DEF Dropping
<1> QED BY <1>4, <1>5, <1>6, <1>7

(* The end of a call keeps the pages. *)
LEMMA EndInv ==
  ASSUME GpuInv, call # <<>>, Continue, \A i \in DOMAIN call : i = 1,
         Head(call).do \notin {"free", "ensure", "fill", "syncCompute"}, C!IInv',
         UNCHANGED <<resident, recency, victimVars, pageVars, compute, q, deviceVars>>
  PROVE  GpuInv'
<1> USE DEF GpuInv
<1>1. /\ call' = <<>> /\ DOMAIN call' = {} /\ call' \in Seq(StepType)
      /\ Dropping = {} /\ Dropping' = {} /\ resident \subseteq DOMAIN pages
  BY Ended
<1>2. UNCHANGED <<victim, lost, pages, pending, evicting, graphs, busy, live, filled>>
  BY DEF victimVars, pageVars, deviceVars
<1>3. Typed'
  BY <1>1, <1>2 DEF Typed
<1>4. Device'
  BY <1>1, <1>2, DeviceKept DEF Kept
<1>5. PagesOK'
  <2>1. \A k \in DOMAIN pages \ pending : pages[k] \in filled
    BY AllArrived
  <2> QED BY <1>1, <1>2, <2>1 DEF PagesOK, Waited
<1>6. PlacesOK'
  BY <1>1, <1>2 DEF PlacesOK
<1>7. CallShape'
  BY <1>1 DEF CallShape
<1> QED BY <1>3, <1>4, <1>5, <1>6, <1>7

LEMMA LeaseInv == ASSUME GpuInv, Lease PROVE GpuInv'
<1>1. /\ call # <<>> /\ Head(call).do = "lease" /\ Continue
      /\ \/ leased' = leased \cup {K} /\ pc' = "compute"
         \/ leased' = leased /\ pc' = "pin"
      /\ UNCHANGED <<resident, recency, pinned, routed, queue, victimVars, pageVars, compute, q, deviceVars>>
  BY DEF Lease, Now
<1>2. 1 \in DOMAIN call /\ Head(call) = call[1] /\ K = call[1].key /\ DOMAIN call = 1 .. Len(call)
  BY <1>1, CallTypes DEF GpuInv
<1>3. UseOK(1)
  BY <1>2 DEF GpuInv, CallShape, StepOK
<1>4. /\ pc = "experts" /\ queue # <<>> /\ K = Key /\ K \in resident
      /\ \A j \in DOMAIN call : ~(j > 1)
  BY <1>1, <1>2, <1>3 DEF UseOK
<1>5. \A i \in DOMAIN call : i = 1
  BY <1>2, <1>4, CallTypes DEF GpuInv
<1>6. C!IInv'
  <2>1. leased = {}
    BY <1>4 DEF GpuInv, C!IInv, C!LeaseScoped
  <2>2. C!Listed' /\ C!WithinSlots'
    BY <1>1, <1>4, <2>1 DEF GpuInv, C!IInv, C!Listed, C!WithinSlots
  <2>3. C!PinsFit' /\ C!CallOK'
    BY <1>1, <1>4 DEF GpuInv, C!IInv, C!PinsFit, C!Budget, C!CallOK
  <2>4. C!LeaseScoped'
    BY <1>1, <1>4, <2>1 DEF C!LeaseScoped, C!Key, Key, Cache!Key
  <2> QED BY <2>2, <2>3, <2>4 DEF C!IInv
<1> QED BY <1>1, <1>5, <1>6, EndInv

LEMMA PinnedInv == ASSUME GpuInv, Pinned PROVE GpuInv'
<1>1. /\ call # <<>> /\ Head(call).do = "pin" /\ Continue /\ pinned' = pinned \cup {K}
      /\ UNCHANGED <<resident, recency, leased, clientVars, victimVars, pageVars, compute, q, deviceVars>>
  BY DEF Pinned, Now
<1>2. 1 \in DOMAIN call /\ Head(call) = call[1] /\ K = call[1].key /\ DOMAIN call = 1 .. Len(call)
  BY <1>1, CallTypes DEF GpuInv
<1>3. PinOK(1)
  BY <1>2 DEF GpuInv, CallShape, StepOK
<1>4. /\ pc = "pins" /\ 1 = Len(call) /\ Cardinality(pinned) < Cache!Budget /\ K \in Catalog
      /\ K \in resident
  <2>1. \A j \in DOMAIN call : ~(j < 1)
    BY <1>2, CallTypes DEF GpuInv
  <2> QED BY <1>1, <1>2, <1>3, <2>1 DEF PinOK
<1>5. \A i \in DOMAIN call : i = 1
  <2>1. PICK n : n = Len(call)
    OBVIOUS
  <2>2. DOMAIN call = 1 .. n /\ n = 1
    BY <1>2, <1>4, <2>1
  <2>3. \A i \in 1 .. 1 : i = 1
    OBVIOUS
  <2> QED BY <2>2, <2>3, Zenon
<1>6. C!IInv'
  <2>1. Cardinality(pinned \cup {K}) <= Cache!Budget
    <3>1. pinned \subseteq Catalog /\ C!Cardinality(pinned) < C!Budget
      BY <1>4, SameSets, SameTier DEF GpuInv, C!IInv, C!Listed
    <3>2. C!Cardinality(pinned \cup {K}) <= C!Budget
      BY <3>1, SameAssumption, C!PinMore
    <3> QED BY <3>2, SameSets, SameTier
  <2>2. C!Listed' /\ C!WithinSlots'
    BY <1>1, <1>4 DEF GpuInv, C!IInv, C!Listed, C!WithinSlots
  <2>3. C!PinsFit'
    BY <1>1, <2>1, SameSets, SameTier DEF C!PinsFit, C!Budget
  <2>4. C!CallOK' /\ C!LeaseScoped'
    BY <1>1 DEF GpuInv, C!IInv, C!CallOK, C!LeaseScoped, C!Key, clientVars
  <2> QED BY <2>2, <2>3, <2>4 DEF C!IInv
<1> QED BY <1>1, <1>5, <1>6, EndInv


-----------------------------------------------------------------------------
(* Experts come and go. *)

(* Away from a product the cache can always take one more expert. *)
LEMMA NeverStuck ==
  ASSUME C!IInv, pc # "compute" PROVE ~Cache!Stuck
BY SameAssumption, SameTier, C!InvImpliesServed DEF C!DemandServed

(* What a miss does to the cache and to its last victim. *)
LEMMA Missed ==
  ASSUME C!IInv, pc # "compute", NEW e \in Catalog \ resident, CacheFault(e), UNCHANGED <<leased, pinned>>
  PROVE  /\ e \in resident' /\ resident' \subseteq resident \cup {e} /\ resident' \subseteq Catalog
         /\ resident \subseteq resident' \cup victim' /\ victim' \cap resident' = {}
         /\ victim' \subseteq Catalog /\ (\A v, w \in victim' : v = w)
         /\ lost' = (lost \cup victim) \ {e}
         /\ C!Listed' /\ C!WithinSlots'
<1> USE DEF C!IInv
<1>1. C!FaultIn(e, TRUE)
  BY SameFaultIn DEF CacheFault
<1>2. ~C!Stuck
  BY NeverStuck, SameTier
<1>3. /\ resident' \subseteq Catalog
      /\ recency' \in C!Seq(Catalog) /\ C!Once(recency') /\ C!ToSet(recency') = resident'
      /\ leased \cup pinned \subseteq resident' /\ (TRUE <=> e \in resident')
      /\ C!WithinSlots'
  BY <1>1, <1>2, SameAssumption, C!FaultInListed
<1>4. C!Listed'
  BY <1>3 DEF C!Listed
<1>5. victim' = (IF C!Room THEN {} ELSE {C!Victim}) /\ lost' = (lost \cup victim) \ {e}
  BY SameTier DEF CacheFault
<1>6. /\ C!Room => resident' = resident \cup {e}
      /\ ~C!Room => /\ resident' = (resident \ {C!Victim}) \cup {e}
                    /\ C!Victim \in resident
  <2>1. CASE C!Room
    BY <1>1, <2>1 DEF C!FaultIn, C!Listed
  <2>2. CASE ~C!Room
    <3>0. C!Listed
      OBVIOUS
    <3>1. C!Victim \in resident
      BY <1>2, <2>2, <3>0, SameAssumption, C!VictimFree
    <3>2. C!ToSet(C!Without(C!Victim)) = resident \ {C!Victim}
      BY <3>1, SameAssumption, C!WithoutListed
    <3> QED BY <1>1, <2>2, <3>1, <3>2 DEF C!FaultIn
  <2> QED BY <2>1, <2>2
<1>7. resident \subseteq Catalog
  BY DEF C!Listed
<1>8. CASE C!Room
  BY <1>3, <1>4, <1>5, <1>6, <1>7, <1>8
<1>9. CASE ~C!Room
  BY <1>3, <1>4, <1>5, <1>6, <1>7, <1>9
<1> QED BY <1>8, <1>9

(* What changes no page and no queue keeps them in order. *)
LEMMA Unmoved ==
  ASSUME GpuInv, call = <<>> \/ Head(call).do # "syncCompute", Dropping = {}, Dropping' = {},
         call' \in Seq(StepType), compute' \in ComputeStreams,
         UNCHANGED <<pages, pending, graphs, q, deviceVars>>,
         evicting' \in [DOMAIN evicting' -> Page], DOMAIN evicting' \subseteq Catalog,
         victim' \subseteq Catalog, \A v, w \in victim' : v = w, lost' \subseteq Catalog
  PROVE  Typed' /\ Device' /\ PagesOK'
<1>1. UNCHANGED <<busy, live, filled>>
  BY DEF deviceVars
<1>2. Typed'
  BY <1>1 DEF GpuInv, Typed
<1>3. Device'
  BY DeviceKept DEF GpuInv, Kept
<1>4. \A k \in DOMAIN pages \ pending : pages[k] \in filled
  BY AllArrived DEF GpuInv
<1>5. PagesOK'
  BY <1>1, <1>4 DEF GpuInv, PagesOK, Waited
<1> QED BY <1>2, <1>3, <1>5

(* The cache after a miss, for a call that is not computing. *)
LEMMA MissedInv ==
  ASSUME C!IInv, pc # "compute", NEW e \in Catalog \ resident, CacheFault(e),
         UNCHANGED <<leased, pinned, pc, routed>>, queue' = queue
  PROVE  C!IInv'
<1>1. C!Listed' /\ C!WithinSlots'
  BY Missed
<1>2. C!PinsFit' /\ C!CallOK' /\ C!LeaseScoped'
  BY DEF C!IInv, C!PinsFit, C!Budget, C!CallOK, C!LeaseScoped, C!Key
<1> QED BY <1>1, <1>2 DEF C!IInv

LEMMA FaultInv == ASSUME GpuInv, Fault PROVE GpuInv'
<1>0. PICK e : e = K
  OBVIOUS
<1>1. /\ call # <<>> /\ Head(call).do = "fault"
      /\ UNCHANGED <<leased, pinned, pc, routed, pageVars, compute, q, deviceVars>>
      /\ UNCHANGED <<pages, pending, evicting, graphs>>
  BY DEF Fault, Now, pageVars
<1>2. 1 \in DOMAIN call /\ Head(call) = call[1] /\ e = call[1].key /\ DOMAIN call = 1 .. Len(call)
  BY <1>0, <1>1, CallTypes DEF GpuInv
<1>3. pc \in {"prefetch", "predict", "pins"} /\ \E j \in DOMAIN call : j > 1 /\ call[j].do = "ensure" /\ call[j].key = e
  BY <1>1, <1>2 DEF GpuInv, CallShape, StepOK, FaultOK
<1>4. /\ Continue /\ queue' = queue
      /\ \/ /\ e \in resident \/ e \notin Catalog
            /\ UNCHANGED <<resident, recency, victim, lost>>
         \/ e \in Catalog \ resident /\ CacheFault(e)
  <2>1. ~Cache!Stuck
    BY <1>3, NeverStuck DEF GpuInv
  <2> QED BY <1>0, <1>1, <2>1 DEF Fault, CacheStuck, victimVars
<1>5. /\ <<>> \in Seq(StepType) /\ call' = <<>> \o Tail(call) /\ DOMAIN <<>> = {}
  BY <1>1, <1>4, Continued DEF GpuInv
<1>6. call' \in Seq(StepType) /\ \A i \in DOMAIN call : i # 1 => \E j \in DOMAIN call' : call'[j] = call[i]
  BY <1>1, <1>5, Replaced DEF GpuInv
<1>7. Dropping = {} /\ Dropping' = {}
  <2>1. \A i \in DOMAIN <<>> : <<>>[i].do # "free"
    BY <1>5
  <2> QED BY <1>1, <1>5, <2>1, NoFrees DEF GpuInv
<1>8. /\ C!IInv' /\ resident' \subseteq resident \cup {e} /\ resident \subseteq resident' \cup victim'
      /\ victim' \cap resident' = {} /\ victim' \subseteq Catalog /\ (\A v, w \in victim' : v = w)
      /\ lost' \subseteq Catalog
      /\ (e \in Catalog => e \in resident')
      /\ DOMAIN pages \subseteq resident' \cup victim' \cup lost'
  <2>1. CASE UNCHANGED <<resident, recency, victim, lost>> /\ (e \in resident \/ e \notin Catalog)
    <3>1. C!IInv'
      BY <1>1, <1>4, <2>1, CacheStill DEF GpuInv, cacheVars, clientVars
    <3> QED BY <2>1, <3>1 DEF GpuInv, Typed, PlacesOK
  <2>2. CASE e \in Catalog \ resident /\ CacheFault(e)
    <3>1. /\ e \in resident' /\ resident' \subseteq resident \cup {e}
          /\ resident \subseteq resident' \cup victim' /\ victim' \cap resident' = {}
          /\ victim' \subseteq Catalog /\ (\A v, w \in victim' : v = w)
          /\ lost' = (lost \cup victim) \ {e}
      BY <1>1, <1>3, <2>2, Missed DEF GpuInv
    <3>2. C!IInv'
      BY <1>1, <1>3, <1>4, <2>2, MissedInv DEF GpuInv
    <3> QED BY <3>1, <3>2 DEF GpuInv, Typed, PlacesOK
  <2> QED BY <1>4, <2>1, <2>2
<1>9. Typed' /\ Device' /\ PagesOK'
  <2>1. /\ evicting' \in [DOMAIN evicting' -> Page] /\ DOMAIN evicting' \subseteq Catalog
        /\ compute' \in ComputeStreams
    BY <1>1 DEF GpuInv, Typed
  <2> QED BY <1>1, <1>6, <1>7, <1>8, <2>1, Unmoved
<1>10. PlacesOK'
  <2>1. ASSUME NEW k \in resident' \ DOMAIN pages
        PROVE  \E j \in DOMAIN call' : call'[j].do \in {"ensure", "fill"} /\ call'[j].key = k
    <3>1. CASE k = e
      <4>1. PICK i \in DOMAIN call : i > 1 /\ call[i].do = "ensure" /\ call[i].key = e
        BY <1>3
      <4>2. i # 1
        BY <1>2, <4>1, CallTypes DEF GpuInv
      <4> QED BY <1>6, <3>1, <4>1, <4>2
    <3>2. CASE k # e
      <4>1. PICK i \in DOMAIN call : call[i].do \in {"ensure", "fill"} /\ call[i].key = k
        BY <1>8, <2>1, <3>2 DEF GpuInv, PlacesOK
      <4>2. i # 1
        BY <1>2, <3>2, <4>1
      <4> QED BY <1>6, <4>1, <4>2
    <3> QED BY <3>1, <3>2
  <2> QED BY <1>1, <1>8, <2>1 DEF PlacesOK
<1>11. CallShape'
  <2>1. ~(Head(call).do \in {"waitCompute", "free", "syncCopy"})
    BY <1>1
  <2>2. \A i \in DOMAIN <<>> : <<>>[i].do # "fault" /\ StepOK(i)'
    BY <1>5
  <2>3. K \in Catalog => K \in resident'
    BY <1>0, <1>8
  <2> QED BY <1>1, <1>4, <1>5, <2>1, <2>2, <2>3, Reshape DEF GpuInv
<1> QED BY <1>8, <1>9, <1>10, <1>11 DEF GpuInv


-----------------------------------------------------------------------------
(* The calls. *)

(* Between calls every resident expert has its page. *)
LEMMA BetweenCalls ==
  ASSUME GpuInv, Idle
  PROVE  /\ resident \subseteq DOMAIN pages /\ Dropping = {} /\ call = <<>> /\ DOMAIN call = {}
         /\ \A k \in DOMAIN pages \ pending : pages[k] \in filled
<1>1. call = <<>> /\ DOMAIN call = {}
  BY DEF Idle
<1> QED BY <1>1, AllArrived, NoDropping DEF GpuInv, PlacesOK

(* A call begins and no page is given up. *)
LEMMA Opened ==
  ASSUME GpuInv, Idle, C!IInv',
         call' \in Seq(StepType), \A i \in DOMAIN call' : call'[i].do # "free" /\ StepOK(i)',
         call' # <<>> => pc' \in {"idle", "prefetch", "predict", "experts", "pins"},
         compute' \in ComputeStreams, evicting' = Swept \/ evicting' = evicting,
         UNCHANGED <<pages, pending, graphs, q, deviceVars>>,
         victim' \subseteq Catalog, \A v, w \in victim' : v = w, lost' \subseteq Catalog,
         DOMAIN pages \subseteq resident' \cup victim' \cup lost', victim' \cap resident' = {},
         \A k \in resident' \ resident : \E i \in DOMAIN call' : call'[i].do = "ensure" /\ call'[i].key = k
  PROVE  GpuInv'
<1>1. resident \subseteq DOMAIN pages /\ Dropping = {} /\ call = <<>>
  BY BetweenCalls
<1>2. Dropping' = {}
  BY DEF Dropping
<1>3. evicting' \in [DOMAIN evicting' -> Page] /\ DOMAIN evicting' \subseteq Catalog
  <2>1. CASE evicting' = Swept
    BY <2>1, SweptTyped DEF GpuInv
  <2>2. CASE evicting' = evicting
    BY <2>2 DEF GpuInv, Typed
  <2> QED BY <2>1, <2>2
<1>4. Typed' /\ Device' /\ PagesOK'
  BY <1>1, <1>2, <1>3, Unmoved
<1>5. PlacesOK'
  BY <1>1 DEF PlacesOK
<1>6. CallShape'
  BY DEF CallShape
<1> QED BY <1>4, <1>5, <1>6 DEF GpuInv

(* Nothing is asked of the device, and the cache keeps its experts. *)
LEMMA Passed ==
  ASSUME GpuInv, Idle, C!IInv', call' = call, compute' \in ComputeStreams,
         UNCHANGED <<resident, victimVars, pageVars, q, deviceVars>>
  PROVE  GpuInv'
<1>1. call' = <<>> /\ DOMAIN call' = {} /\ call' \in Seq(StepType)
  BY BetweenCalls
<1>2. UNCHANGED <<victim, lost, pages, pending, evicting, graphs>>
  BY DEF victimVars, pageVars
<1> QED BY <1>1, <1>2, Opened DEF GpuInv, Typed, PlacesOK

LEMMA ClientInv == ASSUME GpuInv, Client PROVE GpuInv'
<1>1. Idle /\ UNCHANGED <<victimVars, pageVars, compute, call, q, deviceVars>>
  BY DEF Client
<1>2. C!IInv' /\ resident' = resident
  <2>1. CASE \E groups \in Routes : Cache!Route(groups)
    <3>1. PICK groups \in Routes : C!Route(groups)
      BY <2>1, SameClient
    <3>2. resident' = resident
      BY <3>1 DEF C!Route, C!storeVars
    <3> QED BY <3>1, <3>2, SameAssumption, C!RouteInv DEF GpuInv
  <2>2. CASE \E b \in BOOLEAN : Cache!Compute(b)
    <3>1. PICK b \in BOOLEAN : C!Compute(b)
      BY <2>2, SameClient
    <3>2. resident' = resident
      BY <3>1 DEF C!Compute
    <3> QED BY <3>1, <3>2, SameAssumption, C!ComputeInv DEF GpuInv
  <2>3. CASE \E plan \in Plans : Cache!RoutedDone(plan)
    <3>1. PICK plan \in Plans : C!RoutedDone(plan)
      BY <2>3, SameClient
    <3>2. resident' = resident
      BY <3>1 DEF C!RoutedDone, C!storeVars
    <3> QED BY <3>1, <3>2, SameAssumption, C!OthersInv DEF GpuInv
  <2>4. CASE \E hot \in Hot : Cache!PinStart(hot)
    <3>1. PICK hot \in Hot : C!PinStart(hot)
      BY <2>4, SameClient
    <3>2. resident' = resident
      BY <3>1 DEF C!PinStart
    <3> QED BY <3>1, <3>2, SameAssumption, C!OthersInv DEF GpuInv
  <2>5. CASE Cache!PredictDone \/ Cache!LayerDone \/ Cache!PinsDone
    <3>1. C!PredictDone \/ C!LayerDone \/ C!PinsDone
      BY <2>5, SameClient
    <3>2. resident' = resident
      BY <3>1 DEF C!PredictDone, C!LayerDone, C!PinsDone, C!storeVars
    <3> QED BY <3>1, <3>2, SameAssumption, C!OthersInv DEF GpuInv
  <2> QED BY <2>1, <2>2, <2>3, <2>4, <2>5 DEF Client, ClientStep
<1>3. compute' \in ComputeStreams
  BY <1>1 DEF GpuInv, Typed
<1> QED BY <1>1, <1>2, <1>3, Passed

LEMMA BindInv == ASSUME GpuInv, NEW s \in ComputeStreams, Bind(s) PROVE GpuInv'
<1>1. /\ Idle /\ compute' = s
      /\ UNCHANGED <<cacheVars, clientVars, victimVars, pageVars, call, q, deviceVars>>
  BY DEF Bind
<1>2. C!IInv'
  BY <1>1, CacheStill DEF GpuInv
<1> QED BY <1>1, <1>2, Passed DEF cacheVars

LEMMA ClockInv == ASSUME GpuInv, Clock PROVE GpuInv'
<1>1. /\ Idle /\ pc = "idle"
      /\ UNCHANGED <<cacheVars, clientVars, victimVars, pageVars, compute, q, deviceVars>>
  BY DEF Clock
<1>2. PICK e \in Catalog, w \in {"syncAll", "syncDecode"} : call' = <<Step(w, e), Step("sweep", e)>>
  <2>1. PICK e : e = CHOOSE k \in Catalog : TRUE
    OBVIOUS
  <2>2. e \in Catalog
    BY <2>1, GpuAssumption
  <2>3. PICK w \in {"syncAll", "syncDecode"} : call' = Steps(<<w, "sweep">>, e)
    BY <2>1 DEF Clock
  <2>4. call' = <<Step(w, e), Step("sweep", e)>>
    BY <2>3, StepsOf
  <2> QED BY <2>2, <2>4
<1>3. /\ Step(w, e) \in StepType /\ Step("sweep", e) \in StepType
      /\ Step(w, e).do = w /\ Step("sweep", e).do = "sweep"
  BY DEF Step, StepType, Dos
<1>4. call' \in Seq(StepType) /\ DOMAIN call' = {1, 2} /\ call'[1].do = w /\ call'[2].do = "sweep"
  <2>1. PICK a \in StepType, b \in StepType : a = Step(w, e) /\ b = Step("sweep", e)
    BY <1>3
  <2> QED BY <1>2, <1>3, <2>1
<1>5. \A i \in DOMAIN call' : call'[i].do # "free" /\ StepOK(i)'
  <2>1. ASSUME NEW i \in {1, 2} PROVE call'[i].do \in {"syncDecode", "syncAll", "sweep"}
    BY <1>4
  <2>2. ASSUME NEW i \in {1, 2} PROVE StepOK(i)'
    BY <2>1, Plain
  <2> QED BY <1>4, <2>1, <2>2
<1>6. C!IInv' /\ UNCHANGED <<resident, pc, victim, lost, pages, pending, evicting, graphs>>
  BY <1>1, CacheStill DEF GpuInv, cacheVars, clientVars, victimVars, pageVars
<1> QED BY <1>1, <1>4, <1>5, <1>6, Opened DEF GpuInv, Typed, PlacesOK


(* The steps of a prefetch: every key is faulted in, then placed. *)
LEMMA PrefetchSteps ==
  ASSUME NEW keys \in C!Group,
         call' = [i \in DOMAIN keys |-> Step("fault", keys[i])]
                 \o [i \in DOMAIN keys |-> Step("ensure", keys[i])],
         pc' \in {"prefetch", "predict"}
  PROVE  call' \in Seq(StepType) /\ \A i \in DOMAIN call' : call'[i].do # "free" /\ StepOK(i)'
<1> DEFINE F == [i \in DOMAIN keys |-> Step("fault", keys[i])]
           E == [i \in DOMAIN keys |-> Step("ensure", keys[i])]
<1>1. PICK n \in Nat : n = Len(keys)
  BY LenProperties DEF C!Group
<1>2. DOMAIN keys = 1 .. n /\ \A i \in 1 .. n : keys[i] \in Catalog \cup Unknown
  BY <1>1, LenProperties, ElementOfSeq DEF C!Group
<1>3. /\ F = [i \in 1 .. n |-> Step("fault", keys[i])] /\ E = [i \in 1 .. n |-> Step("ensure", keys[i])]
      /\ \A i \in 1 .. n : Step("fault", keys[i]) \in StepType /\ Step("ensure", keys[i]) \in StepType
  BY <1>2 DEF Step, StepType, Dos
<1>4. F \in Seq(StepType) /\ E \in Seq(StepType) /\ Len(F) = n /\ Len(E) = n
  BY <1>3
<1>5. call' = F \o E
  OBVIOUS
<1>6. /\ \A i \in 1 .. n : F[i].do = "fault" /\ F[i].key = keys[i]
      /\ \A i \in 1 .. n : E[i].do = "ensure" /\ E[i].key = keys[i]
  BY <1>3 DEF Step
<1> HIDE DEF F, E
<1>7. /\ call' \in Seq(StepType) /\ DOMAIN call' = 1 .. n + n
      /\ \A i \in 1 .. n : call'[i] = F[i]
      /\ \A i \in 1 .. n : call'[n + i] = E[i]
  <2>1. PICK f \in Seq(StepType), g \in Seq(StepType) : f = F /\ g = E
    BY <1>4
  <2>2. /\ f \o g \in Seq(StepType) /\ DOMAIN (f \o g) = 1 .. Len(f) + Len(g)
        /\ \A i \in 1 .. Len(f) : (f \o g)[i] = f[i]
        /\ \A i \in 1 .. Len(g) : (f \o g)[Len(f) + i] = g[i]
    BY Joined
  <2> QED BY <1>4, <1>5, <2>1, <2>2, Zenon
<1>8. /\ \A i \in 1 .. n + n : i \in 1 .. n \/ \E m \in 1 .. n : i = n + m
      /\ \A i \in 1 .. n : n + i \in 1 .. n + n /\ n + i > i
  <2>1. ASSUME NEW i \in 1 .. n + n, i \notin 1 .. n PROVE i - n \in 1 .. n /\ i = n + (i - n)
    BY <2>1
  <2> QED BY <2>1
<1>9. ASSUME NEW i \in 1 .. n PROVE call'[i].do # "free" /\ StepOK(i)'
  <2>1. call'[i].do = "fault" /\ call'[i].key = keys[i]
    BY <1>6, <1>7
  <2>2. n + i \in DOMAIN call' /\ n + i > i /\ call'[n + i].do = "ensure" /\ call'[n + i].key = keys[i]
    <3>1. E[i].do = "ensure" /\ E[i].key = keys[i] /\ call'[n + i] = E[i]
      BY <1>6, <1>7
    <3>2. n + i \in 1 .. n + n /\ n + i > i
      BY <1>8
    <3> QED BY <1>7, <3>1, <3>2
  <2>3. FaultOK(i)'
    BY <2>1, <2>2 DEF FaultOK
  <2> QED BY <2>1, <2>3 DEF StepOK, FillOK, FreeOK, UseOK, SettledOK, PinOK
<1>10. ASSUME NEW m \in 1 .. n PROVE call'[n + m].do # "free" /\ StepOK(n + m)'
  <2>1. call'[n + m].do = "ensure"
    BY <1>6, <1>7
  <2>2. PICK i : i = n + m
    OBVIOUS
  <2>3. call'[i].do = "ensure"
    BY <2>1, <2>2
  <2>4. StepOK(i)'
    BY <2>3 DEF StepOK, FaultOK, FillOK, FreeOK, UseOK, SettledOK, PinOK
  <2> QED BY <2>2, <2>3, <2>4
<1>11. ASSUME NEW i \in DOMAIN call' PROVE call'[i].do # "free" /\ StepOK(i)'
  <2>1. CASE i \in 1 .. n
    BY <1>9, <2>1
  <2>2. CASE i \notin 1 .. n
    <3>1. PICK m \in 1 .. n : i = n + m
      BY <1>7, <1>8, <2>2
    <3> QED BY <1>10, <3>1
  <2> QED BY <2>1, <2>2
<1> QED BY <1>7, <1>11

LEMMA PrefetchInv == ASSUME GpuInv, Prefetch PROVE GpuInv'
<1>1. /\ Idle /\ pc \in {"prefetch", "predict"} /\ queue # <<>> /\ queue' = Tail(queue) /\ evicting' = Swept
      /\ UNCHANGED <<cacheVars, pc, routed, victimVars, pages, pending, graphs, compute, q, deviceVars>>
  BY DEF Prefetch
<1>2. UNCHANGED <<resident, recency, leased, pinned, victim, lost>>
  BY <1>1 DEF cacheVars, victimVars
<1>3. queue \in Seq(C!Group)
  BY DEF GpuInv, C!IInv, C!CallOK
<1>4. Head(queue) \in C!Group /\ queue' \in Seq(C!Group)
  BY <1>1, <1>3, Parts
<1>5. C!IInv'
  <2>1. C!Listed' /\ C!WithinSlots' /\ C!PinsFit' /\ C!LeaseScoped'
    BY <1>1, <1>2 DEF GpuInv, C!IInv, C!Listed, C!WithinSlots, C!PinsFit, C!Budget, C!LeaseScoped
  <2>2. C!CallOK'
    BY <1>1, <1>4 DEF GpuInv, C!IInv, C!CallOK
  <2> QED BY <2>1, <2>2 DEF C!IInv
<1>6. call' \in Seq(StepType) /\ \A i \in DOMAIN call' : call'[i].do # "free" /\ StepOK(i)'
  <2>1. PICK keys : keys = Head(queue)
    OBVIOUS
  <2>2. call' = [i \in DOMAIN keys |-> Step("fault", keys[i])] \o [i \in DOMAIN keys |-> Step("ensure", keys[i])]
    BY <2>1 DEF Prefetch
  <2> QED BY <1>1, <1>4, <2>1, <2>2, PrefetchSteps
<1>7. pc' \in {"idle", "prefetch", "predict", "experts", "pins"}
  BY <1>1
<1> QED BY <1>1, <1>2, <1>5, <1>6, <1>7, Opened DEF GpuInv, Typed, PlacesOK

LEMMA AcquireInv == ASSUME GpuInv, Acquire PROVE GpuInv'
<1>0. PICK e : e = Key
  OBVIOUS
<1>1. /\ Idle /\ pc = "experts" /\ queue # <<>> /\ evicting' = Swept
      /\ UNCHANGED <<leased, pinned, routed, queue, pages, pending, graphs, compute, q, deviceVars>>
  BY DEF Acquire
<1>2. /\ pc' = pc
      /\ \/ /\ e \in resident /\ C!Touch(e) /\ call' = <<Step("gemm", e), Step("lease", e)>>
            /\ UNCHANGED <<resident, victim, lost>>
         \/ /\ e \notin resident /\ CacheFault(e)
            /\ call' = <<Step("ensure", e), Step("gemm", e), Step("lease", e)>>
  <2>1. ~Cache!Stuck
    BY <1>1, NeverStuck DEF GpuInv
  <2> QED BY <1>0, <2>1, SameFaultIn, StepsOf DEF Acquire, CacheStuck, victimVars
<1>3. e \in Catalog
  <2>1. CASE e \in resident
    BY <2>1 DEF GpuInv, C!IInv, C!Listed
  <2>2. CASE e \notin resident
    <3>1. C!FaultIn(e, TRUE)
      BY <1>2, <2>2, SameFaultIn DEF CacheFault
    <3> QED BY <3>1 DEF C!FaultIn, C!Load
  <2> QED BY <2>1, <2>2
<1>4. PICK a \in StepType, b \in StepType, c \in StepType :
           a = Step("ensure", e) /\ b = Step("gemm", e) /\ c = Step("lease", e)
  BY <1>3 DEF Step, StepType, Dos
<1>5. /\ a.do = "ensure" /\ b.do = "gemm" /\ c.do = "lease"
      /\ a.key = e /\ b.key = e /\ c.key = e
  BY <1>4 DEF Step
<1>6. Key' = e
  BY <1>0, <1>1 DEF Key, Cache!Key
<1>7. CASE e \in resident
  <2>1. call' = <<b, c>> /\ UNCHANGED <<resident, victim, lost>> /\ C!Touch(e)
    BY <1>2, <1>4, <1>7
  <2>2. C!IInv'
    <3>1. leased' \subseteq leased \cup {e} /\ C!Listed /\ C!WithinSlots /\ UNCHANGED <<resident, pinned>>
      BY <1>1, <2>1 DEF GpuInv, C!IInv
    <3>2. C!Listed' /\ C!WithinSlots'
      BY <1>7, <2>1, <3>1, SameAssumption, C!TouchListed
    <3>3. C!PinsFit' /\ C!CallOK' /\ C!LeaseScoped'
      BY <1>1, <1>2 DEF GpuInv, C!IInv, C!PinsFit, C!Budget, C!CallOK, C!LeaseScoped, C!Key
    <3> QED BY <3>2, <3>3 DEF C!IInv
  <2>3. call' \in Seq(StepType) /\ DOMAIN call' = {1, 2} /\ call'[1] = b /\ call'[2] = c
    BY <2>1
  <2>4. UseOK(1)'
    <3>1. \A j \in DOMAIN call' : j > 1 => call'[1].do # "lease" /\ call'[j].do = "lease"
      BY <1>5, <2>3
    <3> QED BY <1>1, <1>2, <1>5, <1>6, <1>7, <2>1, <2>3, <3>1 DEF UseOK
  <2>5. UseOK(2)'
    <3>1. \A j \in DOMAIN call' : ~(j > 2)
      BY <2>3
    <3> QED BY <1>1, <1>2, <1>5, <1>6, <1>7, <2>1, <2>3, <3>1 DEF UseOK
  <2>6. StepOK(1)' /\ StepOK(2)'
    BY <1>5, <2>3, <2>4, <2>5 DEF StepOK, FaultOK, FillOK, FreeOK, SettledOK, PinOK
  <2>7. \A i \in DOMAIN call' : call'[i].do # "free" /\ StepOK(i)'
    <3>1. ASSUME NEW i \in {1, 2} PROVE call'[i].do # "free"
      BY <1>5, <2>3
    <3>2. ASSUME NEW i \in {1, 2} PROVE StepOK(i)'
      BY <2>6
    <3> QED BY <2>3, <3>1, <3>2
  <2>8. pc' \in {"idle", "prefetch", "predict", "experts", "pins"}
    BY <1>1, <1>2
  <2> QED BY <1>1, <2>1, <2>2, <2>3, <2>7, <2>8, Opened DEF GpuInv, Typed, PlacesOK
<1>8. CASE e \notin resident
  <2>1. call' = <<a, b, c>> /\ CacheFault(e)
    BY <1>2, <1>4, <1>8
  <2>2. C!IInv' /\ UNCHANGED <<leased, pinned, pc, routed>>
    <3>1. e \in Catalog \ resident /\ pc # "compute" /\ UNCHANGED <<leased, pinned, pc, routed>>
      BY <1>1, <1>2, <1>3, <1>8
    <3> QED BY <1>1, <2>1, <3>1, MissedInv DEF GpuInv
  <2>3. call' \in Seq(StepType) /\ DOMAIN call' = {1, 2, 3} /\ call'[1] = a /\ call'[2] = b /\ call'[3] = c
    BY <2>1
  <2>4. /\ e \in resident' /\ resident' \subseteq resident \cup {e}
        /\ resident \subseteq resident' \cup victim' /\ victim' \cap resident' = {}
        /\ victim' \subseteq Catalog /\ (\A v, w \in victim' : v = w)
        /\ lost' = (lost \cup victim) \ {e}
    <3>1. e \in Catalog \ resident /\ pc # "compute" /\ UNCHANGED <<leased, pinned>>
      BY <1>1, <1>3, <1>8
    <3> QED BY <2>1, <3>1, Missed DEF GpuInv
  <2>5. UseOK(2)'
    <3>1. \A j \in DOMAIN call' : j > 2 => call'[2].do # "lease" /\ call'[j].do = "lease"
      BY <1>5, <2>3
    <3> QED BY <1>1, <1>2, <1>5, <1>6, <2>3, <2>4, <3>1 DEF UseOK
  <2>6. UseOK(3)'
    <3>1. \A j \in DOMAIN call' : ~(j > 3)
      BY <2>3
    <3> QED BY <1>1, <1>2, <1>5, <1>6, <2>3, <2>4, <3>1 DEF UseOK
  <2>7. StepOK(1)' /\ StepOK(2)' /\ StepOK(3)'
    BY <1>5, <2>3, <2>5, <2>6 DEF StepOK, FaultOK, FillOK, FreeOK, UseOK, SettledOK, PinOK
  <2>8. \A i \in DOMAIN call' : call'[i].do # "free" /\ StepOK(i)'
    <3>1. ASSUME NEW i \in {1, 2, 3} PROVE call'[i].do # "free"
      BY <1>5, <2>3
    <3>2. ASSUME NEW i \in {1, 2, 3} PROVE StepOK(i)'
      BY <2>7
    <3> QED BY <2>3, <3>1, <3>2
  <2>9. pc' \in {"idle", "prefetch", "predict", "experts", "pins"}
    BY <1>1, <1>2
  <2>10. \A k \in resident' \ resident : \E i \in DOMAIN call' : call'[i].do = "ensure" /\ call'[i].key = k
    BY <1>5, <2>3, <2>4
  <2>11. lost' \subseteq Catalog /\ DOMAIN pages \subseteq resident' \cup victim' \cup lost'
    <3>1. DOMAIN pages \subseteq resident \cup victim \cup lost /\ lost \subseteq Catalog /\ victim \subseteq Catalog
      BY DEF GpuInv, Typed, PlacesOK
    <3> QED BY <2>4, <3>1
  <2>12. compute' \in ComputeStreams
    BY <1>1 DEF GpuInv, Typed
  <2> QED BY <1>1, <2>2, <2>3, <2>4, <2>8, <2>9, <2>10, <2>11, <2>12, Opened
<1> QED BY <1>7, <1>8


LEMMA PinInv == ASSUME GpuInv, Pin PROVE GpuInv'
<1>0. PICK e : e = Key
  OBVIOUS
<1>1. /\ Idle /\ pc = "pins" /\ queue # <<>> /\ Cardinality(pinned) < Cache!Budget
      /\ queue' = C!Rest
      /\ UNCHANGED <<cacheVars, pc, routed, victimVars, pageVars, compute, q, deviceVars>>
  BY SameTier DEF Pin
<1>2. UNCHANGED <<resident, recency, leased, pinned, victim, lost, pages, pending, evicting, graphs>>
  BY <1>1 DEF cacheVars, victimVars, pageVars
<1>3. C!IInv'
  <2>1. C!Listed' /\ C!WithinSlots' /\ C!PinsFit' /\ C!LeaseScoped'
    BY <1>1, <1>2 DEF GpuInv, C!IInv, C!Listed, C!WithinSlots, C!PinsFit, C!Budget, C!LeaseScoped
  <2>2. queue' \in Seq(C!Group)
    <3>1. queue \in Seq(C!Group)
      BY DEF GpuInv, C!IInv, C!CallOK
    <3> QED BY <1>1, <3>1, SameAssumption, C!QueueParts
  <2>3. C!CallOK'
    BY <1>1, <2>2 DEF GpuInv, C!IInv, C!CallOK
  <2> QED BY <2>1, <2>3 DEF C!IInv
<1>4. call' \in Seq(StepType) /\ \A i \in DOMAIN call' : call'[i].do # "free" /\ StepOK(i)'
  <2>1. CASE e \notin Catalog
    <3>1. call' = <<>>
      BY <1>0, <2>1 DEF Pin
    <3>2. call' \in Seq(StepType) /\ DOMAIN call' = {}
      BY <3>1
    <3> QED BY <3>2
  <2>2. CASE e \in Catalog
    <3>1. PICK a \in StepType, b \in StepType, c \in StepType, d \in StepType :
               a = Step("fault", e) /\ b = Step("ensure", e) /\ c = Step("settle", e) /\ d = Step("pin", e)
      BY <2>2 DEF Step, StepType, Dos
    <3>2. /\ a.do = "fault" /\ b.do = "ensure" /\ c.do = "settle" /\ d.do = "pin"
          /\ a.key = e /\ b.key = e /\ c.key = e /\ d.key = e
      BY <3>1 DEF Step
    <3>3. call' = <<a, b, c, d>>
      BY <1>0, <2>2, <3>1, StepsOf DEF Pin
    <3>4. /\ call' \in Seq(StepType) /\ DOMAIN call' = {1, 2, 3, 4} /\ Len(call') = 4
          /\ call'[1] = a /\ call'[2] = b /\ call'[3] = c /\ call'[4] = d
      BY <3>3
    <3>5. FaultOK(1)'
      <4>1. 2 \in DOMAIN call' /\ 2 > 1
        BY <3>4
      <4> QED BY <1>1, <3>2, <3>4, <4>1 DEF FaultOK
    <3>6. PinOK(4)'
      <4>1. Cardinality(pinned') < (Cache!Budget)' /\ pc' = "pins" /\ 4 = Len(call') /\ call'[4].key = e
        BY <1>1, <1>2, <3>2, <3>4 DEF Cache!Budget
      <4>2. 1 \in DOMAIN call' /\ 1 < 4 /\ call'[1].do = "fault" /\ call'[1].key = e
        BY <3>2, <3>4
      <4>3. \A j \in DOMAIN call' : call'[j].do = "fault" => call'[j].key = e
        BY <3>2, <3>4
      <4> QED BY <2>2, <4>1, <4>2, <4>3 DEF PinOK
    <3>7. StepOK(1)' /\ StepOK(2)' /\ StepOK(3)' /\ StepOK(4)'
      BY <3>2, <3>4, <3>5, <3>6 DEF StepOK, FaultOK, FillOK, FreeOK, UseOK, SettledOK, PinOK
    <3>8. ASSUME NEW i \in {1, 2, 3, 4} PROVE call'[i].do # "free"
      BY <3>2, <3>4
    <3>9. ASSUME NEW i \in {1, 2, 3, 4} PROVE StepOK(i)'
      BY <3>7
    <3> QED BY <3>4, <3>8, <3>9
  <2> QED BY <2>1, <2>2
<1>5. pc' \in {"idle", "prefetch", "predict", "experts", "pins"} /\ evicting' = evicting
  BY <1>1, <1>2
<1> QED BY <1>1, <1>2, <1>3, <1>4, <1>5, Opened DEF GpuInv, Typed, PlacesOK

LEMMA EvictInv == ASSUME GpuInv, NEW e \in Catalog, Evict(e) PROVE GpuInv'
<1>1. /\ Idle /\ C!Evict(e) /\ victim' = {e} /\ lost' = lost \cup victim
      /\ UNCHANGED <<compute, q, deviceVars>>
  BY SameEvict DEF Evict
<1>2. /\ pc = "idle" /\ e \in resident /\ resident' = resident \ {e}
      /\ UNCHANGED <<leased, pinned, pc, routed, queue>>
  BY <1>1 DEF C!Evict
<1>3. C!IInv'
  BY <1>1, SameAssumption, C!OthersInv DEF GpuInv
<1>4. /\ resident \subseteq DOMAIN pages /\ Dropping = {} /\ call = <<>> /\ DOMAIN call = {}
      /\ \A k \in DOMAIN pages \ pending : pages[k] \in filled
  BY <1>1, BetweenCalls
<1>5. e \in DOMAIN pages
  BY <1>2, <1>4
<1>6. PICK others : others = Swept
  OBVIOUS
<1>7. others \in [DOMAIN others -> Page] /\ DOMAIN others \subseteq Catalog /\ Drop(e, others, <<>>)
  BY <1>5, <1>6, SweptTyped DEF GpuInv, Evict
<1>8. /\ DOMAIN pages' = DOMAIN pages \ {e} /\ \A k \in DOMAIN pages' : pages'[k] = pages[k]
      /\ pages' \in [DOMAIN pages' -> Page]
      /\ Range(pages') = Range(pages) \ {pages[e]} /\ pages[e] \in Range(pages)
      /\ evicting' \in [DOMAIN evicting' -> Page] /\ DOMAIN evicting' \subseteq Catalog
      /\ e \in DOMAIN evicting' /\ evicting'[e] = pages[e]
      /\ pending' = pending \ {e} /\ pending' \subseteq DOMAIN pages'
      /\ graphs' = graphs \ {pages[e]} /\ graphs' \subseteq Range(pages')
      /\ call' = <<Step("waitCompute", e), Step("free", e)>> \o <<>>
  BY <1>5, <1>7, DropPages DEF GpuInv
<1>9. PICK a \in StepType, b \in StepType : a = Step("waitCompute", e) /\ b = Step("free", e)
  BY DEF Step, StepType, Dos
<1>10. a.do = "waitCompute" /\ b.do = "free" /\ b.key = e
  BY <1>9 DEF Step
<1>11. call' \in Seq(StepType) /\ DOMAIN call' = {1, 2} /\ call'[1] = a /\ call'[2] = b
  <2>1. call' = <<a, b>> \o <<>>
    BY <1>8, <1>9
  <2>2. <<a, b>> \o <<>> = <<a, b>>
    BY ConcatEmptySeq
  <2> QED BY <2>1, <2>2
<1>12. Dropping' = {pages[e]}
  <2>1. {j \in DOMAIN call' : call'[j].do = "free"} = {2}
    BY <1>10, <1>11
  <2> QED BY <1>8, <1>10, <1>11, <2>1 DEF Dropping
<1>13. UNCHANGED <<busy, live, filled>>
  BY <1>1 DEF deviceVars
<1>14. Typed'
  <2>1. lost' \subseteq Catalog /\ victim' \subseteq Catalog /\ \A v, w \in victim' : v = w
    BY <1>1 DEF GpuInv, Typed
  <2> QED BY <1>1, <1>8, <1>11, <1>13, <2>1 DEF GpuInv, Typed
<1>15. Device'
  <2>1. Kept' = Kept
    BY <1>4, <1>8, <1>12 DEF Kept
  <2> QED BY <1>1, <2>1, DeviceKept DEF GpuInv
<1>16. PagesOK'
  BY <1>4, <1>8, <1>12, <1>13 DEF GpuInv, PagesOK, Waited
<1>17. PlacesOK'
  BY <1>1, <1>2, <1>4, <1>8 DEF GpuInv, PlacesOK
<1>18. CallShape'
  <2>1. StepOK(1)' /\ StepOK(2)'
    BY <1>8, <1>10, <1>11 DEF StepOK, FaultOK, FillOK, FreeOK, UseOK, SettledOK, PinOK
  <2>2. ASSUME NEW i \in {1, 2} PROVE StepOK(i)'
    BY <2>1
  <2> QED BY <1>2, <1>11, <2>2 DEF CallShape
<1> QED BY <1>3, <1>14, <1>15, <1>16, <1>17, <1>18 DEF GpuInv

-----------------------------------------------------------------------------
(* The theorems. *)

LEMMA InitInv == Init => GpuInv
<1> SUFFICES ASSUME Init PROVE GpuInv
  OBVIOUS
<1>1. C!IInv
  BY SameInit, SameAssumption, C!InitInv DEF Init
<1>2. /\ victim = {} /\ lost = {} /\ pages = <<>> /\ pending = {} /\ evicting = <<>> /\ graphs = {}
      /\ compute = "prefill" /\ call = <<>> /\ q = [s \in Streams |-> <<>>]
      /\ busy = {} /\ live = {} /\ filled = {} /\ resident = {}
  BY DEF Init, Cache!Init
<1>3. /\ DOMAIN pages = {} /\ DOMAIN evicting = {} /\ DOMAIN call = {} /\ Range(pages) = {}
      /\ call \in Seq(StepType)
      /\ pages \in [DOMAIN pages -> Page] /\ evicting \in [DOMAIN evicting -> Page]
  BY <1>2 DEF Range
<1>4. q \in [Streams -> Seq(OpType)]
  <2>1. <<>> \in Seq(OpType)
    OBVIOUS
  <2> QED BY <1>2, <2>1
<1>5. \A s \in Streams : q[s] = <<>> /\ DOMAIN q[s] = {}
  BY <1>2
<1>6. IsFiniteSet(live)
  BY <1>2, FS_EmptySet
<1>7. "prefill" \in ComputeStreams
  BY GpuAssumption
<1>8. Typed
  BY <1>2, <1>3, <1>4, <1>6, <1>7 DEF Typed
<1>9. Device
  <2>1. DOMAIN Copy = {} /\ \A s \in ComputeStreams : DOMAIN q[s] = {}
    BY <1>5 DEF Copy, Streams
  <2>2. Kept = {} /\ Leaving = {}
    BY <1>3, <2>1 DEF Kept, Dropping, Leaving
  <2> QED BY <1>2, <2>1, <2>2 DEF Device, CopyOK, MemoryOK, ReadersOK, Owned, In
<1>10. PagesOK /\ PlacesOK /\ CallShape
  BY <1>2, <1>3 DEF PagesOK, PlacesOK, CallShape, Dropping
<1> QED BY <1>1, <1>8, <1>9, <1>10 DEF GpuInv

LEMMA StillInv == ASSUME GpuInv, UNCHANGED vars PROVE GpuInv'
<1>1. /\ UNCHANGED <<cacheVars, clientVars, victim, lost, pages, pending, evicting, graphs>>
      /\ UNCHANGED <<compute, call, q, deviceVars, busy, live, filled, resident, pc, queue, pinned>>
  BY DEF vars, cacheVars, clientVars, victimVars, pageVars, deviceVars
<1>2. C!IInv'
  BY <1>1, CacheStill DEF GpuInv
<1>3. Dropping' = Dropping
  BY <1>1 DEF Dropping
<1>4. Typed' /\ Device'
  BY <1>1, <1>3, DeviceKept DEF GpuInv, Typed, Kept
<1>5. PagesOK' /\ PlacesOK'
  BY <1>1, <1>3 DEF GpuInv, PagesOK, Waited, PlacesOK
<1>6. CallShape'
  <2>1. Key' = Key
    BY <1>1 DEF Key, Cache!Key
  <2> QED BY <1>1, <2>1 DEF GpuInv, CallShape, StepOK, FaultOK, FillOK, FreeOK, UseOK, SettledOK, PinOK, Cache!Budget
<1> QED BY <1>2, <1>4, <1>5, <1>6 DEF GpuInv

LEMMA NextInv == ASSUME GpuInv, [Next]_vars PROVE GpuInv'
<1>1. CASE \/ \E s \in Streams : Start(s)
           \/ \E S \in SUBSET Streams : Finish(S)
  BY <1>1, DeviceInv
<1>2. CASE Drained \/ Sweep \/ Fault \/ Ensure \/ Free \/ Fill
  BY <1>2, DrainedInv, SweepInv, FaultInv, EnsureInv, FreeInv, FillInv
<1>3. CASE Gemm \/ Launch \/ Lease \/ Settle \/ Settled \/ Pinned
  BY <1>3, GemmInv, LaunchInv, LeaseInv, SettleInv, SettledInv, PinnedInv
<1>4. CASE Prefetch \/ Acquire \/ Pin \/ Clock \/ Client
  BY <1>4, PrefetchInv, AcquireInv, PinInv, ClockInv, ClientInv
<1>5. CASE \E s \in ComputeStreams : Bind(s)
  BY <1>5, BindInv
<1>6. CASE \E e \in Catalog : Evict(e)
  BY <1>6, EvictInv
<1>7. CASE UNCHANGED vars
  BY <1>7, StillInv
<1> QED BY <1>1, <1>2, <1>3, <1>4, <1>5, <1>6, <1>7 DEF Next

(* The invariant holds in every reachable state of the store. *)
THEOREM GpuInvariant == Spec => []GpuInv
<1>1. GpuInv /\ [Next]_vars => GpuInv'
  BY NextInv
<1> QED BY <1>1, InitInv, PTL DEF Spec


LEMMA InvImpliesTypes == ASSUME GpuInv PROVE TypeOK
<1>1. Cache!TypeOK
  BY SameTypes, SameAssumption, C!InvImpliesTypes DEF GpuInv
<1>2. Cardinality(victim) <= 1
  <2>1. CASE victim = {}
    BY <2>1, FS_EmptySet
  <2>2. CASE victim # {}
    <3>1. PICK v \in victim : \A w \in victim : v = w
      BY <2>2 DEF GpuInv, Typed
    <3>2. victim = {v}
      BY <3>1
    <3> QED BY <3>2, FS_Singleton
  <2> QED BY <2>1, <2>2
<1>3. filled \subseteq live
  BY DEF GpuInv, Device, MemoryOK
<1> QED BY <1>1, <1>2, <1>3 DEF GpuInv, Typed, TypeOK, StepType, OpType

LEMMA InvImpliesAccounted == ASSUME GpuInv PROVE HbmAccounted
<1>1. ASSUME NEW p \in Leaving PROVE Queued("free", p)
  <2>1. PICK i \in DOMAIN Copy : Copy[i].op = "free" /\ Copy[i].page = p
    BY DEF Leaving
  <2>2. Copy[i] = Op("free", p)
    BY <2>1, QueueTypes DEF OpType, Op, Copy, GpuInv
  <2> QED BY <2>2, QueueTypes DEF Queued, ToSet, Copy, GpuInv
<1>2. ASSUME NEW p \in Dropping
      PROVE  \E i \in DOMAIN call : call[i].do = "free" /\ evicting[call[i].key] = p
  BY DEF Dropping
<1>3. live \subseteq Range(pages) \cup Dropping \cup Leaving
  BY DEF GpuInv, Device, MemoryOK, Owned, Kept
<1> QED BY <1>1, <1>2, <1>3 DEF HbmAccounted, GpuInv, PlacesOK

LEMMA InvImpliesLegal == ASSUME GpuInv PROVE DeviceNeverFaults
<1> SUFFICES ASSUME NEW s \in Streams, Startable(s)
             PROVE  /\ Head(q[s]).op = "kernel" => Head(q[s]).page \in filled
                    /\ Head(q[s]).op \in {"h2d", "free"} => Head(q[s]).page \in live
                    /\ Head(q[s]).op = "free" => ~\E t \in Running : Head(q[t]).page = Head(q[s]).page
  BY DEF DeviceNeverFaults
<1>1. /\ s \notin busy /\ q[s] # <<>> /\ Head(q[s]) = q[s][1] /\ 1 \in DOMAIN q[s]
      /\ DOMAIN Copy = 1 .. Len(Copy) /\ Len(Copy) \in Nat /\ s \in {"copy"} \cup ComputeStreams
  BY QueueTypes, Parts DEF Startable, GpuInv, Copy
<1>2. PICK p : p = Head(q[s]).page
  OBVIOUS
<1>3. CASE Head(q[s]).op = "kernel"
  <2>1. s \in ComputeStreams
    BY <1>1, <1>3 DEF GpuInv, Device, CopyOK, Copy, Fills
  <2> QED BY <1>1, <1>3, <2>1 DEF GpuInv, Device, ReadersOK
<1>4. CASE Head(q[s]).op = "h2d"
  <2>1. s = "copy"
    BY <1>1, <1>4 DEF GpuInv, Device, ReadersOK
  <2>2. Copy[1].op = "h2d" /\ Copy[1].page = p /\ 1 \in DOMAIN Copy
    BY <1>1, <1>2, <1>4, <2>1 DEF Copy
  <2>3. p \in Owned
    BY <2>2 DEF GpuInv, Device, CopyOK, Fills
  <2>4. ASSUME NEW i \in DOMAIN Copy, Copy[i].op = "alloc", Copy[i].page = p PROVE FALSE
    <3>1. i + 1 \in DOMAIN Copy /\ Copy[i + 1].op = "h2d" /\ Copy[i + 1].page = p
      BY <2>4 DEF GpuInv, Device, CopyOK, Then
    <3>2. i + 1 = 1
      BY <2>2, <3>1 DEF GpuInv, Device, CopyOK
    <3> QED BY <1>1, <2>4, <3>2
  <2> QED BY <1>2, <1>4, <2>3, <2>4 DEF GpuInv, Device, MemoryOK, In
<1>5. CASE Head(q[s]).op = "free"
  <2>1. s = "copy"
    BY <1>1, <1>5 DEF GpuInv, Device, ReadersOK
  <2>2. Copy[1].op = "free" /\ Copy[1].page = p /\ 1 \in DOMAIN Copy /\ "copy" \notin busy
    BY <1>1, <1>2, <1>5, <2>1 DEF Copy
  <2>3. p \in Owned
    BY <2>2 DEF Owned, Leaving
  <2>4. ASSUME NEW i \in DOMAIN Copy, Copy[i].op = "alloc", Copy[i].page = p PROVE FALSE
    <3>1. i < 1
      BY <2>2, <2>4 DEF GpuInv, Device, CopyOK, Fills
    <3> QED BY <1>1, <2>4, <3>1
  <2>5. ASSUME NEW t \in Running, Head(q[t]).page = p PROVE FALSE
    <3>1. t \in busy /\ t \in Streams /\ q[t] # <<>> /\ Head(q[t]).op = "kernel"
      BY QueueTypes DEF Running, GpuInv
    <3>2. Head(q[t]) = q[t][1] /\ 1 \in DOMAIN q[t]
      BY <3>1, QueueTypes, Parts DEF GpuInv
    <3>3. t \in ComputeStreams
      BY <3>1, <3>2, QueueTypes DEF GpuInv, Device, CopyOK, Copy, Fills
    <3>4. p \in Kept
      BY <2>5, <3>1, <3>2, <3>3 DEF GpuInv, Device, ReadersOK
    <3> QED BY <2>2, <3>4 DEF GpuInv, Device, MemoryOK, In
  <2> QED BY <1>2, <1>5, <2>3, <2>4, <2>5 DEF GpuInv, Device, MemoryOK, In
<1> QED BY <1>3, <1>4, <1>5

(* What the device may start is legal: a kernel finds its expert's bytes, no copy
   meets a freed page, and nothing is freed twice or under a kernel that runs
   (gemm_resident, finish_drop, sim.rs). *)
THEOREM DeviceNeverFaultsAlways == Spec => []DeviceNeverFaults
BY GpuInvariant, InvImpliesLegal, PTL

(* Between two calls every resident expert has its page, so that a hit finds one
   (acquire, prefetch, place). *)
THEOREM ResidentAlwaysHasPage == Spec => []ResidentHasPage
<1>1. GpuInv => ResidentHasPage
  BY BetweenCalls DEF ResidentHasPage
<1> QED BY <1>1, GpuInvariant, PTL

(* Every page on the device is a key's or about to be freed, and a key that has a
   page is resident or a victim nobody has taken yet (take_victim). *)
THEOREM HbmAlwaysAccounted == Spec => []HbmAccounted
BY GpuInvariant, InvImpliesAccounted, PTL

(* The store's state keeps its types, and the cache stays within its slots. *)
THEOREM GpuTypeCorrect == Spec => []TypeOK
BY GpuInvariant, InvImpliesTypes, PTL

(* The page of an expert that is leased or kept hot is neither dropped nor moved
   (drop_gpu is reached only for a victim or through evict). *)
THEOREM HeldPageAlwaysStays == Spec => HeldPageStays
<1> DEFINE Stays == \A e \in DOMAIN pages \cap (leased \cup pinned) :
                      e \in DOMAIN pages' /\ pages'[e] = pages[e]
<1>1. ASSUME GpuInv, [Next]_vars PROVE Stays
  <2> SUFFICES ASSUME NEW e \in DOMAIN pages, e \in leased \cup pinned
               PROVE  e \in DOMAIN pages' /\ pages'[e] = pages[e]
    OBVIOUS
  <2>1. e \in resident
    BY <1>1 DEF GpuInv, C!IInv, C!Listed
  <2>2. CASE Ensure
    <3>1. CASE \E v \in victim : \E rest : Drop(v, evicting, rest)
      <4>1. PICK v \in victim : pages' = Restrict(pages, DOMAIN pages \ {v})
        BY <3>1 DEF Drop
      <4>2. v # e
        BY <1>1, <2>1, <4>1 DEF GpuInv, PlacesOK
      <4> QED BY <4>1, <4>2 DEF Restrict
    <3>2. CASE UNCHANGED pages
      BY <3>2
    <3> QED BY <2>2, <3>1, <3>2 DEF Ensure, pageVars
  <2>3. CASE Fill
    <3>1. PICK f : pages' = Placing(K, f, pages)
      BY <2>3 DEF Fill
    <3>2. K \notin DOMAIN pages
      <4>1. 1 \in DOMAIN call /\ Head(call) = call[1] /\ K = call[1].key /\ Head(call).do = "fill"
        BY <1>1, <2>3, CallTypes DEF Fill, Now, GpuInv
      <4> QED BY <1>1, <4>1 DEF GpuInv, CallShape, StepOK, FillOK
    <3>3. pages' = [k \in {K} \cup DOMAIN pages |-> IF k = K THEN f ELSE pages[k]]
      BY <3>1 DEF Placing
    <3> QED BY <3>2, <3>3
  <2>4. CASE \E k \in Catalog : Evict(k)
    <3>1. PICK k \in Catalog : Evict(k)
      BY <2>4
    <3>2. k # e
      BY <3>1, SameTier DEF Evict, Cache!Evict, Cache!Held
    <3>3. pages' = Restrict(pages, DOMAIN pages \ {k}) \/ UNCHANGED pages
      BY <3>1 DEF Evict, Drop
    <3> QED BY <3>2, <3>3 DEF Restrict
  <2>5. CASE \/ \E s \in Streams : Start(s)
             \/ \E S \in SUBSET Streams : Finish(S)
             \/ \E s \in ComputeStreams : Bind(s)
             \/ Drained \/ Sweep \/ Fault \/ Free \/ Gemm \/ Launch \/ Lease \/ Settle \/ Settled
             \/ Pinned \/ Prefetch \/ Acquire \/ Pin \/ Clock \/ Client \/ UNCHANGED vars
    <3>1. UNCHANGED pages
      BY <2>5 DEF Start, Finish, Bind, Drained, Sweep, Fault, Free, Gemm, Launch, Lease, Settle,
        Settled, Pinned, Prefetch, Acquire, Pin, Clock, Client, vars, pageVars
    <3> QED BY <3>1
  <2> QED BY <1>1, <2>2, <2>3, <2>4, <2>5 DEF Next
<1>2. GpuInv /\ [Next]_vars => [Stays]_vars
  BY <1>1
<1> QED BY <1>2, GpuInvariant, PTL DEF Spec, HeldPageStays

=============================================================================
