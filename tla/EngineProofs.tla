---------------------------- MODULE EngineProofs ----------------------------
(***************************************************************************)
(* For any number of sequences, slots and blocks, any requests, any chunk    *)
(* size and order of service: every sequence is in exactly one place and     *)
(* keeps its turn.  The rest of the module shows, call by call, that the     *)
(* engine uses the paged caches only as KvPool lets a caller use them, so    *)
(* that the pool's invariant holds in the engine; EngineOutputProofs adds    *)
(* which tokens a call carries, and concludes.                               *)
(*                                                                         *)
(* P is the pool with its theorems.  Its operators are those of Engine's     *)
(* Pool, but the provers see two copies: the first lemmas say they agree.    *)
(***************************************************************************)
EXTENDS Engine, FiniteSetTheorems, SequenceTheorems, TLAPS

P == INSTANCE KvContentProofs WITH
  Seqs <- Id, Sampled <- Token, Prompts <- {r.prompt : r \in Requests},
  Chunks <- {Chunk}, Extras <- 1 .. MaxSeq, MaxBatch <- MaxSlots, MayFail <- FALSE

-----------------------------------------------------------------------------
(* Pool and P are one specification. *)

LEMMA SameParts ==
  /\ Pool!Block = P!Block /\ Pool!Stale = P!Stale
  /\ \A t, b : Pool!Occ(t, b) = P!Occ(t, b)
  /\ \A t, n : Pool!Take(t, n) = P!Take(t, n)
  /\ \A n : Pool!BlocksFor(n) = P!BlocksFor(n)
  /\ \A n, a, b : Pool!IsLcp(n, a, b) <=> P!IsLcp(n, a, b)
  /\ \A n, a, b, c : Pool!Binds(n, a, b, c) <=> P!Binds(n, a, b, c)
BY DEF Pool!Block, P!Block, Pool!Stale, P!Stale, Pool!Offset, P!Offset, Pool!Occ, P!Occ,
  Pool!Take, P!Take, Pool!BlocksFor, P!BlocksFor, Pool!IsLcp, P!IsLcp, Pool!Binds, P!Binds

LEMMA SameCard == \A S : Pool!Cardinality(S) = P!Cardinality(S)
BY DEF Pool!Cardinality, P!Cardinality, Pool!IsFiniteSet, P!IsFiniteSet

LEMMA SameRetable == ASSUME NEW s, NEW t PROVE Pool!Retable(s, t) <=> P!Retable(s, t)
<1>1. \A b : /\ Pool!Cardinality(Pool!Occ(table[s], b)) = P!Cardinality(P!Occ(table[s], b))
             /\ Pool!Cardinality(Pool!Occ(t, b)) = P!Cardinality(P!Occ(t, b))
  BY SameParts, SameCard
<1>2. [b \in Pool!Block |-> refs[b] - Pool!Cardinality(Pool!Occ(table[s], b))
                                    + Pool!Cardinality(Pool!Occ(t, b))]
        = [b \in P!Block |-> refs[b] - P!Cardinality(P!Occ(table[s], b))
                                     + P!Cardinality(P!Occ(t, b))]
  BY <1>1, SameParts
<1>3. [b \in Pool!Block |-> IF refs'[b] = 0 THEN Pool!Stale ELSE content[b]]
        = [b \in P!Block |-> IF refs'[b] = 0 THEN P!Stale ELSE content[b]]
  BY SameParts
<1> QED BY <1>2, <1>3, Zenon DEF Pool!Retable, P!Retable

LEMMA SameSuffix ==
  ASSUME NEW s, NEW p, NEW m
  PROVE  Pool!PromptSuffix(s, p, m) <=> P!PromptSuffix(s, p, m)
BY SameRetable, SameParts, Zenon DEF Pool!PromptSuffix, P!PromptSuffix, Pool!callVars, P!callVars

LEMMA SameIntern == ASSUME NEW s, NEW t PROVE Pool!InternFull(s, t) <=> P!InternFull(s, t)
<1>1. Pool!NewPrefixes(t) = P!NewPrefixes(t)
  BY DEF Pool!NewPrefixes, P!NewPrefixes
<1>2. \A b : {x \in Pool!NewPrefixes(t) : table[s][x] = b} = {x \in P!NewPrefixes(t) : table[s][x] = b}
  BY <1>1
<1>3. [b \in Pool!Block |->
                    refs[b] + Pool!Cardinality({x \in Pool!NewPrefixes(t) : table[s][x] = b})] 
   = [b \in P!Block |->
                    refs[b] + P!Cardinality({x \in P!NewPrefixes(t) : table[s][x] = b})]
  BY <1>2, SameParts, SameCard
<1> QED BY <1>1, <1>3, SameParts, Zenon DEF Pool!InternFull, P!InternFull

LEMMA SameCalls == 
  /\ Pool!FullError <=> P!FullError
  /\ Pool!CapError <=> P!CapError
  /\ Pool!Reserved <=> P!Reserved
  /\ Pool!NextJob <=> P!NextJob
BY DEF Pool!Block, P!Block, Pool!CapError, P!CapError, Pool!Cur, P!Cur, Pool!End, P!End,
  Pool!Evictable, P!Evictable, Pool!Finish, P!Finish, Pool!Fits, P!Fits, Pool!Free,
  P!Free, Pool!FullError, P!FullError, Pool!Index, P!Index, Pool!NeedsBlock,
  P!NeedsBlock, Pool!NeedsCopy, P!NeedsCopy, Pool!NextJob, P!NextJob, Pool!Reserved,
  P!Reserved, Pool!cacheVars, P!cacheVars, Pool!poolVars, P!poolVars

LEMMA SameFault == Pool!Fault <=> P!Fault
BY DEF Pool!Alloc, P!Alloc, Pool!Block, P!Block, Pool!Cur, P!Cur, Pool!End, P!End,
  Pool!Evictable, P!Evictable, Pool!Fault, P!Fault, Pool!Fits, P!Fits, Pool!Free,
  P!Free, Pool!Index, P!Index, Pool!NeedsBlock, P!NeedsBlock, Pool!Offset, P!Offset,
  Pool!Stale, P!Stale, Pool!callVars, P!callVars

LEMMA SameCow == Pool!Cow <=> P!Cow
BY DEF Pool!Alloc, P!Alloc, Pool!Block, P!Block, Pool!Cow, P!Cow, Pool!Cur, P!Cur,
  Pool!End, P!End, Pool!Evictable, P!Evictable, Pool!Fits, P!Fits, Pool!Free, P!Free,
  Pool!Index, P!Index, Pool!NeedsBlock, P!NeedsBlock, Pool!NeedsCopy, P!NeedsCopy,
  Pool!callVars, P!callVars

LEMMA SameTransformer == Pool!Transformer <=> P!Transformer
BY DEF Pool!Block, P!Block, Pool!Context, P!Context, Pool!End, P!End, Pool!NewKv,
  P!NewKv, Pool!Offset, P!Offset, Pool!Read, P!Read, Pool!Transformer, P!Transformer,
  Pool!Writers, P!Writers, Pool!WritesAt, P!WritesAt, Pool!Written, P!Written,
  Pool!cacheVars, P!cacheVars

LEMMA SameTransformerError == Pool!TransformerError <=> P!TransformerError
BY DEF Pool!Block, P!Block, Pool!End, P!End, Pool!Finish, P!Finish, Pool!Offset,
  P!Offset, Pool!TransformerError, P!TransformerError, Pool!Writers, P!Writers,
  Pool!WritesAt, P!WritesAt, Pool!Written, P!Written, Pool!cacheVars, P!cacheVars

LEMMA SameCommit == Pool!Commit <=> P!Commit
BY SameIntern DEF Pool!Commit, P!Commit, Pool!Cur, P!Cur, Pool!Finish, P!Finish

LEMMA SameClear == \A s : Pool!Clear(s) <=> P!Clear(s)
BY SameRetable DEF Pool!Clear, P!Clear, Pool!callVars, P!callVars

LEMMA SameNew == \A s : Pool!NewCache(s) <=> P!NewCache(s)
BY DEF Pool!NewCache, P!NewCache, Pool!callVars, P!callVars, Pool!poolVars, P!poolVars

LEMMA SameStarts == 
  /\ \A s, n : Pool!StartPrepare(s, n) <=> P!StartPrepare(s, n)
  /\ \A js : Pool!StartPrefill(js) <=> P!StartPrefill(js)
  /\ Pool!Batches = P!Batches
BY DEF Pool!Batches, P!Batches, Pool!Groups, P!Groups, Pool!IsBatch, P!IsBatch,
  Pool!Start, P!Start, Pool!StartPrefill, P!StartPrefill, Pool!StartPrepare,
  P!StartPrepare, Pool!cacheVars, P!cacheVars, Pool!poolVars, P!poolVars

LEMMA SameNext == Pool!Next <=> P!Next
<1>1. Pool!CallStep <=> P!CallStep
  BY SameCalls, SameFault, SameCow, SameTransformer, SameTransformerError, SameCommit
  DEF Pool!CallStep, P!CallStep
<1>2. \A s : Pool!Preempt(s) <=> P!Preempt(s)
  BY SameClear DEF Pool!Preempt, P!Preempt
<1>3. \A s : Pool!DropCache(s) <=> P!DropCache(s)
  BY SameClear DEF Pool!DropCache, P!DropCache
<1>4. \A s, p, m : Pool!PromptSuffix(s, p, m) <=> P!PromptSuffix(s, p, m)
  BY SameSuffix
<1> QED BY <1>1, <1>2, <1>3, <1>4, SameNew, SameStarts, Zenon DEF Pool!Next, P!Next

LEMMA SameInit == Pool!Init <=> P!Init
BY DEF Pool!Block, P!Block, Pool!Init, P!Init, Pool!Offset, P!Offset, Pool!Stale,
  P!Stale

LEMMA SameVars ==
  /\ Pool!vars = P!vars /\ (Pool!vars)' = (P!vars)'
  /\ UNCHANGED poolVars <=> UNCHANGED Pool!vars
BY DEF poolVars, Pool!cacheVars, P!cacheVars, Pool!callVars, P!callVars, Pool!poolVars,
  P!poolVars, Pool!vars, P!vars


-----------------------------------------------------------------------------
(* The waiting sequences. *)

Rising(w) == \A i, j \in DOMAIN w : i < j => w[i] < w[j]

(* Taking one place out of a sequence moves the places behind it up. *)
LEMMA RemoveAtPlaces ==
  ASSUME NEW S, NEW s \in Seq(S), NEW i \in 1 .. Len(s)
  PROVE  /\ RemoveAt(s, i) \in Seq(S) /\ Len(RemoveAt(s, i)) = Len(s) - 1
         /\ \A j \in 1 .. Len(s) - 1 : RemoveAt(s, i)[j] = s[IF j < i THEN j ELSE j + 1]
<1> DEFINE a == SubSeq(s, 1, i - 1)
           b == SubSeq(s, i + 1, Len(s))
<1>1. Len(s) \in Nat /\ i \in Int /\ \A j \in 1 .. Len(s) : s[j] \in S
  BY LenProperties, ElementOfSeq
<1>2. a \in Seq(S) /\ Len(a) = i - 1 /\ \A j \in 1 .. i - 1 : a[j] = s[j]
  BY <1>1, SubSeqProperties
<1>3. b \in Seq(S) /\ Len(b) = Len(s) - i /\ \A j \in 1 .. Len(s) - i : b[j] = s[i + j]
  BY <1>1, SubSeqProperties
<1>4. RemoveAt(s, i) = a \o b
  BY DEF RemoveAt
<1> HIDE DEF a, b
<1>c. /\ a \o b \in Seq(S) /\ Len(a \o b) = Len(a) + Len(b)
      /\ \A j \in 1 .. Len(a) + Len(b) : (a \o b)[j] = IF j <= Len(a) THEN a[j] ELSE b[j - Len(a)]
  BY <1>2, <1>3, ConcatProperties
<1>d. Len(a) + Len(b) = Len(s) - 1
  BY <1>1, <1>2, <1>3
<1>5. /\ a \o b \in Seq(S) /\ Len(a \o b) = Len(s) - 1
      /\ \A j \in 1 .. Len(s) - 1 : (a \o b)[j] = IF j <= i - 1 THEN a[j] ELSE b[j - (i - 1)]
  BY <1>2, <1>c, <1>d
<1>6. ASSUME NEW j \in 1 .. Len(s) - 1
      PROVE (a \o b)[j] = s[IF j < i THEN j ELSE j + 1]
  <2>1. CASE j < i
    BY <1>1, <1>2, <1>5, <2>1
  <2>2. CASE ~(j < i)
    <3>1. j - (i - 1) \in 1 .. Len(s) - i /\ i + (j - (i - 1)) = j + 1
      BY <1>1, <2>2
    <3> QED BY <1>1, <1>3, <1>5, <2>2, <3>1
  <2> QED BY <2>1, <2>2
<1> QED BY <1>4, <1>5, <1>6

(* Whoever leaves the queue, those behind keep their order. *)
LEMMA RemoveRising ==
  ASSUME NEW w \in Seq(Nat), Rising(w), NEW i \in 1 .. Len(w)
  PROVE  /\ RemoveAt(w, i) \in Seq(Nat) /\ Rising(RemoveAt(w, i))
         /\ ToSet(RemoveAt(w, i)) = ToSet(w) \ {w[i]}
<1> DEFINE r == RemoveAt(w, i)
           up(j) == IF j < i THEN j ELSE j + 1
<1>1. /\ r \in Seq(Nat) /\ Len(r) = Len(w) - 1 /\ Len(w) \in Nat
      /\ \A j \in 1 .. Len(w) - 1 : r[j] = w[up(j)]
      /\ DOMAIN r = 1 .. Len(w) - 1 /\ DOMAIN w = 1 .. Len(w)
      /\ i \in Nat /\ \A j \in 1 .. Len(w) : w[j] \in Nat
  <2>1. /\ r \in Seq(Nat) /\ Len(r) = Len(w) - 1
        /\ \A j \in 1 .. Len(w) - 1 : r[j] = w[up(j)]
    BY RemoveAtPlaces
  <2>2. Len(w) \in Nat /\ DOMAIN w = 1 .. Len(w) /\ \A j \in 1 .. Len(w) : w[j] \in Nat
    BY LenProperties, ElementOfSeq
  <2> HIDE DEF r, up
  <2>3. DOMAIN r = 1 .. Len(r)
    BY <2>1, LenProperties
  <2> QED BY <2>1, <2>2, <2>3
<1> HIDE DEF r
<1>2. \A j \in 1 .. Len(w) - 1 : up(j) \in DOMAIN w /\ up(j) # i
  BY <1>1
<1>3. \A j, m \in 1 .. Len(w) - 1 : j < m => up(j) < up(m)
  <2> SUFFICES ASSUME NEW j \in 1 .. Len(w) - 1, NEW m \in 1 .. Len(w) - 1, j < m
               PROVE  up(j) < up(m)
    OBVIOUS
  <2>1. j \in Int /\ m \in Int /\ i \in Int
    BY <1>1
  <2> QED BY <2>1
<1>4. \A j \in DOMAIN w \ {i} : \E m \in 1 .. Len(w) - 1 : up(m) = j
  <2> SUFFICES ASSUME NEW j \in DOMAIN w \ {i} PROVE \E m \in 1 .. Len(w) - 1 : up(m) = j
    OBVIOUS
  <2>1. CASE j < i
    BY <1>1, <2>1
  <2>2. CASE j > i
    <3>1. j \in Int /\ i \in Int /\ Len(w) \in Int /\ 1 <= i /\ j <= Len(w)
      BY <1>1
    <3>2. j - 1 \in 1 .. Len(w) - 1 /\ up(j - 1) = j
      BY <2>2, <3>1
    <3> QED BY <3>2
  <2> QED BY <1>1, <2>1, <2>2
<1>5. \A j \in DOMAIN w : w[j] = w[i] => j = i
  <2> SUFFICES ASSUME NEW j \in DOMAIN w, j # i PROVE w[j] # w[i]
    OBVIOUS
  <2>1. i \in DOMAIN w /\ w[i] \in Nat /\ w[j] \in Nat /\ (i < j \/ j < i)
    BY <1>1
  <2> QED BY <2>1 DEF Rising
<1> HIDE DEF up
<1>6. Rising(r)
  BY <1>1, <1>2, <1>3 DEF Rising
<1>7. \A j \in 1 .. Len(w) - 1 : r[j] \in ToSet(w) \ {w[i]}
  <2> SUFFICES ASSUME NEW j \in 1 .. Len(w) - 1 PROVE r[j] \in ToSet(w) \ {w[i]}
    OBVIOUS
  <2>1. PICK m : m = up(j)
    OBVIOUS
  <2>2. m \in DOMAIN w /\ m # i /\ r[j] = w[m]
    BY <1>1, <1>2, <2>1
  <2>3. w[m] # w[i]
    BY <1>5, <2>2
  <2> QED BY <2>2, <2>3 DEF ToSet
<1>8. \A m \in DOMAIN w : w[m] = w[i] \/ w[m] \in ToSet(r)
  <2> SUFFICES ASSUME NEW m \in DOMAIN w, m # i PROVE w[m] \in ToSet(r)
    OBVIOUS
  <2>1. PICK j \in 1 .. Len(w) - 1 : up(j) = m
    BY <1>4
  <2>2. j \in DOMAIN r /\ r[j] = w[m]
    BY <1>1, <2>1
  <2> QED BY <2>2 DEF ToSet
<1>9. ToSet(r) = ToSet(w) \ {w[i]}
  BY <1>1, <1>7, <1>8 DEF ToSet
<1> QED BY <1>1, <1>6, <1>9 DEF r

(* The first one leaves. *)
LEMMA HeadRising ==
  ASSUME NEW w \in Seq(Nat), Rising(w), w # <<>>
  PROVE  /\ Head(w) \in ToSet(w) /\ Tail(w) \in Seq(Nat) /\ Rising(Tail(w))
         /\ ToSet(Tail(w)) = ToSet(w) \ {Head(w)}
         /\ \A i \in DOMAIN Tail(w) : Head(w) < Tail(w)[i]
<1>1. /\ Len(w) \in Nat /\ Len(w) > 0 /\ DOMAIN w = 1 .. Len(w) /\ Head(w) = w[1]
      /\ Tail(w) \in Seq(Nat) /\ Len(Tail(w)) = Len(w) - 1
      /\ \A i \in 1 .. Len(Tail(w)) : Tail(w)[i] = w[i + 1]
      /\ \A i \in 1 .. Len(w) : w[i] \in Nat
  BY HeadTailProperties, EmptySeq, LenProperties, ElementOfSeq
<1>2. DOMAIN Tail(w) = 1 .. Len(w) - 1
  BY <1>1, LenProperties
<1>3. PICK t : t = Tail(w)
  OBVIOUS
<1>4. \A i \in 1 .. Len(w) - 1 : t[i] = w[i + 1] /\ i + 1 \in 1 .. Len(w)
  BY <1>1, <1>3
<1>5. Rising(t)
  BY <1>1, <1>2, <1>3, <1>4 DEF Rising
<1>6. \A i \in 1 .. Len(w) - 1 : w[1] < t[i]
  BY <1>1, <1>4 DEF Rising
<1>7. ToSet(t) = ToSet(w) \ {w[1]}
  <2>1. \A j \in 2 .. Len(w) : \E i \in 1 .. Len(w) - 1 : t[i] = w[j]
    <3> SUFFICES ASSUME NEW j \in 2 .. Len(w) PROVE \E i \in 1 .. Len(w) - 1 : t[i] = w[j]
      OBVIOUS
    <3>1. j - 1 \in 1 .. Len(w) - 1 /\ t[j - 1] = w[j]
      BY <1>1, <1>4
    <3> QED BY <3>1
  <2>2. \A j \in 2 .. Len(w) : w[j] # w[1]
    BY <1>1 DEF Rising
  <2>3. \A i \in 1 .. Len(w) - 1 : t[i] \in ToSet(w) /\ t[i] # w[1]
    <3> SUFFICES ASSUME NEW i \in 1 .. Len(w) - 1 PROVE t[i] \in ToSet(w) /\ t[i] # w[1]
      OBVIOUS
    <3>1. PICK m \in 1 .. Len(w) : m = i + 1 /\ t[i] = w[m]
      BY <1>4
    <3>2. m \in 2 .. Len(w)
      BY <1>1, <3>1
    <3> QED BY <1>1, <2>2, <3>1, <3>2 DEF ToSet
  <2>4. \A x \in ToSet(w) : x = w[1] \/ \E j \in 2 .. Len(w) : x = w[j]
    BY <1>1 DEF ToSet
  <2>5. ToSet(t) = {t[i] : i \in 1 .. Len(w) - 1}
    BY <1>2, <1>3 DEF ToSet
  <2>6. \A x \in ToSet(w) : x = w[1] \/ x \in ToSet(t)
    <3> SUFFICES ASSUME NEW x \in ToSet(w), x # w[1] PROVE x \in ToSet(t)
      OBVIOUS
    <3>1. PICK j \in 2 .. Len(w) : x = w[j]
      BY <2>4
    <3>2. PICK i \in 1 .. Len(w) - 1 : t[i] = w[j]
      BY <2>1
    <3> QED BY <2>5, <3>1, <3>2
  <2>7. ToSet(t) \subseteq ToSet(w) \ {w[1]}
    BY <2>3, <2>5
  <2> QED BY <2>6, <2>7
<1>8. w[1] \in ToSet(w)
  BY <1>1 DEF ToSet
<1> QED BY <1>1, <1>2, <1>3, <1>5, <1>6, <1>7, <1>8

(* A newcomer goes to the end. *)
LEMMA AppendRising ==
  ASSUME NEW w \in Seq(Nat), Rising(w), NEW s \in Nat, \A i \in DOMAIN w : w[i] < s
  PROVE  /\ Append(w, s) \in Seq(Nat) /\ Rising(Append(w, s))
         /\ ToSet(Append(w, s)) = ToSet(w) \cup {s}
<1>1. /\ Len(w) \in Nat /\ DOMAIN w = 1 .. Len(w)
      /\ Append(w, s) \in Seq(Nat) /\ Len(Append(w, s)) = Len(w) + 1
      /\ \A i \in 1 .. Len(w) : Append(w, s)[i] = w[i]
      /\ Append(w, s)[Len(w) + 1] = s
  BY AppendProperties, LenProperties
<1>2. DOMAIN Append(w, s) = 1 .. Len(w) + 1
  BY <1>1, LenProperties
<1>3. PICK t : t = Append(w, s)
  OBVIOUS
<1>4. Rising(t)
  BY <1>1, <1>2, <1>3 DEF Rising
<1>5. ToSet(t) = ToSet(w) \cup {s}
  BY <1>1, <1>2, <1>3 DEF ToSet
<1> QED BY <1>1, <1>3, <1>4, <1>5

-----------------------------------------------------------------------------
(* Where sequences are. *)

Given == 1 .. next - 1

PlacesOK ==
  /\ next \in 1 .. NumSeqs + 1
  /\ req \in Seq(Requests) /\ Len(req) = next - 1
  /\ slots \in [Slot -> Given \cup {None}]
  /\ wait \in Seq(Nat) /\ Rising(wait) /\ ToSet(wait) \subseteq Given
  /\ finished \subseteq Given /\ taken \subseteq Given /\ done \subseteq Given

(* Nobody is lost, nobody is in two places, and caches are those of the running. *)
Apart ==
  /\ live = Running
  /\ \A i, j \in Occupied : slots[i] = slots[j] => i = j
  /\ Running \cap ToSet(wait) = {} /\ (Running \cup ToSet(wait)) \cap finished = {}
  /\ (Running \cup ToSet(wait) \cup finished) \cap taken = {}
  /\ Given = Running \cup ToSet(wait) \cup finished \cup taken

InTurn == \A s \in Running, w \in ToSet(wait) : s < w

Placed == PlacesOK /\ Apart /\ InTurn

(* What the placement is about. *)
placeVars == <<next, req, slots, wait, finished, taken, done, live>>

(* Sequence numbers are numbers, and None is not one of them. *)
LEMMA GivenIds ==
  ASSUME PlacesOK
  PROVE  /\ Given \subseteq Id /\ None \notin Given /\ \A s \in Given : s \in Nat /\ s < next
         /\ Running \subseteq Given /\ Occupied \subseteq Slot /\ next \in Nat
         /\ NumSeqs \in Nat /\ MaxSlots \in Nat
<1>1. next \in Nat /\ NumSeqs \in Nat /\ MaxSlots \in Nat /\ next <= NumSeqs + 1
  BY EngineAssumption DEF PlacesOK
<1>2. \A s \in Given : s \in Id /\ s \in Nat /\ s < next
  BY <1>1 DEF Given, Id
<1>3. None \notin Given
  BY <1>2, EngineAssumption DEF Id
<1>4. Running \subseteq Given
  BY DEF PlacesOK, Running, Occupied
<1> QED BY <1>1, <1>2, <1>3, <1>4 DEF Occupied

(* A slot is filled. *)
LEMMA Filled ==
  ASSUME PlacesOK, Apart, NEW s \in Nat, s # None, NEW i \in Slot, s \notin Running, Install(s, i)
  PROVE  /\ Running' = Running \cup {s} /\ live' = live \cup {s}
         /\ slots' \in [Slot -> Given \cup {s, None}]
         /\ \A m, n \in Occupied' : slots'[m] = slots'[n] => m = n
<1>1. slots' = [slots EXCEPT ![i] = s] /\ slots[i] = None /\ live' = live \cup {s}
  BY DEF Install, Pool!NewCache
<1>2. slots \in [Slot -> Given \cup {None}] /\ DOMAIN slots = Slot
  BY DEF PlacesOK
<1>3. /\ slots' \in [Slot -> Given \cup {s, None}]
      /\ \A m \in Slot : slots'[m] = IF m = i THEN s ELSE slots[m]
  BY <1>1, <1>2
<1>4. Occupied' = Occupied \cup {i} /\ i \notin Occupied
  BY <1>1, <1>3 DEF Occupied
<1>5. \A m \in Occupied : slots'[m] = slots[m] /\ m \in Slot /\ slots[m] \in Running
  BY <1>3, <1>4 DEF Occupied, Running
<1>6. slots'[i] = s
  BY <1>3
<1>7. Running' = Running \cup {s}
  <2>1. Running' = {slots'[m] : m \in Occupied'}
    BY DEF Running
  <2>2. \A x \in Running : \E m \in Occupied : x = slots'[m]
    BY <1>5 DEF Running
  <2> QED BY <1>4, <1>5, <1>6, <2>1, <2>2
<1>8. \A m, n \in Occupied' : slots'[m] = slots'[n] => m = n
  BY <1>4, <1>5, <1>6 DEF Apart
<1> QED BY <1>1, <1>3, <1>7, <1>8

(* A slot is emptied. *)
LEMMA Emptied ==
  ASSUME PlacesOK, Apart, NEW i \in Occupied, slots' = [slots EXCEPT ![i] = None]
  PROVE  /\ Running' = Running \ {slots[i]}
         /\ slots' \in [Slot -> Given \cup {None}]
         /\ \A m, n \in Occupied' : slots'[m] = slots'[n] => m = n
<1>1. slots \in [Slot -> Given \cup {None}] /\ DOMAIN slots = Slot /\ i \in Slot
  BY DEF PlacesOK, Occupied
<1>2. /\ slots' \in [Slot -> Given \cup {None}]
      /\ \A m \in Slot : slots'[m] = IF m = i THEN None ELSE slots[m]
  BY <1>1
<1>3. Occupied' = Occupied \ {i} /\ \A m \in Occupied' : slots'[m] = slots[m]
  BY <1>1, <1>2 DEF Occupied
<1>4. Running' = Running \ {slots[i]}
  <2>1. Running' = {slots'[m] : m \in Occupied'}
    BY DEF Running
  <2>2. \A m \in Occupied' : slots[m] # slots[i]
    BY <1>3 DEF Apart
  <2>3. \A x \in Running : x = slots[i] \/ \E m \in Occupied' : x = slots'[m]
    BY <1>3 DEF Running
  <2>4. \A m \in Occupied' : slots'[m] \in Running
    BY <1>3 DEF Running
  <2> QED BY <1>3, <2>1, <2>2, <2>3, <2>4
<1>5. \A m, n \in Occupied' : slots'[m] = slots'[n] => m = n
  BY <1>3 DEF Apart
<1> QED BY <1>2, <1>4, <1>5

LEMMA SamePlaces ==
  ASSUME Placed, UNCHANGED <<seqVars, live>>, done' \subseteq Given
  PROVE  Placed'
<1>1. UNCHANGED <<next, req, slots, wait, finished, taken, live, Given, Running, Occupied>>
  BY DEF seqVars, Given, Running, Occupied
<1>2. PlacesOK'
  BY <1>1 DEF Placed, PlacesOK
<1>3. Apart' /\ InTurn'
  BY <1>1 DEF Placed, Apart, InTurn
<1> QED BY <1>2, <1>3 DEF Placed

-----------------------------------------------------------------------------
(* The steps that move sequences. *)

LEMMA AddPlaces == ASSUME Placed, NEW r \in Requests, Add(r) PROVE Placed'
<1> USE DEF Placed
<1>0. /\ Given \subseteq Id /\ None \notin Given /\ next \in Nat /\ NumSeqs \in Nat
      /\ \A s \in Given : s \in Nat /\ s < next
      /\ Running \subseteq Given
  BY GivenIds
<1>1. /\ next <= NumSeqs /\ next' = next + 1 /\ req' = Append(req, r)
      /\ UNCHANGED <<finished, taken, done>>
  BY DEF Add, genVars
<1>2. /\ Given' = Given \cup {next} /\ next' \in 1 .. NumSeqs + 1 /\ next \in Id
      /\ next \notin Given /\ next # None
  BY <1>0, <1>1, EngineAssumption DEF Given, Id, PlacesOK
<1>3. req' \in Seq(Requests) /\ Len(req') = next' - 1
  BY <1>0, <1>1, AppendProperties DEF PlacesOK
<1>4. CASE wait' = Append(wait, next) /\ UNCHANGED <<slots, poolVars>>
  <2>1. \A i \in DOMAIN wait : wait[i] < next
    BY <1>0 DEF PlacesOK, ToSet
  <2>2. wait' \in Seq(Nat) /\ Rising(wait') /\ ToSet(wait') = ToSet(wait) \cup {next}
    BY <1>0, <1>4, <2>1, AppendRising DEF PlacesOK
  <2>3. UNCHANGED <<slots, live, Running, Occupied>>
    BY <1>4 DEF poolVars, Running, Occupied
  <2>4. PlacesOK'
    BY <1>1, <1>2, <1>3, <2>2, <2>3 DEF PlacesOK
  <2>5. Apart'
    BY <1>0, <1>1, <1>2, <2>2, <2>3 DEF Apart, PlacesOK
  <2>6. InTurn'
    BY <1>0, <2>2, <2>3 DEF InTurn, PlacesOK
  <2> QED BY <2>4, <2>5, <2>6
<1>5. CASE wait = <<>> /\ UNCHANGED wait /\ \E i \in Slot : Install(next, i)
  <2>1. PICK i \in Slot : Install(next, i)
    BY <1>5
  <2>2. /\ Running' = Running \cup {next} /\ live' = live \cup {next}
        /\ slots' \in [Slot -> Given \cup {next, None}]
        /\ \A m, n \in Occupied' : slots'[m] = slots'[n] => m = n
    BY <1>0, <1>2, <2>1, Filled
  <2>3. ToSet(wait) = {} /\ ToSet(wait') = {} /\ wait' = wait
    BY <1>5 DEF ToSet
  <2>4. slots' \in [Slot -> Given' \cup {None}]
    BY <1>2, <2>2
  <2>5. PlacesOK'
    BY <1>1, <1>2, <1>3, <2>3, <2>4 DEF PlacesOK
  <2>6. Apart'
    BY <1>1, <1>2, <2>2, <2>3 DEF Apart, PlacesOK
  <2>7. InTurn'
    BY <2>3 DEF InTurn
  <2> QED BY <2>5, <2>6, <2>7
<1> QED BY <1>4, <1>5 DEF Add

LEMMA TakePlaces == ASSUME Placed, NEW s \in Id, Take(s) PROVE Placed'
<1> USE DEF Placed
<1>0. Running \subseteq Given /\ \A x \in Given : x \in Nat
  BY GivenIds
<1>1. /\ s \in Given /\ s \notin taken /\ taken' = taken \cup {s}
      /\ UNCHANGED <<next, req, done>>
  BY GivenIds, EngineAssumption DEF Take, genVars, Given, Id
<1>2. Given' = Given
  BY <1>1 DEF Given
<1>3. CASE \E i \in Occupied : /\ slots[i] = s /\ slots' = [slots EXCEPT ![i] = None]
                               /\ Pool!DropCache(s) /\ UNCHANGED <<wait, finished>>
  <2>1. PICK i \in Occupied : /\ slots[i] = s /\ slots' = [slots EXCEPT ![i] = None]
                              /\ Pool!DropCache(s) /\ UNCHANGED <<wait, finished>>
    BY <1>3
  <2>2. live' = live \ {s} /\ UNCHANGED ToSet(wait) /\ s \in Running
    BY <2>1 DEF Pool!DropCache, ToSet, Running
  <2>3. /\ Running' = Running \ {s} /\ slots' \in [Slot -> Given \cup {None}]
        /\ \A m, n \in Occupied' : slots'[m] = slots'[n] => m = n
    BY <2>1, Emptied
  <2>4. PlacesOK'
    BY <1>1, <1>2, <2>1, <2>2, <2>3 DEF PlacesOK
  <2>5. Apart'
    BY <1>1, <1>2, <2>1, <2>2, <2>3 DEF Apart
  <2>6. InTurn'
    BY <2>2, <2>3 DEF InTurn
  <2> QED BY <2>4, <2>5, <2>6
<1>4. CASE s \in finished /\ finished' = finished \ {s} /\ UNCHANGED <<slots, wait, poolVars>>
  <2>1. UNCHANGED <<live, Running, Occupied, ToSet(wait)>>
    BY <1>4 DEF poolVars, Running, Occupied, ToSet
  <2>2. PlacesOK'
    BY <1>1, <1>2, <1>4, <2>1 DEF PlacesOK
  <2>3. Apart'
    BY <1>1, <1>2, <1>4, <2>1 DEF Apart
  <2>4. InTurn'
    BY <2>1 DEF InTurn
  <2> QED BY <2>2, <2>3, <2>4
<1>5. CASE /\ \E n \in DOMAIN wait : wait[n] = s /\ wait' = RemoveAt(wait, n)
           /\ UNCHANGED <<slots, finished, poolVars>>
  <2>1. PICK n \in DOMAIN wait : wait[n] = s /\ wait' = RemoveAt(wait, n)
    BY <1>5
  <2>2. n \in 1 .. Len(wait) /\ s \in ToSet(wait)
    BY <2>1, LenProperties DEF PlacesOK, ToSet
  <2>3. wait' \in Seq(Nat) /\ Rising(wait') /\ ToSet(wait') = ToSet(wait) \ {s}
    BY <2>1, <2>2, RemoveRising DEF PlacesOK
  <2>4. UNCHANGED <<live, Running, Occupied>>
    BY <1>5 DEF poolVars, Running, Occupied
  <2>5. PlacesOK'
    BY <1>1, <1>2, <1>5, <2>3 DEF PlacesOK
  <2>6. Apart'
    BY <1>1, <1>2, <1>5, <2>2, <2>3, <2>4 DEF Apart
  <2>7. InTurn'
    BY <2>3, <2>4 DEF InTurn
  <2> QED BY <2>5, <2>6, <2>7
<1> QED BY <1>3, <1>4, <1>5 DEF Take

LEMMA RetirePlaces == ASSUME Placed, Retire PROVE Placed'
<1> USE DEF Placed
<1>1. UNCHANGED <<next, req, wait, taken, done>>
  BY DEF Retire, genVars
<1>2. CASE \E i \in Occupied :
             /\ slots[i] \in done /\ finished' = finished \cup {slots[i]}
             /\ slots' = [slots EXCEPT ![i] = None] /\ Pool!DropCache(slots[i])
  <2>1. PICK i \in Occupied :
             /\ slots[i] \in done /\ finished' = finished \cup {slots[i]}
             /\ slots' = [slots EXCEPT ![i] = None] /\ Pool!DropCache(slots[i])
    BY <1>2
  <2>2. /\ Given' = Given /\ UNCHANGED ToSet(wait) /\ slots[i] \in Given
        /\ live' = live \ {slots[i]} /\ slots[i] \in Running
    BY <1>1, <2>1 DEF Given, ToSet, PlacesOK, Pool!DropCache, Running
  <2>3. /\ Running' = Running \ {slots[i]} /\ slots' \in [Slot -> Given \cup {None}]
        /\ \A m, n \in Occupied' : slots'[m] = slots'[n] => m = n
    BY <2>1, Emptied
  <2>4. PlacesOK'
    BY <1>1, <2>1, <2>2, <2>3 DEF PlacesOK
  <2>5. PICK s : s = slots[i]
    OBVIOUS
  <2>6. Apart'
    BY <1>1, <2>1, <2>2, <2>3, <2>5 DEF Apart
  <2>7. InTurn'
    BY <2>2, <2>3 DEF InTurn
  <2> QED BY <2>4, <2>6, <2>7
<1>3. CASE UNCHANGED <<poolVars, slots, finished>>
  BY <1>1, <1>3, SamePlaces DEF seqVars, poolVars, PlacesOK
<1> QED BY <1>2, <1>3 DEF Retire

LEMMA AdmitPlaces == ASSUME Placed, Admit PROVE Placed'
<1> USE DEF Placed
<1>1. UNCHANGED <<next, req, finished, taken, done>>
  BY DEF Admit, genVars
<1>2. CASE wait # <<>> /\ wait' = Tail(wait) /\ \E i \in Slot : Install(Head(wait), i)
  <2>1. PICK s : s = Head(wait)
    OBVIOUS
  <2>2. PICK i \in Slot : Install(s, i)
    BY <1>2, <2>1
  <2>3. /\ s \in ToSet(wait) /\ wait' \in Seq(Nat) /\ Rising(wait')
        /\ ToSet(wait') = ToSet(wait) \ {s}
        /\ \A n \in DOMAIN wait' : s < wait'[n]
    BY <1>2, <2>1, HeadRising DEF PlacesOK
  <2>4. s \in Given /\ s \in Nat /\ s # None /\ s \notin Running
    BY <2>3, GivenIds DEF PlacesOK, Apart
  <2>5. /\ Running' = Running \cup {s} /\ live' = live \cup {s}
        /\ slots' \in [Slot -> Given \cup {s, None}]
        /\ \A m, n \in Occupied' : slots'[m] = slots'[n] => m = n
    BY <2>2, <2>4, Filled
  <2>6. Given' = Given /\ slots' \in [Slot -> Given \cup {None}]
    BY <1>1, <2>4, <2>5 DEF Given
  <2>7. PlacesOK'
    BY <1>1, <2>3, <2>6 DEF PlacesOK
  <2>8. Apart'
    BY <1>1, <2>3, <2>4, <2>5, <2>6 DEF Apart
  <2>9. \A w \in ToSet(wait') : s < w
    BY <2>3 DEF ToSet
  <2>10. InTurn'
    BY <2>3, <2>5, <2>9 DEF InTurn
  <2> QED BY <2>7, <2>8, <2>10
<1>3. CASE UNCHANGED <<poolVars, slots, wait>>
  BY <1>1, <1>3, SamePlaces DEF seqVars, poolVars, PlacesOK
<1> QED BY <1>2, <1>3 DEF Admit

(* All other steps leave every sequence where it is. *)
LEMMA StayPut ==
  \/ \E s \in Id : Pool!Preempt(s)
  \/ \E s, p, m : Pool!PromptSuffix(s, p, m)
  \/ \E what, js : Pool!Start(what, js)
  \/ \E s, n : Pool!StartPrepare(s, n)
  \/ Pool!CallStep
  \/ UNCHANGED poolVars
  => UNCHANGED live
BY DEF Pool!Preempt, Pool!PromptSuffix, Pool!Start, Pool!StartPrepare, Pool!CallStep,
  Pool!FullError, Pool!Fault, Pool!Cow, Pool!CapError, Pool!Reserved, Pool!NextJob,
  Pool!Transformer, Pool!TransformerError, Pool!Commit, Pool!cacheVars, poolVars

LEMMA CapPlaces ==
  ASSUME Placed, NEW i, NEW there, OnCap(i, there)
  PROVE  Placed'
<1>1. UNCHANGED seqVars
  BY DEF OnCap
<1>2. UNCHANGED <<live, done>>
  <2>1. CASE PreemptFor(i)
    BY <2>1 DEF PreemptFor, Pool!Preempt
  <2>2. CASE UNCHANGED <<poolVars, genVars>>
    BY <2>2 DEF poolVars, genVars
  <2> QED BY <2>1, <2>2 DEF OnCap
<1>3. done' \subseteq Given
  BY <1>2 DEF Placed, PlacesOK
<1> QED BY <1>1, <1>2, <1>3, SamePlaces

LEMMA SamplePlaces == ASSUME Placed, Sample PROVE Placed'
<1>1. UNCHANGED <<seqVars, live>>
  BY DEF Sample, poolVars
<1>2. Samples \subseteq Given
  BY GivenIds DEF Placed, Samples, IsDecode, Running
<1>3. done' \subseteq done \cup Samples
  BY DEF Sample
<1>4. done' \subseteq Given
  BY <1>2, <1>3 DEF Placed, PlacesOK
<1> QED BY <1>1, <1>4, SamePlaces

LEMMA PlacesNext == ASSUME Placed, [Next]_vars PROVE Placed'
<1>0. done \subseteq Given
  BY DEF Placed, PlacesOK
<1>1. ASSUME UNCHANGED <<seqVars, done>>,
             \/ \E s, p, m : Pool!PromptSuffix(s, p, m)
             \/ \E what, js : Pool!Start(what, js)
             \/ \E s, n : Pool!StartPrepare(s, n)
             \/ Pool!CallStep
             \/ UNCHANGED poolVars
      PROVE  Placed'
  <2>1. UNCHANGED live
    BY <1>1, StayPut
  <2> QED BY <1>0, <1>1, <2>1, SamePlaces
<1>2. CASE UNCHANGED vars
  BY <1>1, <1>2 DEF vars, genVars
<1>3. CASE \E r \in Requests : Add(r)
  BY <1>3, AddPlaces
<1>4. CASE \E s \in Id : Take(s)
  BY <1>4, TakePlaces
<1>5. CASE Retire \/ Admit \/ Sample
  BY <1>5, RetirePlaces, AdmitPlaces, SamplePlaces
<1>6. CASE SerialCap \/ BatchCap \/ ForwardCap
  BY <1>6, CapPlaces DEF SerialCap, BatchCap, ForwardCap
<1>7. CASE \/ BeginStep \/ Collect \/ Replays \/ Retry \/ BatchPrepared \/ ForwardPrepared
           \/ SerialDone \/ BatchDone \/ ForwardDone
  <2>1. UNCHANGED <<poolVars, seqVars, done>>
    BY <1>7 DEF BeginStep, Collect, Replays, Retry, BatchPrepared, ForwardPrepared,
         SerialDone, BatchDone, ForwardDone, genVars
  <2> QED BY <1>1, <2>1
<1>8. CASE Serial \/ BatchSuffix
  <2>1. UNCHANGED <<seqVars, done>>
    BY <1>8 DEF Serial, BatchSuffix, genVars
  <2>2. UNCHANGED poolVars \/ \E s, p, m : Pool!PromptSuffix(s, p, m)
    BY <1>8 DEF Serial, BatchSuffix
  <2> QED BY <1>1, <2>1, <2>2
<1>9. CASE SerialPrefill \/ BatchStart \/ ForwardStart
  <2>1. UNCHANGED <<seqVars, done>>
    BY <1>9 DEF SerialPrefill, BatchStart, ForwardStart, genVars
  <2>2. \E what, js : Pool!Start(what, js)
    BY <1>9 DEF SerialPrefill, BatchStart, ForwardStart
  <2> QED BY <1>1, <2>1, <2>2
<1>10. CASE BatchPrepare \/ ForwardPrepare
  <2>1. UNCHANGED <<seqVars, done>>
    BY <1>10 DEF BatchPrepare, ForwardPrepare, genVars
  <2>2. \E s, n : Pool!StartPrepare(s, n)
    BY <1>10 DEF BatchPrepare, ForwardPrepare
  <2> QED BY <1>1, <2>1, <2>2
<1>11. CASE PoolStep
  BY <1>1, <1>11 DEF PoolStep, genVars
<1> QED BY <1>2, <1>3, <1>4, <1>5, <1>6, <1>7, <1>8, <1>9, <1>10, <1>11 DEF Next, StepOnce

LEMMA PlacesInit == Init => Placed
<1> SUFFICES ASSUME Init PROVE Placed
  OBVIOUS
<1>1. /\ next = 1 /\ req = <<>> /\ slots = [i \in Slot |-> None] /\ wait = <<>>
      /\ finished = {} /\ taken = {} /\ done = {} /\ live = {}
  BY DEF Init, Pool!Init
<1>2. NumSeqs \in Nat /\ NumSeqs > 0
  BY EngineAssumption
<1>3. Given = {} /\ next \in 1 .. NumSeqs + 1
  BY <1>1, <1>2 DEF Given
<1>4. Occupied = {} /\ Running = {}
  BY <1>1 DEF Occupied, Running
<1>5. ToSet(wait) = {} /\ wait \in Seq(Nat) /\ Rising(wait) /\ req \in Seq(Requests) /\ Len(req) = 0
  BY <1>1 DEF ToSet, Rising
<1>6. PlacesOK
  BY <1>1, <1>3, <1>5 DEF PlacesOK
<1>7. Apart /\ InTurn
  BY <1>1, <1>3, <1>4, <1>5 DEF Apart, InTurn
<1> QED BY <1>6, <1>7 DEF Placed

(* In every reachable state each sequence ever added is in one place and in its turn. *)
THEOREM PlacesInvariant == Spec => []Placed
<1>1. Init => Placed
  BY PlacesInit
<1>2. Placed /\ [Next]_vars => Placed'
  BY PlacesNext
<1> QED BY <1>1, <1>2, PTL DEF Spec

(* retire_done, admit, add and take move a sequence together with its cache: it never
   vanishes, never runs twice and never leaves blocks behind. *)
THEOREM AlwaysOnePlace == Spec => []OnePlace
<1>1. Placed => OnePlace
  <2> SUFFICES ASSUME Placed, NEW s \in Given
               PROVE  Cardinality({w \in {"run", "wait", "finished", "taken"} :
         CASE w = "run" -> s \in Running [] w = "wait" -> s \in ToSet(wait)
           [] w = "finished" -> s \in finished [] w = "taken" -> s \in taken}) = 1
    BY DEF OnePlace, Placed, Apart, Given
  <2> DEFINE W == {w \in {"run", "wait", "finished", "taken"} :
         CASE w = "run" -> s \in Running [] w = "wait" -> s \in ToSet(wait)
           [] w = "finished" -> s \in finished [] w = "taken" -> s \in taken}
  <2>1. CASE s \in Running
    <3>1. W = {"run"}
      BY <2>1 DEF Placed, Apart
    <3> QED BY <3>1, FS_Singleton
  <2>2. CASE s \in ToSet(wait)
    <3>1. W = {"wait"}
      BY <2>2 DEF Placed, Apart
    <3> QED BY <3>1, FS_Singleton
  <2>3. CASE s \in finished
    <3>1. W = {"finished"}
      BY <2>3 DEF Placed, Apart
    <3> QED BY <3>1, FS_Singleton
  <2>4. CASE s \in taken
    <3>1. W = {"taken"}
      BY <2>4 DEF Placed, Apart
    <3> QED BY <3>1, FS_Singleton
  <2> QED BY <2>1, <2>2, <2>3, <2>4 DEF Placed, Apart
<1> QED BY <1>1, PlacesInvariant, PTL

(* Whatever is added, cancelled, preempted or retired, whoever waits came after all who
   run, and waits in the order of arrival. *)
THEOREM AlwaysInOrder == Spec => []ArrivalOrder
<1>1. Placed => ArrivalOrder
  BY DEF Placed, PlacesOK, InTurn, Rising, ArrivalOrder, ToSet
<1> QED BY <1>1, PlacesInvariant, PTL

-----------------------------------------------------------------------------
(* How the engine calls its caches. *)

CallPcs == {"serialCall", "batchPrepare", "batchCall", "forwardPrepare", "forwardCall"}

(* A slot with something to compute before the sampling. *)
Serves(i) == IsPrefill(i) \/ SlotBatchable(i)

(* The first n members of the batch know which tokens to compute. *)
Ready(n) ==
  \A j \in DOMAIN items : j <= n /\ IsPrefill(items[j]) => suffix[slots[items[j]]] # <<>>

(* A batch lists slots in slot order, each once. *)
Listed ==
  /\ items \in Seq(Slot) /\ Len(items) <= MaxSlots
  /\ \A m, n \in DOMAIN items : m < n => items[m] < items[n]

CtlOK ==
  /\ Listed /\ k \in Nat \ {0}
  /\ phase # "idle" => pc \in CallPcs
  /\ pc \in {"batchPrepare", "forwardPrepare"} /\ phase # "idle" =>
       phase = "reserve" /\ op = "prepare"
  /\ pc = "serialSuffix" => k \in Occupied /\ suffix[slots[k]] # <<>>
  /\ pc \in {"batch", "batchSuffix", "batchPrepare"} =>
       items # <<>> /\ \A j \in DOMAIN items : Serves(items[j])
  /\ pc = "batch" => Ready(k - 1)
  /\ pc \in {"batchSuffix", "batchPrepare"} => k \in DOMAIN items /\ Ready(k)
  /\ pc \in {"forward", "forwardPrepare"} =>
       items # <<>> /\ \A j \in DOMAIN items : SlotBatchable(items[j])

(* Jobs of the running call whose tokens are not in KV yet. *)
Remaining == {j \in DOMAIN jobs : phase = "commit" => j >= at}

(* A batched forward pass computes what its members lack: one token each of what they
   generated, or tokens of their prompt. *)
PassOK ==
  /\ pc \in {"batchCall", "forwardCall"} => \A m \in DOMAIN items : items[m] \in Occupied
  /\ pc \in {"batchCall", "forwardCall"} /\ phase # "idle" =>
       /\ DOMAIN jobs = DOMAIN items
       /\ \A m \in DOMAIN items : jobs[m].seq = slots[items[m]]
  /\ pc = "forwardCall" => \A m \in DOMAIN items : Replaying(items[m])
  /\ pc = "batchCall" => \A m \in DOMAIN items :
       Replaying(items[m]) \/ Past(items[m]) <= Len(Prompt(items[m]))
  /\ pc = "batchCall" /\ phase # "idle" => \A m \in Remaining :
       Replaying(items[m]) \/ Past(items[m]) + Len(jobs[m].toks) <= Len(Prompt(items[m]))

(* What is left of a prompt is left only as long as the prompt is not done. *)
SuffixOK ==
  \A s \in Id : suffix[s] # <<>> =>
    /\ s \in live /\ Len(ids[s]) + Len(suffix[s]) <= Len(req[s].prompt)
    /\ Len(suffix[s]) \in 1 .. MaxSeq

TextOK ==
  /\ \A s \in Given : Len(req[s].prompt) + req[s].predict <= MaxSeq
  /\ generated \in [Id -> Seq(Token)] /\ replay \in [Id -> Nat]
  /\ \A s \in Id : replay[s] <= Len(generated[s])

Calls == CtlOK /\ PassOK /\ SuffixOK /\ TextOK

ModeOK == mode \in {"compute", "replay", "decode"}

Known == Placed /\ P!KvInv /\ Calls /\ ModeOK

(* The pool is given what it asks of its constants. *)
LEMMA PoolAssumption == P!KvAssumption
<1>1. IsFiniteSet(Id)
  BY EngineAssumption, FS_Interval DEF Id
<1>2. P!IsFiniteSet(Id)
  BY <1>1 DEF IsFiniteSet, P!IsFiniteSet
<1>3. \A r \in Requests : r.prompt \in Seq(Token) \ {<<>>}
  BY EngineAssumption
<1>4. 1 .. MaxSeq \subseteq Nat \ {0}
  BY EngineAssumption
<1> QED BY <1>2, <1>3, <1>4, EngineAssumption DEF P!KvAssumption

LEMMA PoolTypes ==
  ASSUME P!KvInv
  PROVE  /\ live \subseteq Id /\ ids \in [Id -> Seq(Token)] /\ suffix \in [Id -> Seq(Token)]
         /\ \A s \in Id : Len(ids[s]) \in Nat /\ Len(suffix[s]) \in Nat
BY LenProperties DEF P!KvInv, P!IInv, P!Counted, P!TypeOK

(* prompt_suffix leaves a part of the prompt, never nothing. *)
LEMMA Positioned ==
  ASSUME P!KvInv, NEW s \in Id, NEW r \in Requests, Pool!PromptSuffix(s, r.prompt, Chunk)
  PROVE  \E h \in 0 .. Len(r.prompt) - 1, u \in Seq(Token) :
           /\ ids' = [ids EXCEPT ![s] = SubSeq(r.prompt, 1, h)]
           /\ Len(SubSeq(r.prompt, 1, h)) = h
           /\ suffix' = [suffix EXCEPT ![s] = u]
           /\ Len(u) \in 1 .. Len(r.prompt) - h
           /\ \A i \in 1 .. Len(u) : u[i] = r.prompt[h + i]
           /\ phase' = "idle" /\ UNCHANGED live
<1>0. PICK p : p = r.prompt
  OBVIOUS
<1>1. /\ p \in Seq(Token) /\ Len(p) \in Nat /\ Len(p) > 0 /\ Chunk \in Nat
      /\ \A i \in 1 .. Len(p) : p[i] \in Token
  BY <1>0, EngineAssumption, ElementOfSeq, LenProperties
<1>2. P!PromptSuffix(s, p, Chunk) /\ p \in {x.prompt : x \in Requests} /\ Chunk \in {Chunk}
  BY <1>0, SameSuffix
<1>3. P!IInv /\ P!Exact
  BY DEF P!KvInv
<1>4. PICK t \in Seq(P!Block), h \in 0 .. Len(p) - 1 :
        /\ P!Rebind(s, p, t, h)
        /\ \/ suffix' = [suffix EXCEPT ![s] = SubSeq(p, h + 1, Len(p))]
           \/ Chunk > 0 /\ suffix' = [suffix EXCEPT ![s] = P!Take(SubSeq(p, h + 1, Len(p)), Chunk)]
  BY <1>2, <1>3, PoolAssumption, P!PromptSuffixRebinds
<1>5. ids' = [ids EXCEPT ![s] = SubSeq(p, 1, h)]
  BY <1>4 DEF P!Rebind
<1>6. phase' = "idle" /\ UNCHANGED live
  BY <1>2 DEF P!PromptSuffix, P!callVars
<1>7. h \in Nat /\ h + 1 \in Nat /\ h < Len(p)
  BY <1>1
<1>8. Len(SubSeq(p, 1, h)) = h
  BY <1>1, <1>7, SubSeqProperties
<1>9. PICK v : v = SubSeq(p, h + 1, Len(p))
  OBVIOUS
<1>10. /\ v \in Seq(Token) /\ Len(v) = Len(p) - h /\ Len(v) \in Nat /\ Len(v) > 0
       /\ \A i \in 1 .. Len(v) : v[i] = p[h + i]
  <2>1. \A i \in h + 1 .. Len(p) : p[i] \in Token
    BY <1>1, <1>7
  <2>2. /\ v \in Seq(Token)
        /\ Len(v) = IF h + 1 <= Len(p) THEN Len(p) - (h + 1) + 1 ELSE 0
        /\ \A i \in 1 .. Len(p) - (h + 1) + 1 : v[i] = p[h + 1 + i - 1]
    BY <1>1, <1>7, <1>9, <2>1, SubSeqProperties
  <2>3. Len(v) = Len(p) - h
    BY <1>1, <1>7, <2>2
  <2>4. ASSUME NEW i \in 1 .. Len(v) PROVE v[i] = p[h + i]
    <3>1. i \in Int /\ i \in 1 .. Len(p) - (h + 1) + 1 /\ h + 1 + i - 1 = h + i
      BY <1>1, <1>7, <2>3
    <3> QED BY <2>2, <3>1
  <2>5. Len(v) \in Nat /\ Len(v) > 0
    BY <1>1, <1>7, <2>3
  <2> QED BY <2>2, <2>3, <2>4, <2>5
<1>11. \E u \in Seq(Token) :
         /\ suffix' = [suffix EXCEPT ![s] = u] /\ Len(u) \in 1 .. Len(p) - h
         /\ \A i \in 1 .. Len(u) : u[i] = p[h + i]
  <2>1. CASE suffix' = [suffix EXCEPT ![s] = v]
    <3>1. Len(v) \in 1 .. Len(p) - h
      BY <1>1, <1>7, <1>10
    <3> QED BY <1>10, <2>1, <3>1
  <2>2. CASE Chunk > 0 /\ suffix' = [suffix EXCEPT ![s] = P!Take(v, Chunk)]
    <3>1. PICK c : c = IF Chunk < Len(v) THEN Chunk ELSE Len(v)
      OBVIOUS
    <3>2. PICK u : u = SubSeq(v, 1, c)
      OBVIOUS
    <3>3. c \in Nat /\ c >= 1 /\ c <= Len(v) /\ P!Take(v, Chunk) = u
      BY <1>1, <1>10, <2>2, <3>1, <3>2 DEF P!Take
    <3>4. \A i \in 1 .. c : v[i] \in Token
      BY <1>10, <3>3, ElementOfSeq
    <3>5. u \in Seq(Token) /\ Len(u) = c /\ \A i \in 1 .. c : u[i] = v[i]
      BY <1>10, <3>2, <3>3, <3>4, SubSeqProperties
    <3>6. Len(u) \in 1 .. Len(p) - h
      BY <1>1, <1>7, <1>10, <3>3, <3>5
    <3>7. ASSUME NEW i \in 1 .. Len(u) PROVE u[i] = p[h + i]
      <4>1. i \in 1 .. c /\ i \in 1 .. Len(v)
        BY <1>10, <3>3, <3>5
      <4> QED BY <1>10, <3>5, <4>1
    <3> QED BY <2>2, <3>3, <3>5, <3>6, <3>7
  <2> QED BY <1>4, <1>9, <2>1, <2>2
<1> QED BY <1>0, <1>1, <1>5, <1>6, <1>8, <1>11

(* Texts go on with tokens of the vocabulary. *)
SamplesTokens == \A s \in Samples : Greedy(last[s]) \in Token

LEMMA Member ==
  ASSUME Placed, NEW i \in Occupied
  PROVE  /\ slots[i] \in live /\ slots[i] \in Given /\ slots[i] \in Id /\ i \in Slot
         /\ req[slots[i]] \in Requests
<1>1. slots[i] \in Running
  BY DEF Running
<1>2. slots[i] \in Given /\ slots[i] \in live /\ slots[i] \in Id /\ i \in Slot
  BY <1>1, GivenIds DEF Placed, Apart
<1>3. req \in Seq(Requests) /\ Len(req) = next - 1
  BY DEF Placed, PlacesOK
<1> QED BY <1>2, <1>3, ElementOfSeq DEF Given

(* A token to replay or to forward is a legal group. *)
LEMMA ReplayGroup ==
  ASSUME Known, NEW i, SlotBatchable(i)
  PROVE  /\ i \in Occupied /\ Unforwarded(i) \in Token
         /\ <<Unforwarded(i)>> \in Pool!Groups(slots[i])
<1>1. i \in Occupied /\ Past(i) >= Len(Prompt(i)) /\ Replaying(i)
  BY DEF SlotBatchable, IsDecode
<1>2. PICK s : s = slots[i]
  OBVIOUS
<1>3. s \in Id
  BY <1>1, <1>2, Member DEF Known
<1>4. generated[s] \in Seq(Token) /\ replay[s] \in Nat /\ replay[s] < Len(generated[s])
  BY <1>1, <1>2, <1>3 DEF Known, Calls, TextOK, Replaying
<1>5. replay[s] + 1 \in 1 .. Len(generated[s])
  BY <1>4, LenProperties
<1>6. Unforwarded(i) \in Token
  BY <1>2, <1>4, <1>5, ElementOfSeq DEF Unforwarded
<1>7. suffix[s] = <<>>
  <2>1. ~(Len(ids[s]) + Len(suffix[s]) <= Len(req[s].prompt) /\ Len(suffix[s]) \in 1 .. MaxSeq)
    <3>1. Len(ids[s]) \in Nat /\ Len(suffix[s]) \in Nat
      BY <1>3, PoolTypes DEF Known
    <3>2. Len(req[s].prompt) \in Nat
      <4>1. req[s] \in Requests
        BY <1>1, <1>2, Member DEF Known
      <4> QED BY <4>1, EngineAssumption, LenProperties
    <3>3. Len(ids[s]) >= Len(req[s].prompt)
      BY <1>1, <1>2 DEF Past, Prompt
    <3>4. MaxSeq \in Nat
      BY EngineAssumption
    <3> QED
      <4> SUFFICES ASSUME Len(ids[s]) + Len(suffix[s]) <= Len(req[s].prompt),
                          Len(suffix[s]) \in 1 .. MaxSeq
                   PROVE  FALSE
        OBVIOUS
      <4>1. PICK a, b, c \in Nat : a = Len(ids[s]) /\ b = Len(suffix[s]) /\ c = Len(req[s].prompt)
        BY <3>1, <3>2
      <4>2. b \in 1 .. MaxSeq /\ a + b <= c
        BY <4>1
      <4>3. a >= c
        BY <3>3, <4>1
      <4> QED BY <3>4, <4>2, <4>3
  <2> QED BY <1>3, <2>1 DEF Known, Calls, SuffixOK
<1> QED BY <1>1, <1>2, <1>6, <1>7 DEF Pool!Groups

(* So is what a member of the batch computes. *)
LEMMA PartGroup ==
  ASSUME Known, NEW i, Serves(i), IsPrefill(i) => suffix[slots[i]] # <<>>
  PROVE  /\ i \in Occupied /\ Part(i) \in Seq(Token) /\ Len(Part(i)) \in 1 .. MaxSeq
         /\ Part(i) \in Pool!Groups(slots[i])
<1>1. CASE IsPrefill(i)
  <2>1. PICK s : s = slots[i]
    OBVIOUS
  <2>2. i \in Occupied /\ s \in Id /\ suffix[s] # <<>> /\ Part(i) = suffix[s]
    BY <1>1, <2>1, Member DEF Known, IsPrefill, Part
  <2>3. suffix[s] \in Seq(Token) /\ Len(suffix[s]) \in 1 .. MaxSeq
    BY <2>2, PoolTypes DEF Known, Calls, SuffixOK
  <2> QED BY <2>1, <2>2, <2>3 DEF Pool!Groups
<1>2. CASE ~IsPrefill(i)
  <2>1. SlotBatchable(i) /\ Part(i) = <<Unforwarded(i)>>
    BY <1>2 DEF Serves, Part
  <2>2. PICK t \in Token : t = Unforwarded(i) /\ <<t>> \in Pool!Groups(slots[i])
    BY <2>1, ReplayGroup
  <2>3. <<t>> \in Seq(Token) /\ Len(<<t>>) = 1 /\ 1 \in 1 .. MaxSeq
    BY EngineAssumption
  <2> QED BY <2>1, <2>2, <2>3, ReplayGroup
<1> QED BY <1>1, <1>2

(* A batch of legal groups of different caches is a legal batch. *)
LEMMA LegalBatch ==
  ASSUME NEW n \in 1 .. MaxSlots, NEW js \in [1 .. n -> [seq : live, toks : Seq(Token)]],
         \A j \in 1 .. n : js[j].toks \in Pool!Groups(js[j].seq),
         \A i, j \in 1 .. n : js[i].seq = js[j].seq => i = j,
         Pool!Start("prefill", js)
  PROVE  Pool!Next
<1>1. DOMAIN js = 1 .. n /\ \A j \in 1 .. n : js[j] \in [seq : live, toks : Seq(Token)]
  OBVIOUS
<1>2. Pool!IsBatch(js)
  BY <1>1 DEF Pool!IsBatch
<1>3. Pool!StartPrefill(js)
  BY <1>2 DEF Pool!StartPrefill
<1>4. \A j \in 1 .. n : js[j] \in [seq : live, toks : UNION {Pool!Groups(s) : s \in live}]
  <2> SUFFICES ASSUME NEW j \in 1 .. n
               PROVE  js[j] \in [seq : live, toks : UNION {Pool!Groups(s) : s \in live}]
    OBVIOUS
  <2>1. PICK a \in live, t \in Seq(Token) : js[j] = [seq |-> a, toks |-> t]
    BY <1>1
  <2>2. t \in Pool!Groups(a)
    BY <2>1
  <2> QED BY <2>1, <2>2
<1>5. js \in [1 .. n -> [seq : live, toks : UNION {Pool!Groups(s) : s \in live}]]
  BY <1>1, <1>4
<1>6. js \in Pool!Batches
  BY <1>5 DEF Pool!Batches
<1> QED BY <1>3, <1>6 DEF Pool!Next

(* The members of a batch have caches of their own. *)
LEMMA DistinctItems ==
  ASSUME Known, NEW i \in DOMAIN items, NEW j \in DOMAIN items,
         items[i] \in Occupied, items[j] \in Occupied, slots[items[i]] = slots[items[j]]
  PROVE  i = j
<1>1. items[i] = items[j]
  BY DEF Known, Placed, Apart
<1>2. /\ items \in Seq(Slot) /\ Len(items) \in Nat /\ DOMAIN items = 1 .. Len(items)
      /\ \A m, n \in DOMAIN items : m < n => items[m] < items[n]
      /\ \A m \in 1 .. Len(items) : items[m] \in Slot
  BY LenProperties, ElementOfSeq DEF Known, Calls, CtlOK, Listed
<1>3. items[i] \in Int /\ i \in Int /\ j \in Int
  BY <1>2, GivenIds DEF Slot, Known, Placed
<1>4. ~(i < j)
  <2> SUFFICES ASSUME i < j PROVE FALSE
    OBVIOUS
  <2>1. items[i] < items[j]
    BY <1>2
  <2> QED BY <1>1, <1>3, <2>1
<1>5. ~(j < i)
  <2> SUFFICES ASSUME j < i PROVE FALSE
    OBVIOUS
  <2>1. items[j] < items[i]
    BY <1>2
  <2> QED BY <1>1, <1>3, <2>1
<1> QED BY <1>3, <1>4, <1>5

(* A batch with one legal group for each listed slot is a legal batch. *)
LEMMA LegalItems ==
  ASSUME Known, items # <<>>, NEW js, js = [j \in DOMAIN items |-> js[j]],
         \A j \in DOMAIN items :
           /\ items[j] \in Occupied
           /\ \E t \in Seq(Token) : /\ js[j] = [seq |-> slots[items[j]], toks |-> t]
                                   /\ t \in Pool!Groups(slots[items[j]]),
         Pool!Start("prefill", js)
  PROVE  Pool!Next
<1>1. /\ Len(items) \in Nat /\ DOMAIN items = 1 .. Len(items) /\ Len(items) \in 1 .. MaxSlots
      /\ \A m, n \in DOMAIN items : m < n => items[m] < items[n]
      /\ \A m \in DOMAIN items : items[m] \in Slot
  BY GivenIds, LenProperties, EmptySeq, ElementOfSeq
  DEF Known, Calls, CtlOK, Listed, Placed
<1>2. PICK n \in 1 .. MaxSlots : n = Len(items) /\ DOMAIN items = 1 .. n
  BY <1>1
<1>3. \A j \in 1 .. n : slots[items[j]] \in live
  BY <1>2, Member DEF Known
<1>4. \A j \in 1 .. n : /\ js[j] \in [seq : live, toks : Seq(Token)]
                        /\ js[j].toks \in Pool!Groups(js[j].seq)
                        /\ js[j].seq = slots[items[j]]
  BY <1>2, <1>3
<1>5. js \in [1 .. n -> [seq : live, toks : Seq(Token)]]
  BY <1>2, <1>4
<1>6. \A i, j \in 1 .. n : js[i].seq = js[j].seq => i = j
  BY <1>2, <1>4, DistinctItems
<1> QED BY <1>4, <1>5, <1>6, LegalBatch

(* Whatever the engine does to the pool is a step its callers may take. *)
LEMMA LegalStep ==
  ASSUME Known, [Next]_vars
  PROVE  Pool!Next \/ UNCHANGED poolVars
<1>0. Placed /\ PlacesOK /\ Calls /\ CtlOK
  BY DEF Known, Placed, Calls
<1>1. ASSUME NEW s \in Id, NEW i, Install(s, i) PROVE Pool!Next
  BY <1>1 DEF Install, Pool!Next
<1>2. ASSUME NEW s \in Id, Pool!DropCache(s) \/ Pool!Preempt(s) PROVE Pool!Next
  BY <1>2 DEF Pool!Next
<1>3. ASSUME NEW s \in Id, NEW n \in 1 .. MaxSeq, Pool!StartPrepare(s, n) PROVE Pool!Next
  BY <1>3 DEF Pool!Next
<1>4. ASSUME NEW i \in Occupied, Pool!PromptSuffix(slots[i], Prompt(i), Chunk) PROVE Pool!Next
  <2>1. slots[i] \in Id /\ Prompt(i) \in {r.prompt : r \in Requests}
    BY <1>0, Member DEF Prompt
  <2> QED BY <1>4, <2>1 DEF Pool!Next
<1>5. CASE UNCHANGED vars
  BY <1>5 DEF vars
<1>6. CASE \E r \in Requests : Add(r)
  <2>1. PICK r \in Requests : Add(r)
    BY <1>6
  <2>2. next \in Id
    BY <1>0, <2>1, GivenIds DEF Add, Id, PlacesOK
  <2> QED BY <1>1, <2>1, <2>2 DEF Add
<1>7. CASE \E s \in Id : Take(s)
  BY <1>2, <1>7 DEF Take, poolVars
<1>8. CASE Retire
  <2>1. CASE \E i \in Occupied : Pool!DropCache(slots[i])
    BY <1>0, <1>2, <2>1, Member
  <2> QED BY <1>8, <2>1 DEF Retire
<1>9. CASE Admit
  <2>1. CASE wait # <<>> /\ \E i \in Slot : Install(Head(wait), i)
    <3>1. Head(wait) \in Id
      BY <1>0, <2>1, HeadRising, GivenIds DEF PlacesOK
    <3> QED BY <1>1, <2>1, <3>1
  <2> QED BY <1>9, <2>1 DEF Admit
<1>10. CASE SerialCap \/ BatchCap \/ ForwardCap
  <2>1. PICK i, there : OnCap(i, there)
    BY <1>10 DEF SerialCap, BatchCap, ForwardCap
  <2>2. CASE PreemptFor(i)
    <3>1. PICK v \in Occupied : Pool!Preempt(slots[v])
      BY <2>2 DEF PreemptFor, IsVictim, Victims
    <3> QED BY <1>0, <1>2, <3>1, Member
  <2> QED BY <2>1, <2>2 DEF OnCap
<1>11. CASE \/ BeginStep \/ Collect \/ Replays \/ Retry \/ BatchPrepared \/ ForwardPrepared
            \/ SerialDone \/ BatchDone \/ ForwardDone \/ Sample
  BY <1>11 DEF BeginStep, Collect, Replays, Retry, BatchPrepared, ForwardPrepared,
       SerialDone, BatchDone, ForwardDone, Sample
<1>12. CASE Serial
  <2>1. CASE IsPrefill(k) /\ Pool!PromptSuffix(slots[k], Prompt(k), Chunk)
    BY <1>4, <2>1 DEF IsPrefill
  <2> QED BY <1>12, <2>1 DEF Serial
<1>13. CASE BatchSuffix
  <2>1. CASE IsPrefill(items[k]) /\ Pool!PromptSuffix(slots[items[k]], Prompt(items[k]), Chunk)
    BY <1>4, <2>1 DEF IsPrefill
  <2> QED BY <1>13, <2>1 DEF BatchSuffix
<1>14. CASE SerialPrefill
  <2>1. k \in Occupied /\ suffix[slots[k]] # <<>>
    BY <1>0, <1>14 DEF CtlOK, SerialPrefill
  <2>2. slots[k] \in live /\ slots[k] \in Id
    BY <1>0, <2>1, Member
  <2>3. suffix[slots[k]] \in Seq(Token) /\ suffix[slots[k]] \in Pool!Groups(slots[k])
    BY <2>1, <2>2, PoolTypes DEF Known, Pool!Groups
  <2>4. PICK js : js = <<[seq |-> slots[k], toks |-> suffix[slots[k]]]>>
    OBVIOUS
  <2>5. 1 \in 1 .. MaxSlots
    BY EngineAssumption
  <2>6. /\ js \in [1 .. 1 -> [seq : live, toks : Seq(Token)]]
        /\ \A j \in 1 .. 1 : js[j].toks \in Pool!Groups(js[j].seq)
        /\ \A i, j \in 1 .. 1 : js[i].seq = js[j].seq => i = j
    BY <2>2, <2>3, <2>4
  <2>7. Pool!Start("prefill", js)
    BY <1>14, <2>4 DEF SerialPrefill
  <2> QED BY <2>5, <2>6, <2>7, LegalBatch
<1>15. CASE BatchPrepare
  <2>1. /\ k \in DOMAIN items /\ Serves(items[k])
        /\ IsPrefill(items[k]) => suffix[slots[items[k]]] # <<>>
    <3>1. k \in DOMAIN items /\ Ready(k) /\ \A j \in DOMAIN items : Serves(items[j])
      BY <1>0, <1>15 DEF CtlOK, BatchPrepare
    <3>2. k <= k
      BY <1>0 DEF CtlOK
    <3> QED BY <3>1, <3>2 DEF Ready
  <2>2. items[k] \in Occupied /\ Len(Part(items[k])) \in 1 .. MaxSeq
    BY <2>1, PartGroup
  <2>3. slots[items[k]] \in Id
    BY <1>0, <2>2, Member
  <2> QED BY <1>3, <1>15, <2>2, <2>3 DEF BatchPrepare
<1>16. CASE ForwardPrepare
  <2>1. k \in DOMAIN items
    BY <1>0, <1>16, LenProperties DEF ForwardPrepare, CtlOK, Listed
  <2>2. SlotBatchable(items[k])
    BY <1>0, <1>16, <2>1 DEF ForwardPrepare, CtlOK
  <2>3. slots[items[k]] \in Id /\ 1 \in 1 .. MaxSeq
    BY <1>0, <2>2, Member, EngineAssumption DEF SlotBatchable, IsDecode
  <2> QED BY <1>3, <1>16, <2>3 DEF ForwardPrepare
<1>17. CASE BatchStart
  <2>1. items # <<>> /\ (\A j \in DOMAIN items : Serves(items[j])) /\ Ready(k - 1)
    BY <1>0, <1>17 DEF CtlOK, BatchStart
  <2>2. \A j \in DOMAIN items : IsPrefill(items[j]) => suffix[slots[items[j]]] # <<>>
    <3>1. items \in Seq(Slot) /\ k \in Nat \ {0} /\ k > Len(items)
      BY <1>0, <1>17 DEF CtlOK, Listed, BatchStart
    <3>2. \A j \in DOMAIN items : j <= k - 1
      BY <3>1, LenProperties
    <3> QED BY <2>1, <3>2 DEF Ready
  <2>3. \A j \in DOMAIN items :
          /\ items[j] \in Occupied /\ Part(items[j]) \in Seq(Token)
          /\ Part(items[j]) \in Pool!Groups(slots[items[j]])
    BY <2>1, <2>2, PartGroup
  <2>4. PICK js : js = [j \in DOMAIN items |-> Group(j)]
    OBVIOUS
  <2>5. Pool!Start("prefill", js) /\ js = [j \in DOMAIN items |-> js[j]]
    BY <1>17, <2>4 DEF BatchStart
  <2>6. \A j \in DOMAIN items : js[j] = [seq |-> slots[items[j]], toks |-> Part(items[j])]
    BY <2>4 DEF Group
  <2> QED BY <2>1, <2>3, <2>5, <2>6, LegalItems
<1>18. CASE ForwardStart
  <2>1. items # <<>> /\ (\A j \in DOMAIN items : SlotBatchable(items[j]))
    BY <1>0, <1>18 DEF CtlOK, ForwardStart
  <2>2. \A j \in DOMAIN items :
          /\ items[j] \in Occupied /\ <<Unforwarded(items[j])>> \in Seq(Token)
          /\ <<Unforwarded(items[j])>> \in Pool!Groups(slots[items[j]])
    BY <2>1, ReplayGroup
  <2>3. PICK js : js = [j \in DOMAIN items |->
                    [seq |-> slots[items[j]], toks |-> <<Unforwarded(items[j])>>]]
    OBVIOUS
  <2>4. Pool!Start("prefill", js) /\ js = [j \in DOMAIN items |-> js[j]]
    BY <1>18, <2>3 DEF ForwardStart
  <2>5. \A j \in DOMAIN items : js[j] = [seq |-> slots[items[j]], toks |-> <<Unforwarded(items[j])>>]
    BY <2>3
  <2> QED BY <2>1, <2>2, <2>4, <2>5, LegalItems
<1>19. CASE PoolStep
  BY <1>19 DEF PoolStep, Pool!Next
<1> QED BY <1>5, <1>6, <1>7, <1>8, <1>9, <1>10, <1>11, <1>12, <1>13, <1>14, <1>15, <1>16,
           <1>17, <1>18, <1>19 DEF Next, StepOnce

(* The batch that lists a set of slots. *)
LEMMA OrderedBatch ==
  ASSUME NEW S \in SUBSET Slot, NEW js \in InOrder(S)
  PROVE  /\ js \in Seq(Slot) /\ Len(js) \in Nat /\ Len(js) <= MaxSlots /\ Len(js) = Cardinality(S)
         /\ DOMAIN js = 1 .. Len(js) /\ \A m \in DOMAIN js : js[m] \in S
         /\ \A m, n \in DOMAIN js : m < n => js[m] < js[n]
<1>1. MaxSlots \in Nat
  BY EngineAssumption
<1>2. IsFiniteSet(Slot) /\ Cardinality(Slot) = MaxSlots
  BY <1>1, FS_Interval DEF Slot
<1>3. IsFiniteSet(S) /\ Cardinality(S) <= MaxSlots
  BY <1>2, FS_Subset
<1>4. PICK c \in Nat : c = Cardinality(S)
  BY <1>3, FS_CardinalityType
<1>5. js \in [1 .. c -> S] /\ \A m, n \in DOMAIN js : m < n => js[m] < js[n]
  BY <1>4 DEF InOrder
<1>6. js \in Seq(Slot) /\ Len(js) = c
  BY <1>5
<1> QED BY <1>3, <1>4, <1>5, <1>6

(* A call in progress touches no text but where it commits a job. *)
LEMMA CallIds ==
  ASSUME P!KvInv, Pool!CallStep
  PROVE  /\ phase # "idle" /\ UNCHANGED live /\ (phase' # "idle" => UNCHANGED jobs)
         /\ phase = "reserve" /\ op = "prepare" =>
              phase' = "idle" \/ (phase' = "reserve" /\ op' = "prepare")
         /\ \/ UNCHANGED <<ids, suffix>> /\ phase # "commit"
            \/ /\ phase = "commit"
               /\ ids' = [ids EXCEPT ![jobs[at].seq] = ids[jobs[at].seq] \o jobs[at].toks]
               /\ suffix' = [suffix EXCEPT ![jobs[at].seq] = <<>>]
               /\ phase' = "idle" \/ (phase' = "commit" /\ at' = at + 1)
<1>1. CASE Pool!FullError
  BY <1>1 DEF Pool!FullError, Pool!Finish, Pool!cacheVars
<1>2. CASE Pool!Fault
  BY <1>2 DEF Pool!Fault, Pool!callVars
<1>3. CASE Pool!Cow
  BY <1>3 DEF Pool!Cow, Pool!callVars
<1>4. CASE Pool!CapError
  BY <1>4 DEF Pool!CapError, Pool!Finish, Pool!cacheVars
<1>5. CASE Pool!Reserved
  BY <1>5 DEF Pool!Reserved, Pool!cacheVars
<1>6. CASE Pool!NextJob
  BY <1>6 DEF Pool!NextJob, Pool!Finish
<1>7. CASE Pool!Transformer
  BY <1>7 DEF Pool!Transformer, Pool!cacheVars
<1>8. CASE Pool!TransformerError
  BY <1>8 DEF Pool!TransformerError
<1>9. CASE Pool!Commit
  BY <1>9 DEF Pool!Commit, Pool!Finish, Pool!Cur
<1> QED BY <1>1, <1>2, <1>3, <1>4, <1>5, <1>6, <1>7, <1>8, <1>9 DEF Pool!CallStep

LEMMA CallJobs ==
  ASSUME P!KvInv, phase # "idle"
  PROVE  /\ at \in Nat /\ at \in DOMAIN jobs /\ DOMAIN jobs \subseteq Nat
         /\ \A m \in DOMAIN jobs : /\ jobs[m].seq \in Id /\ jobs[m].toks \in Seq(Token)
                                   /\ Len(jobs[m].toks) \in Nat
         /\ \A m, n \in DOMAIN jobs : jobs[m].seq = jobs[n].seq => m = n
<1>1. P!TypeOK /\ P!CallShape
  BY DEF P!KvInv, P!IInv, P!Counted
<1>2. PICK J : J = [seq : Id, toks : Seq(Token)] /\ jobs \in Seq(J) /\ at \in Nat
  BY <1>1 DEF P!TypeOK, P!Job
<1>3. \A m \in DOMAIN jobs : jobs[m] \in [seq : Id, toks : Seq(Token)] /\ m \in Nat
  <2>1. DOMAIN jobs = 1 .. Len(jobs) /\ Len(jobs) \in Nat
    BY <1>2, LenProperties
  <2>2. \A m \in 1 .. Len(jobs) : jobs[m] \in J
    BY <1>2, ElementOfSeq
  <2> QED BY <1>2, <2>1, <2>2
<1>4. \A m \in DOMAIN jobs : jobs[m].seq \in Id /\ jobs[m].toks \in Seq(Token)
  BY <1>3
<1> QED BY <1>1, <1>2, <1>3, <1>4, LenProperties DEF P!CallShape

(* Suffixes that are kept are kept with the text before them. *)
LEMMA SuffixStep ==
  ASSUME SuffixOK,
         \A s \in Id : suffix'[s] # <<>> => /\ suffix'[s] = suffix[s] /\ ids'[s] = ids[s]
                                            /\ s \in live => s \in live' /\ req'[s] = req[s]
  PROVE  SuffixOK'
BY DEF SuffixOK

LEMMA PoolStepCalls ==
  ASSUME Known, PoolStep
  PROVE  Calls'
<1>0. Placed /\ P!KvInv /\ CtlOK /\ PassOK /\ SuffixOK /\ TextOK /\ Pool!CallStep
  BY DEF Known, Calls, PoolStep
<1>1. /\ phase # "idle" /\ UNCHANGED live /\ (phase' # "idle" => UNCHANGED jobs)
      /\ phase = "reserve" /\ op = "prepare" =>
           phase' = "idle" \/ (phase' = "reserve" /\ op' = "prepare")
      /\ \/ UNCHANGED <<ids, suffix>> /\ phase # "commit"
         \/ /\ phase = "commit"
            /\ ids' = [ids EXCEPT ![jobs[at].seq] = ids[jobs[at].seq] \o jobs[at].toks]
            /\ suffix' = [suffix EXCEPT ![jobs[at].seq] = <<>>]
            /\ phase' = "idle" \/ (phase' = "commit" /\ at' = at + 1)
  BY <1>0, CallIds
<1>2. /\ UNCHANGED <<next, req, slots, wait, finished, taken, generated, last, replay, done>>
      /\ UNCHANGED <<pc, mode, items, k, moved>>
  BY DEF PoolStep, seqVars, genVars, ctlVars
<1>3. /\ at \in Nat /\ at \in DOMAIN jobs /\ DOMAIN jobs \subseteq Nat
      /\ \A m \in DOMAIN jobs : /\ jobs[m].seq \in Id /\ jobs[m].toks \in Seq(Token)
                                /\ Len(jobs[m].toks) \in Nat
      /\ \A m, n \in DOMAIN jobs : jobs[m].seq = jobs[n].seq => m = n
  BY <1>0, <1>1, CallJobs
<1>4. /\ ids \in [Id -> Seq(Token)] /\ suffix \in [Id -> Seq(Token)]
      /\ \A s \in Id : Len(ids[s]) \in Nat
  BY <1>0, PoolTypes
<1>5. TextOK'
  BY <1>0, <1>2 DEF TextOK, Given
<1>6. SuffixOK'
  <2>1. \A s \in Id : suffix'[s] # <<>> => suffix'[s] = suffix[s] /\ ids'[s] = ids[s]
    BY <1>1, <1>3, <1>4
  <2> QED BY <1>0, <1>1, <1>2, <2>1, SuffixStep
<1>7. CtlOK'
  <2>1. pc \in CallPcs
    BY <1>0, <1>1 DEF CtlOK
  <2>2. pc \in {"batchPrepare", "forwardPrepare"} => UNCHANGED <<ids, suffix>>
    BY <1>0, <1>1 DEF CtlOK
  <2>3. pc \in {"batchPrepare", "forwardPrepare"} =>
          \A i : /\ IsPrefill(i)' <=> IsPrefill(i)
                 /\ SlotBatchable(i)' <=> SlotBatchable(i)
                 /\ Serves(i)' <=> Serves(i)
    BY <1>2, <2>2 DEF IsPrefill, SlotBatchable, Serves, IsDecode, Replaying, Occupied, Past, Prompt
  <2>4. pc = "batchPrepare" => (Ready(k) <=> Ready(k)')
    BY <1>2, <2>2, <2>3 DEF Ready
  <2>5. Listed'
    BY <1>0, <1>2 DEF CtlOK, Listed
  <2> QED BY <1>0, <1>1, <1>2, <2>1, <2>3, <2>4, <2>5 DEF CtlOK, CallPcs
<1>8. PassOK'
  <2>1. \A i : Replaying(i)' <=> Replaying(i)
    BY <1>2 DEF Replaying
  <2>2. Occupied' = Occupied /\ \A i : Prompt(i)' = Prompt(i)
    BY <1>2 DEF Occupied, Prompt
  <2>3. CASE UNCHANGED <<ids, suffix>> /\ phase # "commit"
    <3>1. phase' # "idle" => Remaining' \subseteq Remaining
      BY <1>1, <2>3 DEF Remaining
    <3>2. \A i : Past(i)' = Past(i)
      BY <1>2, <2>3 DEF Past
    <3> QED BY <1>0, <1>1, <1>2, <2>1, <2>2, <3>1, <3>2 DEF PassOK
  <2>4. CASE /\ phase = "commit"
             /\ ids' = [ids EXCEPT ![jobs[at].seq] = ids[jobs[at].seq] \o jobs[at].toks]
             /\ phase' = "idle" \/ (phase' = "commit" /\ at' = at + 1)
    <3>0. PICK c : c = at
      OBVIOUS
    <3>1. at \in Remaining
      BY <1>3, <2>4 DEF Remaining
    <3>2. phase' # "idle" => Remaining' \subseteq Remaining \ {at}
      BY <1>1, <1>3, <2>4 DEF Remaining
    <3>3. ASSUME pc \in {"batchCall", "forwardCall"}, NEW m \in DOMAIN items, m # at
          PROVE  Past(items[m])' = Past(items[m])
      <4>1. slots[items[m]] \in Id /\ slots[items[m]] # jobs[at].seq
        BY <1>0, <1>1, <1>3, <3>3, Member DEF PassOK
      <4> QED BY <1>2, <1>4, <2>4, <4>1 DEF Past
    <3>4. ASSUME pc = "batchCall"
          PROVE  Past(items[c])' = Past(items[c]) + Len(jobs[c].toks)
      <4>1. slots[items[at]] = jobs[at].seq /\ jobs[at].seq \in Id
        BY <1>0, <1>1, <1>3, <3>4 DEF PassOK
      <4>2. Len(ids[jobs[at].seq] \o jobs[at].toks) = Len(ids[jobs[at].seq]) + Len(jobs[at].toks)
        BY <1>3, <1>4, ConcatProperties
      <4>3. PICK v : v = ids[jobs[at].seq] \o jobs[at].toks
        OBVIOUS
      <4>4. ids'[slots[items[at]]] = v
        BY <1>4, <2>4, <4>1, <4>3
      <4> QED BY <1>2, <3>0, <4>1, <4>2, <4>3, <4>4 DEF Past
    <3>5. ASSUME pc = "batchCall", NEW m \in DOMAIN items
          PROVE  Replaying(items[m]) \/ Past(items[m])' <= Len(Prompt(items[m]))
      <4>1. CASE m = at
        <5>1. Replaying(items[c]) \/ Past(items[c]) + Len(jobs[c].toks) <= Len(Prompt(items[c]))
          BY <1>0, <1>1, <3>0, <3>1, <3>5 DEF PassOK
        <5>2. Past(items[c])' = Past(items[c]) + Len(jobs[c].toks) /\ m = c
          BY <3>0, <3>4, <3>5, <4>1
        <5> QED BY <5>1, <5>2
      <4>2. CASE m # at
        BY <1>0, <3>3, <3>5, <4>2 DEF PassOK
      <4> QED BY <4>1, <4>2
    <3>6. ASSUME pc = "batchCall", phase' # "idle", NEW m \in Remaining'
          PROVE  Replaying(items[m]) \/ Past(items[m])' + Len(jobs'[m].toks) <= Len(Prompt(items[m]))
      <4>1. m \in Remaining /\ m # at /\ m \in DOMAIN items /\ jobs' = jobs
        BY <1>0, <1>1, <3>2, <3>6 DEF PassOK, Remaining
      <4> QED BY <1>0, <1>1, <3>3, <3>6, <4>1 DEF PassOK
    <3> QED BY <1>0, <1>1, <1>2, <2>1, <2>2, <3>5, <3>6 DEF PassOK
  <2> QED BY <1>1, <2>3, <2>4
<1> QED BY <1>5, <1>6, <1>7, <1>8 DEF Calls

-----------------------------------------------------------------------------
(* The engine stays ready for its next call. *)

(* Between the calls nothing is asked of the batch. *)
LEMMA Between ==
  ASSUME Listed', k' \in Nat \ {0}, phase' = "idle",
         pc' \notin {"serialSuffix", "batch", "batchSuffix", "batchPrepare", "batchCall",
                     "forward", "forwardPrepare", "forwardCall"}
  PROVE  CtlOK' /\ PassOK'
BY DEF CtlOK, PassOK

LEMMA IdleCalls ==
  ASSUME Known, UNCHANGED <<poolVars, seqVars>>, phase = "idle", Listed', k' \in Nat \ {0},
         generated' \in [Id -> Seq(Token)], replay' \in [Id -> Nat],
         \A s \in Id : replay'[s] <= Len(generated'[s]),
         pc' \notin {"serialSuffix", "batch", "batchSuffix", "batchPrepare", "batchCall",
                     "forward", "forwardPrepare", "forwardCall"}
  PROVE  Calls'
<1>1. /\ UNCHANGED <<live, ids, suffix, phase, req, next>> /\ SuffixOK /\ TextOK
  BY DEF poolVars, seqVars, Known, Calls
<1>2. CtlOK' /\ PassOK'
  BY <1>1, Between
<1>3. SuffixOK'
  BY <1>1, SuffixStep
<1>4. TextOK'
  BY <1>1 DEF TextOK, Given
<1> QED BY <1>2, <1>3, <1>4 DEF Calls

LEMMA QuietPhase ==
  ASSUME Known, pc \notin CallPcs
  PROVE  phase = "idle"
BY DEF Known, Calls, CtlOK

(* A cache is emptied. *)
LEMMA ClearCalls ==
  ASSUME Known, NEW s \in Id, Pool!Clear(s), live' = live \/ live' = live \ {s}, UNCHANGED req
  PROVE  SuffixOK' /\ phase' = "idle"
<1>1. suffix \in [Id -> Seq(Token)] /\ ids \in [Id -> Seq(Token)] /\ SuffixOK
  BY PoolTypes DEF Known, Calls
<1>2. /\ suffix' = [suffix EXCEPT ![s] = <<>>] /\ ids' = [ids EXCEPT ![s] = <<>>]
      /\ phase' = "idle"
  BY DEF Pool!Clear, Pool!callVars
<1> QED BY <1>1, <1>2, SuffixStep

LEMMA AddCalls == ASSUME Known, NEW r \in Requests, Add(r) PROVE Calls'
<1>1. pc = "idle" /\ UNCHANGED <<ctlVars, genVars>>
  BY DEF Add
<1>2. /\ phase = "idle" /\ Placed /\ PlacesOK /\ CtlOK /\ SuffixOK /\ TextOK
  BY <1>1, QuietPhase DEF Known, Placed, Calls, CallPcs
<1>3. UNCHANGED <<ids, suffix, phase>> /\ live \subseteq live'
  <2>1. CASE \E i \in Slot : Install(next, i)
    BY <2>1 DEF Install, Pool!NewCache, Pool!callVars
  <2>2. CASE UNCHANGED poolVars
    BY <2>2 DEF poolVars
  <2> QED BY <2>1, <2>2 DEF Add
<1>4. next \in Nat \ {0} /\ next' = next + 1 /\ Given' = Given \cup {next} /\ live \subseteq Given
  BY <1>2 DEF Add, PlacesOK, Given, Apart, Placed, Running, Occupied
<1>5. req' = Append(req, r) /\ req'[next] = r /\ \A s \in Given : req'[s] = req[s]
  <2>1. req \in Seq(Requests) /\ Len(req) = next - 1 /\ req' = Append(req, r)
    BY <1>2 DEF Add, PlacesOK
  <2> QED BY <1>4, <2>1, AppendProperties DEF Given
<1>6. CtlOK' /\ PassOK'
  <2>1. Listed'
    BY <1>1, <1>2 DEF CtlOK, Listed, ctlVars
  <2> QED BY <1>1, <1>2, <1>3, <2>1, Between DEF ctlVars, CtlOK
<1>7. SuffixOK'
  BY <1>2, <1>3, <1>4, <1>5, SuffixStep
<1>8. TextOK'
  <2>1. Len(r.prompt) + r.predict <= MaxSeq
    BY DEF Add
  <2> QED BY <1>1, <1>2, <1>4, <1>5, <2>1 DEF TextOK, genVars
<1> QED BY <1>6, <1>7, <1>8 DEF Calls

LEMMA TakeCalls == ASSUME Known, NEW s \in Id, Take(s) PROVE Calls'
<1>1. pc = "idle" /\ UNCHANGED <<next, req, ctlVars, genVars>>
  BY DEF Take
<1>2. /\ phase = "idle" /\ CtlOK /\ SuffixOK /\ TextOK
  BY <1>1, QuietPhase DEF Known, Calls, CallPcs
<1>3. SuffixOK' /\ phase' = "idle"
  <2>1. CASE Pool!DropCache(s)
    BY <1>1, <2>1, ClearCalls DEF Pool!DropCache
  <2>2. CASE UNCHANGED poolVars
    BY <1>1, <1>2, <2>2, SuffixStep DEF poolVars
  <2> QED BY <2>1, <2>2 DEF Take
<1>4. CtlOK' /\ PassOK'
  <2>1. Listed'
    BY <1>1, <1>2 DEF CtlOK, Listed, ctlVars
  <2> QED BY <1>1, <1>2, <1>3, <2>1, Between DEF ctlVars, CtlOK
<1>5. TextOK'
  BY <1>1, <1>2 DEF TextOK, genVars, Given
<1> QED BY <1>3, <1>4, <1>5 DEF Calls

LEMMA RetireCalls == ASSUME Known, Retire PROVE Calls'
<1>1. /\ pc = "retire" /\ UNCHANGED <<next, req, genVars>>
      /\ pc' \in {"retire", "admit"} /\ UNCHANGED <<items, k>>
  BY DEF Retire, Goto
<1>2. /\ phase = "idle" /\ Placed /\ CtlOK /\ SuffixOK /\ TextOK
  BY <1>1, QuietPhase DEF Known, Calls, CallPcs
<1>3. SuffixOK' /\ phase' = "idle"
  <2>1. CASE \E i \in Occupied : Pool!DropCache(slots[i])
    <3>1. PICK i \in Occupied : Pool!DropCache(slots[i])
      BY <2>1
    <3>2. slots[i] \in Id
      BY <1>2, Member
    <3> QED BY <1>1, <3>1, <3>2, ClearCalls DEF Pool!DropCache
  <2>2. CASE UNCHANGED poolVars
    BY <1>1, <1>2, <2>2, SuffixStep DEF poolVars
  <2> QED BY <2>1, <2>2 DEF Retire
<1>4. CtlOK' /\ PassOK'
  <2>1. Listed'
    BY <1>1, <1>2 DEF CtlOK, Listed
  <2> QED BY <1>1, <1>2, <1>3, <2>1, Between DEF CtlOK
<1>5. TextOK'
  BY <1>1, <1>2 DEF TextOK, genVars, Given
<1> QED BY <1>3, <1>4, <1>5 DEF Calls

LEMMA AdmitCalls == ASSUME Known, Admit PROVE Calls'
<1>1. /\ pc = "admit" /\ UNCHANGED <<next, req, genVars>>
      /\ pc' \in {"admit", "collect"} /\ UNCHANGED <<items, k>>
  BY DEF Admit, Goto
<1>2. /\ phase = "idle" /\ CtlOK /\ SuffixOK /\ TextOK
  BY <1>1, QuietPhase DEF Known, Calls, CallPcs
<1>3. UNCHANGED <<ids, suffix, phase>> /\ live \subseteq live'
  <2>1. CASE \E i \in Slot : Install(Head(wait), i)
    BY <2>1 DEF Install, Pool!NewCache, Pool!callVars
  <2>2. CASE UNCHANGED poolVars
    BY <2>2 DEF poolVars
  <2> QED BY <2>1, <2>2 DEF Admit
<1>4. CtlOK' /\ PassOK'
  <2>1. Listed'
    BY <1>1, <1>2 DEF CtlOK, Listed
  <2> QED BY <1>1, <1>2, <1>3, <2>1, Between DEF CtlOK
<1>5. TextOK' /\ SuffixOK'
  BY <1>1, <1>2, <1>3, SuffixStep DEF TextOK, genVars, Given
<1> QED BY <1>4, <1>5 DEF Calls

(* preempt_except or the error: the batch shrinks, the victim starts over. *)
LEMMA CapCalls ==
  ASSUME Known, NEW i, NEW there \in {"serial", "retry"}, OnCap(i, there)
  PROVE  Calls'
<1>1. /\ phase = "idle" /\ UNCHANGED <<next, req>> /\ pc' \in {there, "error"} /\ UNCHANGED k
  BY DEF OnCap, Ended, seqVars
<1>2. Placed /\ CtlOK /\ SuffixOK /\ TextOK /\ Listed
  BY DEF Known, Calls, CtlOK
<1>3. SuffixOK' /\ phase' = "idle" /\ Listed' /\ TextOK'
  <2>1. CASE PreemptFor(i)
    <3>1. PICK v \in Slot : /\ v \in Occupied /\ Pool!Preempt(slots[v])
                            /\ replay' = [replay EXCEPT ![slots[v]] = 0]
                            /\ items' \in InOrder(ToSet(items) \ {v}) /\ UNCHANGED generated
      BY <2>1 DEF PreemptFor, IsVictim, Victims
    <3>2. slots[v] \in Id
      BY <1>2, <3>1, Member
    <3>3. SuffixOK' /\ phase' = "idle"
      BY <1>1, <3>1, <3>2, ClearCalls DEF Pool!Preempt
    <3>4. ToSet(items) \ {v} \subseteq Slot
      <4>1. \A j \in DOMAIN items : items[j] \in Slot
        BY <1>2, LenProperties, ElementOfSeq DEF Listed
      <4> QED BY <4>1 DEF ToSet
    <3>5. Listed'
      BY <3>1, <3>4, OrderedBatch DEF Listed
    <3>6. TextOK'
      <4>1. \A s \in Id : Len(generated[s]) \in Nat
        BY <1>2, LenProperties DEF TextOK
      <4> QED BY <1>1, <1>2, <3>1, <3>2, <4>1 DEF TextOK, Given
    <3> QED BY <3>3, <3>5, <3>6
  <2>2. CASE UNCHANGED <<poolVars, genVars, mode, items, k, moved>>
    BY <1>1, <1>2, <2>2, SuffixStep DEF poolVars, genVars, Listed, TextOK, Given
  <2> QED BY <2>1, <2>2 DEF OnCap
<1>4. CtlOK' /\ PassOK'
  BY <1>1, <1>2, <1>3, Between DEF CtlOK
<1> QED BY <1>3, <1>4 DEF Calls

(* prompt_suffix leaves the other caches alone and part of this prompt to compute. *)
LEMMA SuffixCalls ==
  ASSUME Known, NEW i, IsPrefill(i), Pool!PromptSuffix(slots[i], Prompt(i), Chunk),
         UNCHANGED <<seqVars, done>>
  PROVE  /\ SuffixOK' /\ phase' = "idle" /\ i \in Occupied
         /\ suffix'[slots[i]] # <<>> /\ IsPrefill(i)'
         /\ \A j \in Occupied : slots[j] # slots[i] => /\ suffix'[slots[j]] = suffix[slots[j]]
                                                       /\ ids'[slots[j]] = ids[slots[j]]
<1>1. PICK s, r : s = slots[i] /\ r = req[s]
  OBVIOUS
<1>2. i \in Occupied /\ s \in Id /\ s \in live /\ s \in Given /\ r \in Requests /\ s \notin done
  BY <1>1, Member DEF Known, IsPrefill
<1>3. P!KvInv /\ Pool!PromptSuffix(s, r.prompt, Chunk) /\ SuffixOK /\ TextOK /\ Placed
  BY <1>1 DEF Known, Calls, Prompt
<1>4. PICK h \in 0 .. Len(r.prompt) - 1, u \in Seq(Token) :
        /\ ids' = [ids EXCEPT ![s] = SubSeq(r.prompt, 1, h)]
        /\ Len(SubSeq(r.prompt, 1, h)) = h
        /\ suffix' = [suffix EXCEPT ![s] = u]
        /\ Len(u) \in 1 .. Len(r.prompt) - h
        /\ phase' = "idle" /\ UNCHANGED live
  <2>1. \E h \in 0 .. Len(r.prompt) - 1, u \in Seq(Token) :
           /\ ids' = [ids EXCEPT ![s] = SubSeq(r.prompt, 1, h)]
           /\ Len(SubSeq(r.prompt, 1, h)) = h
           /\ suffix' = [suffix EXCEPT ![s] = u]
           /\ Len(u) \in 1 .. Len(r.prompt) - h
           /\ \A m \in 1 .. Len(u) : u[m] = r.prompt[h + m]
           /\ phase' = "idle" /\ UNCHANGED live
    BY <1>2, <1>3, Positioned, Zenon
  <2> QED BY <2>1, Zenon
<1>5. ids \in [Id -> Seq(Token)] /\ suffix \in [Id -> Seq(Token)]
  BY <1>3, PoolTypes
<1>6. UNCHANGED <<req, slots, done>>
  BY DEF seqVars
<1>7. /\ h \in Nat /\ Len(r.prompt) \in Nat /\ r.predict \in Nat /\ MaxSeq \in Nat
      /\ Len(u) \in Nat /\ Len(u) >= 1 /\ h + Len(u) <= Len(r.prompt) /\ h < Len(r.prompt)
      /\ Len(r.prompt) + r.predict <= MaxSeq
  <2>1. r.prompt \in Seq(Token) /\ r.predict \in Nat /\ MaxSeq \in Nat
    BY <1>2, EngineAssumption
  <2>2. Len(r.prompt) \in Nat
    BY <2>1, LenProperties
  <2>3. Len(r.prompt) + r.predict <= MaxSeq
    BY <1>1, <1>2, <1>3 DEF TextOK
  <2> QED BY <1>4, <2>1, <2>2, <2>3
<1>8. /\ ids'[s] = SubSeq(r.prompt, 1, h) /\ suffix'[s] = u /\ Len(ids'[s]) = h
      /\ \A x \in Id : x # s => ids'[x] = ids[x] /\ suffix'[x] = suffix[x]
  BY <1>2, <1>4, <1>5
<1>9. u # <<>>
  BY <1>7, EmptySeq
<1>10. IsPrefill(i)'
  <2>1. Occupied' = Occupied /\ slots'[i] = s /\ req'[s] = r /\ s \notin done'
    BY <1>1, <1>2, <1>6 DEF Occupied
  <2>2. Past(i)' = h /\ Prompt(i)' = r.prompt
    BY <1>8, <2>1 DEF Past, Prompt
  <2> QED BY <1>2, <1>7, <2>1, <2>2 DEF IsPrefill
<1>11. SuffixOK'
  <2> SUFFICES ASSUME NEW x \in Id, suffix'[x] # <<>>
               PROVE  /\ x \in live' /\ Len(ids'[x]) + Len(suffix'[x]) <= Len(req'[x].prompt)
                      /\ Len(suffix'[x]) \in 1 .. MaxSeq
    BY DEF SuffixOK
  <2>1. CASE x = s
    <3>1. Len(u) \in 1 .. MaxSeq
      BY <1>7
    <3> QED BY <1>1, <1>2, <1>4, <1>6, <1>7, <1>8, <2>1, <3>1
  <2>2. CASE x # s
    BY <1>3, <1>4, <1>6, <1>8, <2>2 DEF SuffixOK
  <2> QED BY <2>1, <2>2
<1>12. \A j \in Occupied : slots[j] \in Id
  BY <1>3, Member
<1> QED BY <1>1, <1>2, <1>4, <1>8, <1>9, <1>10, <1>11, <1>12

LEMMA SerialCalls == ASSUME Known, Serial PROVE Calls'
<1>1. /\ pc = "serial" /\ UNCHANGED <<seqVars, genVars, moved>> /\ UNCHANGED items
  BY DEF Serial, Goto
<1>2. /\ phase = "idle" /\ Placed /\ CtlOK /\ Listed /\ TextOK /\ k \in Nat \ {0}
  BY <1>1, QuietPhase DEF Known, Calls, CallPcs, CtlOK
<1>3. CASE UNCHANGED poolVars /\ pc' \in {"serial", "replays"} /\ k' \in {k, k + 1}
  <2>1. k' \in Nat \ {0} /\ Listed'
    BY <1>1, <1>2, <1>3 DEF Listed
  <2> QED BY <1>1, <1>2, <1>3, <2>1, IdleCalls DEF genVars, TextOK
<1>4. CASE /\ IsPrefill(k) /\ Pool!PromptSuffix(slots[k], Prompt(k), Chunk)
           /\ pc' = "serialSuffix" /\ UNCHANGED <<mode, items, k>>
  <2>1. SuffixOK' /\ phase' = "idle" /\ k \in Occupied /\ suffix'[slots[k]] # <<>>
    BY <1>1, <1>4, SuffixCalls DEF genVars
  <2>2. k' \in Occupied' /\ suffix'[slots'[k']] # <<>>
    BY <1>1, <1>4, <2>1 DEF seqVars, Occupied
  <2>3. CtlOK' /\ PassOK'
    BY <1>1, <1>2, <1>4, <2>1, <2>2 DEF CtlOK, PassOK, Listed
  <2>4. TextOK'
    BY <1>1, <1>2 DEF TextOK, genVars, seqVars, Given
  <2> QED BY <2>1, <2>3, <2>4 DEF Calls
<1> QED BY <1>3, <1>4 DEF Serial, Goto

(* Starting a call moves nothing but the call. *)
LEMMA StartCalls ==
  ASSUME Known, NEW what, NEW js, Pool!Start(what, js), UNCHANGED <<seqVars, genVars>>
  PROVE  /\ SuffixOK' /\ TextOK' /\ UNCHANGED <<ids, suffix, live>>
         /\ phase' = "reserve" /\ op' = what /\ jobs' = js
         /\ \A i : /\ IsPrefill(i)' <=> IsPrefill(i)
                   /\ SlotBatchable(i)' <=> SlotBatchable(i)
                   /\ Serves(i)' <=> Serves(i)
<1>1. /\ UNCHANGED <<ids, suffix, live>> /\ phase' = "reserve" /\ op' = what /\ jobs' = js
  BY DEF Pool!Start, Pool!cacheVars
<1>2. SuffixOK /\ TextOK
  BY DEF Known, Calls
<1>3. UNCHANGED <<next, req, slots, generated, last, replay, done>>
  BY DEF seqVars, genVars
<1>4. SuffixOK' /\ TextOK'
  BY <1>1, <1>2, <1>3, SuffixStep DEF TextOK, Given
<1>5. \A i : /\ IsPrefill(i)' <=> IsPrefill(i)
             /\ SlotBatchable(i)' <=> SlotBatchable(i)
             /\ Serves(i)' <=> Serves(i)
  BY <1>1, <1>3 DEF IsPrefill, SlotBatchable, Serves, IsDecode, Replaying, Occupied, Past, Prompt
<1> QED BY <1>1, <1>4, <1>5

LEMMA SerialPrefillCalls == ASSUME Known, SerialPrefill PROVE Calls'
<1>1. UNCHANGED <<seqVars, genVars>> /\ pc' = "serialCall" /\ UNCHANGED <<items, k>>
  BY DEF SerialPrefill, Goto
<1>2. SuffixOK' /\ TextOK'
  BY <1>1, StartCalls DEF SerialPrefill
<1>3. CtlOK' /\ PassOK'
  BY <1>1 DEF CtlOK, PassOK, Known, Calls, Listed, CallPcs
<1> QED BY <1>2, <1>3 DEF Calls

LEMMA PrepareCalls == ASSUME Known, BatchPrepare \/ ForwardPrepare PROVE Calls'
<1>1. /\ UNCHANGED <<seqVars, genVars>> /\ UNCHANGED <<items, k>>
      /\ BatchPrepare => pc = "batchSuffix" /\ pc' = "batchPrepare"
      /\ ForwardPrepare => pc = "forward" /\ pc' = "forwardPrepare" /\ k <= Len(items)
  BY DEF BatchPrepare, ForwardPrepare, Goto
<1>2. PICK js : Pool!Start("prepare", js)
  BY DEF BatchPrepare, ForwardPrepare, Pool!StartPrepare
<1>3. /\ SuffixOK' /\ TextOK' /\ UNCHANGED <<ids, suffix, live>>
      /\ phase' = "reserve" /\ op' = "prepare"
      /\ \A i : /\ IsPrefill(i)' <=> IsPrefill(i)
                /\ SlotBatchable(i)' <=> SlotBatchable(i)
                /\ Serves(i)' <=> Serves(i)
  BY <1>1, <1>2, StartCalls
<1>4. CtlOK /\ Listed /\ UNCHANGED slots
  BY <1>1 DEF Known, Calls, CtlOK, seqVars
<1>5. Ready(k) => Ready(k)'
  BY <1>1, <1>3, <1>4 DEF Ready
<1>6. Listed'
  BY <1>1, <1>4 DEF Listed
<1>7. PassOK' /\ CtlOK'
  BY <1>1, <1>3, <1>4, <1>5, <1>6 DEF CtlOK, CallPcs, PassOK
<1> QED BY <1>3, <1>7 DEF Calls

(* The batched pass computes what its members lack. *)
LEMMA BatchStartCalls == ASSUME Known, BatchStart PROVE Calls'
<1>1. /\ UNCHANGED <<seqVars, genVars>> /\ pc = "batch" /\ pc' = "batchCall"
      /\ UNCHANGED <<items, k>> /\ k > Len(items)
  BY DEF BatchStart, Goto
<1>2. PICK js : /\ js = [j \in DOMAIN items |-> Group(j)]
                /\ Pool!Start("prefill", js)
  BY DEF BatchStart
<1>3. /\ SuffixOK' /\ TextOK' /\ UNCHANGED <<ids, suffix, live>>
      /\ phase' = "reserve" /\ jobs' = js
  BY <1>1, <1>2, StartCalls
<1>4. /\ CtlOK /\ Listed /\ Placed /\ SuffixOK /\ P!KvInv
      /\ UNCHANGED <<slots, req, generated, replay>>
  BY <1>1 DEF Known, Calls, CtlOK, seqVars, genVars
<1>5. \A m \in DOMAIN items : Serves(items[m]) /\ items[m] \in Occupied
  BY <1>1, <1>4 DEF CtlOK, Serves, IsPrefill, SlotBatchable, IsDecode
<1>6. ASSUME NEW m \in DOMAIN items
      PROVE  \/ Replaying(items[m])
             \/ /\ Past(items[m]) <= Len(Prompt(items[m]))
                /\ Past(items[m]) + Len(Part(items[m])) <= Len(Prompt(items[m]))
  <2>1. CASE SlotBatchable(items[m])
    BY <2>1 DEF SlotBatchable
  <2>2. CASE IsPrefill(items[m])
    <3>1. m <= k - 1
      <4>1. DOMAIN items = 1 .. Len(items) /\ Len(items) \in Nat /\ k \in Nat
        BY <1>4, LenProperties DEF Listed, CtlOK
      <4> QED BY <1>1, <4>1
    <3>2. suffix[slots[items[m]]] # <<>>
      BY <1>1, <1>4, <2>2, <3>1 DEF CtlOK, Ready
    <3>3. slots[items[m]] \in Id /\ req[slots[items[m]]] \in Requests
      BY <1>4, <1>5, Member
    <3>4. /\ Past(items[m]) + Len(suffix[slots[items[m]]]) <= Len(Prompt(items[m]))
      BY <1>4, <3>2, <3>3 DEF SuffixOK, Past, Prompt
    <3>5. Part(items[m]) = suffix[slots[items[m]]]
      BY <2>2 DEF Part
    <3>6. Past(items[m]) \in Nat /\ Len(Prompt(items[m])) \in Nat
      <4>1. Prompt(items[m]) \in Seq(Token)
        BY <3>3, EngineAssumption DEF Prompt
      <4> QED BY <1>4, <3>3, <4>1, PoolTypes, LenProperties DEF Past
    <3> QED BY <2>2, <3>4, <3>5, <3>6 DEF IsPrefill
  <2> QED BY <1>5, <2>1, <2>2 DEF Serves
<1>7. /\ Occupied' = Occupied
      /\ \A i : /\ Replaying(i)' <=> Replaying(i)
                /\ Past(i)' = Past(i) /\ Prompt(i)' = Prompt(i)
  BY <1>3, <1>4 DEF Occupied, Replaying, Past, Prompt
<1>8. Remaining' = DOMAIN items
  BY <1>2, <1>3 DEF Remaining
<1>9. \A m \in DOMAIN items : js[m].seq = slots[items[m]] /\ js[m].toks = Part(items[m])
  BY <1>2 DEF Group
<1>10. DOMAIN js = DOMAIN items
  BY <1>2
<1>11. PassOK'
  BY <1>1, <1>3, <1>4, <1>5, <1>6, <1>7, <1>8, <1>9, <1>10 DEF PassOK
<1>12. CtlOK'
  BY <1>1, <1>3, <1>4 DEF CtlOK, Listed, CallPcs
<1> QED BY <1>3, <1>11, <1>12 DEF Calls

LEMMA ForwardStartCalls == ASSUME Known, ForwardStart PROVE Calls'
<1>1. /\ UNCHANGED <<seqVars, genVars>> /\ pc = "forward" /\ pc' = "forwardCall"
      /\ UNCHANGED <<items, k>>
  BY DEF ForwardStart, Goto
<1>2. PICK js : /\ js = [i \in DOMAIN items |->
                          [seq |-> slots[items[i]], toks |-> <<Unforwarded(items[i])>>]]
                /\ Pool!Start("prefill", js)
  BY DEF ForwardStart
<1>3. /\ SuffixOK' /\ TextOK' /\ phase' = "reserve" /\ jobs' = js
  BY <1>1, <1>2, StartCalls
<1>4. /\ CtlOK /\ Listed /\ UNCHANGED <<slots, generated, replay>>
  BY <1>1 DEF Known, Calls, CtlOK, seqVars, genVars
<1>5. \A m \in DOMAIN items : Replaying(items[m]) /\ items[m] \in Occupied
  BY <1>1, <1>4 DEF CtlOK, SlotBatchable, IsDecode
<1>6. Occupied' = Occupied /\ \A i : Replaying(i)' <=> Replaying(i)
  BY <1>4 DEF Occupied, Replaying
<1>7. DOMAIN js = DOMAIN items /\ \A m \in DOMAIN items : js[m].seq = slots[items[m]]
  BY <1>2
<1>8. PassOK'
  BY <1>1, <1>3, <1>4, <1>5, <1>6, <1>7 DEF PassOK
<1>9. CtlOK'
  BY <1>1, <1>3, <1>4 DEF CtlOK, Listed, CallPcs
<1> QED BY <1>3, <1>8, <1>9 DEF Calls

LEMMA BatchSuffixCalls == ASSUME Known, BatchSuffix PROVE Calls'
<1>1. /\ UNCHANGED <<seqVars, genVars>> /\ pc = "batch" /\ pc' = "batchSuffix"
      /\ UNCHANGED <<items, k>> /\ k <= Len(items)
  BY DEF BatchSuffix, Goto
<1>2. /\ phase = "idle" /\ CtlOK /\ Listed /\ Placed /\ SuffixOK /\ TextOK
      /\ UNCHANGED <<next, req, slots, generated, last, replay, done>>
  BY <1>1, QuietPhase DEF Known, Calls, CtlOK, CallPcs, seqVars, genVars
<1>3. k \in DOMAIN items /\ Ready(k - 1) /\ \A j \in DOMAIN items : Serves(items[j])
  BY <1>1, <1>2, LenProperties DEF CtlOK, Listed
<1>4. \A j \in DOMAIN items : items[j] \in Occupied
  BY <1>3 DEF Serves, IsPrefill, SlotBatchable, IsDecode
<1>5. \A j \in DOMAIN items : j \in Int /\ (j <= k => j <= k - 1 \/ j = k)
  BY <1>2, <1>3, LenProperties DEF Listed
<1>6. TextOK'
  BY <1>2 DEF TextOK, Given
<1>7. CASE ~IsPrefill(items[k]) /\ UNCHANGED poolVars
  <2>1. UNCHANGED <<ids, suffix, live, phase>>
    BY <1>7 DEF poolVars
  <2>2. \A i : /\ IsPrefill(i)' <=> IsPrefill(i)
               /\ Serves(i)' <=> Serves(i)
    BY <1>2, <2>1 DEF IsPrefill, SlotBatchable, Serves, IsDecode, Replaying, Occupied, Past, Prompt
  <2>3. Ready(k)
    BY <1>3, <1>5, <1>7 DEF Ready
  <2>4. Ready(k)'
    BY <1>1, <1>2, <2>1, <2>2, <2>3 DEF Ready
  <2>5. SuffixOK'
    BY <1>2, <2>1, SuffixStep
  <2>6. CtlOK' /\ PassOK'
    BY <1>1, <1>2, <1>3, <2>1, <2>2, <2>4 DEF CtlOK, PassOK, Listed
  <2> QED BY <1>6, <2>5, <2>6 DEF Calls
<1>8. CASE /\ IsPrefill(items[k])
           /\ Pool!PromptSuffix(slots[items[k]], Prompt(items[k]), Chunk)
  <2>1. PICK i : i = items[k]
    OBVIOUS
  <2>2. /\ SuffixOK' /\ phase' = "idle" /\ suffix'[slots[i]] # <<>> /\ IsPrefill(i)'
        /\ \A j \in Occupied : slots[j] # slots[i] => /\ suffix'[slots[j]] = suffix[slots[j]]
                                                      /\ ids'[slots[j]] = ids[slots[j]]
    BY <1>1, <1>2, <1>8, <2>1, SuffixCalls
  <2>3. ASSUME NEW j \in DOMAIN items, j # k
        PROVE  /\ suffix'[slots[items[j]]] = suffix[slots[items[j]]]
               /\ ids'[slots[items[j]]] = ids[slots[items[j]]]
    <3>1. slots[items[j]] # slots[items[k]]
      BY <1>3, <1>4, <2>3, DistinctItems
    <3> QED BY <1>4, <2>1, <2>2, <2>3, <3>1
  <2>4. ASSUME NEW j \in DOMAIN items, j # k
        PROVE  /\ IsPrefill(items[j])' <=> IsPrefill(items[j])
               /\ Serves(items[j])' <=> Serves(items[j])
    BY <1>1, <1>2, <2>3, <2>4
    DEF IsPrefill, SlotBatchable, Serves, IsDecode, Replaying, Occupied, Past, Prompt
  <2>5. \A j \in DOMAIN items : Serves(items[j])'
    <3> SUFFICES ASSUME NEW j \in DOMAIN items PROVE Serves(items[j])'
      OBVIOUS
    <3>1. CASE j # k
      BY <1>3, <2>4, <3>1
    <3>2. CASE j = k
      <4>1. items'[j] = i
        BY <1>1, <2>1, <3>2
      <4> QED BY <2>2, <4>1 DEF Serves
    <3> QED BY <3>1, <3>2
  <2>6. Ready(k)'
    <3> SUFFICES ASSUME NEW j \in DOMAIN items, j <= k, IsPrefill(items[j])'
                 PROVE  suffix'[slots[items[j]]] # <<>>
      BY <1>1, <1>2 DEF Ready
    <3>1. CASE j # k
      BY <1>3, <1>5, <2>3, <2>4, <3>1 DEF Ready
    <3>2. CASE j = k
      BY <2>1, <2>2, <3>2
    <3> QED BY <3>1, <3>2
  <2>7. CtlOK' /\ PassOK'
    BY <1>1, <1>2, <1>3, <2>2, <2>5, <2>6 DEF CtlOK, PassOK, Listed
  <2> QED BY <1>6, <2>2, <2>7 DEF Calls
<1> QED BY <1>7, <1>8 DEF BatchSuffix

LEMMA PreparedCalls == ASSUME Known, BatchPrepared \/ ForwardPrepared PROVE Calls'
<1>1. /\ UNCHANGED <<poolVars, seqVars, genVars>> /\ UNCHANGED items /\ k' = k + 1
      /\ phase = "idle"
      /\ \/ pc = "batchPrepare" /\ pc' = "batch"
         \/ pc = "forwardPrepare" /\ pc' = "forward"
  BY DEF BatchPrepared, ForwardPrepared, Ended
<1>2. /\ CtlOK /\ Listed /\ SuffixOK /\ TextOK /\ k \in Nat \ {0}
      /\ UNCHANGED <<next, req, slots, generated, last, replay, done, ids, suffix, live, phase>>
  BY <1>1 DEF Known, Calls, CtlOK, poolVars, seqVars, genVars
<1>3. \A i : /\ IsPrefill(i)' <=> IsPrefill(i)
             /\ SlotBatchable(i)' <=> SlotBatchable(i)
             /\ Serves(i)' <=> Serves(i)
  BY <1>2 DEF IsPrefill, SlotBatchable, Serves, IsDecode, Replaying, Occupied, Past, Prompt
<1>4. pc = "batchPrepare" => Ready(k - 1)'
  <2>1. k' - 1 = k
    BY <1>1, <1>2
  <2>2. pc = "batchPrepare" => \A j \in DOMAIN items : j <= k /\ IsPrefill(items[j]) =>
                                 suffix[slots[items[j]]] # <<>>
    BY <1>2 DEF CtlOK, Ready
  <2>3. pc = "batchPrepare" => \A j \in DOMAIN items' : j <= k' - 1 /\ IsPrefill(items[j])' =>
                                 suffix'[slots'[items'[j]]] # <<>>
    BY <1>1, <1>2, <1>3, <2>1, <2>2
  <2> QED BY <2>3 DEF Ready
<1>5. SuffixOK' /\ TextOK'
  BY <1>2, SuffixStep DEF TextOK, Given
<1>6. CtlOK' /\ PassOK'
  BY <1>1, <1>2, <1>3, <1>4 DEF CtlOK, PassOK, Listed
<1> QED BY <1>5, <1>6 DEF Calls

(* A batch of the first half of the step begins. *)
LEMMA BatchBegins ==
  ASSUME Known, phase = "idle", UNCHANGED <<poolVars, seqVars, genVars>>,
         NEW S \in SUBSET {i \in Slot : SlotCompute(i)}, NEW js \in InOrder(S),
         Len(js) > 1, GotoBatch(js)
  PROVE  Calls'
<1>1. /\ CtlOK /\ SuffixOK /\ TextOK /\ pc' = "batch" /\ k' = 1 /\ items' = js
      /\ UNCHANGED <<next, req, slots, generated, last, replay, done, ids, suffix, live, phase>>
  BY DEF Known, Calls, poolVars, seqVars, genVars, GotoBatch
<1>2. /\ js \in Seq(Slot) /\ Len(js) \in Nat /\ Len(js) <= MaxSlots
      /\ DOMAIN js = 1 .. Len(js) /\ \A m \in DOMAIN js : js[m] \in S
      /\ \A m, n \in DOMAIN js : m < n => js[m] < js[n]
  BY OrderedBatch
<1>3. \A i \in S : Serves(i)
  BY DEF SlotCompute, Serves, SlotBatchable
<1>4. \A i : Serves(i)' <=> Serves(i)
  BY <1>1 DEF IsPrefill, SlotBatchable, Serves, IsDecode, Replaying, Occupied, Past, Prompt
<1>5. \A j \in DOMAIN items' : Serves(js[j])'
  BY <1>1, <1>2, <1>3, <1>4
<1>6. Ready(k - 1)'
  <2>1. \A j \in DOMAIN items' : ~(j <= k' - 1)
    BY <1>1, <1>2
  <2> QED BY <2>1 DEF Ready
<1>7. Listed' /\ items' # <<>>
  BY <1>1, <1>2 DEF Listed
<1>8. \A j \in DOMAIN items' : Serves(items[j])'
  BY <1>1, <1>5 DEF Serves, IsPrefill, SlotBatchable
<1>9. CtlOK' /\ PassOK'
  BY <1>1, <1>6, <1>7, <1>8 DEF CtlOK, PassOK
<1>10. SuffixOK' /\ TextOK'
  BY <1>1, SuffixStep DEF TextOK, Given
<1> QED BY <1>9, <1>10 DEF Calls

(* A replay, or the forwarding of the sampled tokens, begins. *)
LEMMA ForwardBegins ==
  ASSUME Known, phase = "idle", UNCHANGED <<poolVars, seqVars>>,
         generated' \in [Id -> Seq(Token)], replay' \in [Id -> Nat],
         \A s \in Id : replay'[s] <= Len(generated'[s]),
         NEW S \in SUBSET Slot, items' \in InOrder(S), items' # <<>>,
         \A i \in S : SlotBatchable(i)',
         pc' = "forward", k' = 1
  PROVE  Calls'
<1>1. /\ CtlOK /\ SuffixOK /\ TextOK
      /\ UNCHANGED <<next, req, slots, ids, suffix, live, phase>>
  BY DEF Known, Calls, poolVars, seqVars
<1>2. PICK js : js = items'
  OBVIOUS
<1>3. /\ js \in Seq(Slot) /\ Len(js) \in Nat /\ Len(js) <= MaxSlots
      /\ DOMAIN js = 1 .. Len(js) /\ \A m \in DOMAIN js : js[m] \in S
      /\ \A m, n \in DOMAIN js : m < n => js[m] < js[n]
  BY <1>2, OrderedBatch
<1>4. Listed'
  BY <1>2, <1>3 DEF Listed
<1>5. \A j \in DOMAIN items' : SlotBatchable(items[j])'
  <2> SUFFICES ASSUME NEW j \in DOMAIN items' PROVE SlotBatchable(items[j])'
    OBVIOUS
  <2>1. PICK i \in S : i = items'[j]
    BY <1>2, <1>3
  <2>2. SlotBatchable(i)'
    OBVIOUS
  <2> QED BY <2>1, <2>2 DEF SlotBatchable, IsDecode, Replaying, Past, Prompt, Occupied
<1>6. CtlOK' /\ PassOK'
  BY <1>1, <1>4, <1>5 DEF CtlOK, PassOK
<1>7. SuffixOK' /\ TextOK'
  BY <1>1, SuffixStep DEF TextOK, Given
<1> QED BY <1>6, <1>7 DEF Calls

(* A forward pass is over. *)
LEMMA DoneCalls == ASSUME Known, SerialDone \/ BatchDone \/ ForwardDone PROVE Calls'
<1>1. /\ UNCHANGED <<poolVars, seqVars, generated, items>> /\ phase = "idle"
      /\ SerialDone => pc' = "serial" /\ k' = k + 1 /\ UNCHANGED replay
      /\ BatchDone \/ ForwardDone => pc' \in {"sample", "replays", "idle"} /\ UNCHANGED k
  BY DEF SerialDone, BatchDone, ForwardDone, Ended, Goto
<1>2. /\ CtlOK /\ PassOK /\ Listed /\ TextOK /\ k \in Nat \ {0} /\ Placed /\ P!KvInv
      /\ generated \in [Id -> Seq(Token)] /\ replay \in [Id -> Nat]
      /\ \A s \in Id : replay[s] <= Len(generated[s]) /\ Len(generated[s]) \in Nat
  BY LenProperties DEF Known, Calls, CtlOK, TextOK
<1>3. Listed' /\ k' \in Nat \ {0}
  BY <1>1, <1>2 DEF Listed
<1>4. \A s \in Batched : \E m \in DOMAIN items : s = slots[items[m]]
  BY DEF Batched, ToSet
<1>5. replay' \in [Id -> Nat] /\ \A s \in Id : replay'[s] <= Len(generated'[s])
  <2>1. CASE SerialDone
    BY <1>1, <1>2, <2>1
  <2>2. CASE BatchDone
    <3>1. /\ pc = "batchCall"
          /\ replay' = [s \in Id |-> IF s \in Batched /\ Len(ids[s]) > Len(req[s].prompt)
                                     THEN replay[s] + 1 ELSE replay[s]]
      BY <2>2 DEF BatchDone
    <3>2. ASSUME NEW s \in Id, s \in Batched, Len(ids[s]) > Len(req[s].prompt)
          PROVE  replay[s] < Len(generated[s])
      <4>1. PICK m \in DOMAIN items : s = slots[items[m]]
        BY <1>4, <3>2
      <4>2. items[m] \in Occupied
        BY <1>2, <3>1 DEF PassOK
      <4>3. Replaying(items[m]) \/ Len(ids[s]) <= Len(req[s].prompt)
        BY <1>2, <3>1, <4>1 DEF PassOK, Past, Prompt
      <4>4. req[s].prompt \in Seq(Token)
        BY <1>2, <4>1, <4>2, Member, EngineAssumption
      <4>5. PICK a, b \in Nat : a = Len(ids[s]) /\ b = Len(req[s].prompt)
        BY <1>2, <3>2, <4>4, PoolTypes, LenProperties
      <4>6. a > b /\ (Replaying(items[m]) \/ a <= b)
        BY <3>2, <4>3, <4>5
      <4>7. Replaying(items[m])
        BY <4>5, <4>6
      <4> QED BY <4>1, <4>7 DEF Replaying
    <3> QED BY <1>1, <1>2, <3>1, <3>2
  <2>3. CASE ForwardDone
    <3>1. /\ pc = "forwardCall"
          /\ replay' = [s \in Id |-> IF s \notin Batched THEN replay[s]
                             ELSE IF mode = "replay" THEN replay[s] + 1
                             ELSE Len(generated[s])]
      BY <2>3 DEF ForwardDone
    <3>2. ASSUME NEW s \in Id, s \in Batched
          PROVE  replay[s] < Len(generated[s])
      <4>1. PICK m \in DOMAIN items : s = slots[items[m]]
        BY <1>4, <3>2
      <4>2. Replaying(items[m])
        BY <1>2, <3>1 DEF PassOK
      <4> QED BY <4>1, <4>2 DEF Replaying
    <3> QED BY <1>1, <1>2, <3>1, <3>2
  <2> QED BY <2>1, <2>2, <2>3
<1> QED BY <1>1, <1>2, <1>3, <1>5, IdleCalls

LEMMA CollectCalls == ASSUME Known, Collect PROVE Calls'
<1>1. /\ UNCHANGED <<poolVars, seqVars, genVars>> /\ pc = "collect"
  BY DEF Collect
<1>2. phase = "idle" /\ TextOK
  BY <1>1, QuietPhase DEF Known, Calls, CallPcs
<1>3. PICK js \in InOrder({i \in Slot : SlotCompute(i)}) :
        IF Len(js) <= 1 THEN GotoSerial ELSE GotoBatch(js)
  BY DEF Collect
<1>4. CASE GotoSerial
  BY <1>1, <1>2, <1>4, IdleCalls, EngineAssumption DEF GotoSerial, Listed, TextOK, genVars
<1>5. CASE Len(js) > 1 /\ GotoBatch(js)
  BY <1>1, <1>2, <1>5, BatchBegins
<1>6. Len(js) \in Nat
  BY OrderedBatch
<1> QED BY <1>3, <1>4, <1>5, <1>6

LEMMA ReplaysCalls == ASSUME Known, Replays PROVE Calls'
<1>1. /\ UNCHANGED <<poolVars, seqVars, genVars>> /\ pc = "replays"
  BY DEF Replays
<1>2. phase = "idle" /\ TextOK /\ CtlOK
  BY <1>1, QuietPhase DEF Known, Calls, CallPcs
<1>3. PICK js \in InOrder({i \in Slot : SlotBatchable(i)}) :
        IF js = <<>> THEN Goto("sample")
        ELSE pc' = "forward" /\ mode' = "replay" /\ items' = js /\ k' = 1
  BY DEF Replays
<1>4. CASE Goto("sample")
  BY <1>1, <1>2, <1>4, IdleCalls DEF Goto, Listed, TextOK, genVars, CtlOK
<1>5. CASE js # <<>> /\ pc' = "forward" /\ items' = js /\ k' = 1
  <2>1. \A i : SlotBatchable(i)' <=> SlotBatchable(i)
    BY <1>1 DEF poolVars, seqVars, genVars, SlotBatchable, IsDecode, Replaying, Occupied, Past, Prompt
  <2>2. PICK S : S = {i \in Slot : SlotBatchable(i)}
    OBVIOUS
  <2>3. S \in SUBSET Slot /\ items' \in InOrder(S) /\ \A i \in S : SlotBatchable(i)'
    BY <1>5, <2>1, <2>2
  <2>4. /\ generated' \in [Id -> Seq(Token)] /\ replay' \in [Id -> Nat]
        /\ \A s \in Id : replay'[s] <= Len(generated'[s])
    BY <1>1, <1>2 DEF TextOK, genVars
  <2> QED BY <1>1, <1>2, <1>5, <2>3, <2>4, ForwardBegins
<1> QED BY <1>3, <1>4, <1>5

(* What is left of the batch after a preemption. *)
LEMMA RetryCalls == ASSUME Known, Retry PROVE Calls'
<1>1. /\ UNCHANGED <<poolVars, seqVars, genVars>> /\ pc = "retry"
  BY DEF Retry
<1>2. phase = "idle" /\ TextOK /\ CtlOK /\ Listed
  BY <1>1, QuietPhase DEF Known, Calls, CallPcs, CtlOK
<1>3. PICK S, keep :
        /\ S = {i \in ToSet(items) :
                  IF mode = "compute" THEN SlotCompute(i) ELSE SlotBatchable(i)}
        /\ keep \in InOrder(S)
        /\ IF keep = <<>>
           THEN /\ pc' = CASE mode = "compute" -> "sample"
                           [] mode = "replay"  -> "replays"
                           [] mode = "decode"  -> "idle"
                /\ UNCHANGED <<mode, items, k>>
           ELSE IF mode # "compute"
                THEN pc' = "forward" /\ k' = 1 /\ items' = keep /\ UNCHANGED mode
                ELSE IF Len(keep) <= 1 THEN GotoSerial ELSE GotoBatch(keep)
  BY DEF Retry
<1>4. ToSet(items) \subseteq Slot
  <2>1. \A j \in DOMAIN items : items[j] \in Slot
    BY <1>2, LenProperties, ElementOfSeq DEF Listed
  <2> QED BY <2>1 DEF ToSet
<1>5. /\ generated' \in [Id -> Seq(Token)] /\ replay' \in [Id -> Nat]
      /\ \A s \in Id : replay'[s] <= Len(generated'[s])
  BY <1>1, <1>2 DEF TextOK, genVars
<1>6. S \in SUBSET Slot /\ Len(keep) \in Nat
  BY <1>3, <1>4, OrderedBatch
<1>7. CASE keep = <<>>
  BY <1>1, <1>2, <1>3, <1>5, <1>7, IdleCalls DEF Listed, CtlOK, Known, ModeOK
<1>8. CASE keep # <<>> /\ mode # "compute"
  <2>1. \A i : SlotBatchable(i)' <=> SlotBatchable(i)
    BY <1>1 DEF poolVars, seqVars, genVars, SlotBatchable, IsDecode, Replaying, Occupied, Past, Prompt
  <2>2. \A i \in S : SlotBatchable(i)'
    BY <1>3, <1>8, <2>1
  <2> QED BY <1>1, <1>2, <1>3, <1>5, <1>6, <1>8, <2>2, ForwardBegins
<1>9. CASE keep # <<>> /\ mode = "compute" /\ Len(keep) > 1
  <2>1. S \in SUBSET {i \in Slot : SlotCompute(i)}
    BY <1>3, <1>4, <1>9
  <2>2. GotoBatch(keep)
    BY <1>3, <1>6, <1>9
  <2> QED BY <1>1, <1>2, <1>3, <1>9, <2>1, <2>2, BatchBegins
<1>10. CASE GotoSerial
  BY <1>1, <1>2, <1>5, <1>10, IdleCalls, EngineAssumption DEF GotoSerial, Listed
<1> QED BY <1>3, <1>6, <1>7, <1>8, <1>9, <1>10

(* The slots that go on after the sampling have a token to forward. *)
LEMMA SampleCalls == ASSUME SamplesTokens, Known, Sample PROVE Calls'
<1>1. /\ UNCHANGED <<poolVars, seqVars, replay>> /\ pc = "sample"
  BY DEF Sample
<1>2. phase = "idle" /\ TextOK /\ CtlOK /\ Placed
  BY <1>1, QuietPhase DEF Known, Calls, CallPcs
<1>3. PICK pushes, go :
        /\ pushes = {s \in Samples : /\ Len(generated[s]) < req[s].predict
                                     /\ Greedy(last[s]) # Eos}
        /\ go = {s \in pushes : Continues(s)}
        /\ generated' = [s \in Id |-> IF s \in pushes
                            THEN Append(generated[s], Greedy(last[s])) ELSE generated[s]]
        /\ done' = done \cup (Samples \ go)
        /\ k' = 1
        /\ items' \in InOrder({i \in Occupied : slots[i] \in go})
        /\ pc' = IF items' = <<>> THEN "idle" ELSE "forward"
  BY DEF Sample
<1>4. \A s \in Id : /\ generated[s] \in Seq(Token)
                    /\ replay[s] \in Nat /\ replay[s] <= Len(generated[s])
                    /\ Len(generated[s]) \in Nat
  BY <1>2, LenProperties DEF TextOK
<1>5. \A s \in pushes \cap Id : /\ Append(generated[s], Greedy(last[s])) \in Seq(Token)
                             /\ Len(Append(generated[s], Greedy(last[s]))) = Len(generated[s]) + 1
  BY <1>3, <1>4, AppendProperties DEF SamplesTokens
<1>6. /\ generated' \in [Id -> Seq(Token)] /\ replay' \in [Id -> Nat]
      /\ \A s \in Id : replay'[s] <= Len(generated'[s])
  BY <1>1, <1>2, <1>3, <1>4, <1>5 DEF TextOK
<1>7. PICK S : S = {i \in Occupied : slots[i] \in go}
  OBVIOUS
<1>8. S \in SUBSET Slot
  BY <1>7 DEF Occupied
<1>9. CASE items' = <<>>
  <2>1. Listed'
    BY <1>9, EngineAssumption DEF Listed
  <2> QED BY <1>1, <1>2, <1>3, <1>6, <1>9, <2>1, IdleCalls
<1>10. CASE items' # <<>>
  <2>1. ASSUME NEW i \in S PROVE SlotBatchable(i)'
    <3>1. PICK s : s = slots[i]
      OBVIOUS
    <3>2. i \in Occupied /\ s \in go /\ s \in pushes /\ s \in Samples /\ s \in Id
      BY <1>2, <1>3, <1>7, <3>1, Member
    <3>3. PICK j \in Slot : IsDecode(j) /\ ~Replaying(j) /\ slots[j] = s
      BY <3>2 DEF Samples
    <3>4. Past(i) >= Len(Prompt(i)) /\ s \notin done
      BY <3>1, <3>3 DEF IsDecode, Past, Prompt
    <3>5. UNCHANGED <<ids, req, slots, replay>>
      BY <1>1 DEF poolVars, seqVars
    <3>6. s \notin done'
      BY <1>3, <3>2, <3>4
    <3>7. generated'[s] = Append(generated[s], Greedy(last[s]))
      BY <1>3, <3>2
    <3>8. replay'[s] < Len(generated'[s])
      BY <1>4, <1>5, <3>2, <3>5, <3>7
    <3>9. Replaying(i)'
      BY <3>1, <3>5, <3>8 DEF Replaying
    <3>10. Past(i)' >= Len(Prompt(i))' /\ i \in Occupied' /\ slots'[i] \notin done'
      BY <3>1, <3>2, <3>4, <3>5, <3>6 DEF Past, Prompt, Occupied
    <3> QED BY <3>9, <3>10 DEF SlotBatchable, IsDecode
  <2> QED BY <1>1, <1>2, <1>3, <1>6, <1>7, <1>8, <1>10, <2>1, ForwardBegins
<1> QED BY <1>9, <1>10

LEMMA CallsNext == ASSUME SamplesTokens, Known, Next PROVE Calls'
<1>1. CASE BeginStep
  <2>1. /\ UNCHANGED <<poolVars, seqVars, genVars, items, k>> /\ pc = "idle" /\ pc' = "retire"
    BY <1>1 DEF BeginStep, Goto
  <2>2. phase = "idle" /\ TextOK /\ CtlOK
    BY <2>1, QuietPhase DEF Known, Calls, CallPcs
  <2> QED BY <2>1, <2>2, IdleCalls DEF Listed, CtlOK, TextOK, genVars
<1>2. CASE SerialCap \/ BatchCap \/ ForwardCap
  BY <1>2, CapCalls DEF SerialCap, BatchCap, ForwardCap
<1> QED BY <1>1, <1>2, AddCalls, TakeCalls, RetireCalls, AdmitCalls, CollectCalls, SerialCalls,
           SerialPrefillCalls, DoneCalls, ReplaysCalls, BatchSuffixCalls, PrepareCalls,
           PreparedCalls, RetryCalls, BatchStartCalls, SampleCalls, ForwardStartCalls,
           PoolStepCalls, Zenon DEF Next, StepOnce

LEMMA ModeNext == ASSUME ModeOK, [Next]_vars PROVE ModeOK'
BY DEF ModeOK, Next, StepOnce, vars, ctlVars, Add, Take, BeginStep, Retire, Admit, Collect,
  GotoSerial, GotoBatch, Goto, Serial, SerialPrefill, SerialDone, SerialCap, OnCap, Replays,
  BatchSuffix, BatchPrepare, BatchPrepared, BatchCap, Retry, BatchStart, BatchDone, Sample,
  ForwardPrepare, ForwardPrepared, ForwardCap, ForwardStart, ForwardDone, PoolStep

LEMMA CallsStutter == ASSUME Calls, UNCHANGED vars PROVE Calls'
<1>1. UNCHANGED <<live, ids, suffix, phase, op, jobs, at, next, req, slots, generated, last,
                  replay, done, pc, items, k>>
  BY DEF vars, poolVars, seqVars, genVars, ctlVars
<1>2. \A i : /\ IsPrefill(i)' <=> IsPrefill(i)
             /\ SlotBatchable(i)' <=> SlotBatchable(i)
             /\ Serves(i)' <=> Serves(i)
             /\ Replaying(i)' <=> Replaying(i)
             /\ Past(i)' = Past(i) /\ Prompt(i)' = Prompt(i)
  BY <1>1 DEF IsPrefill, SlotBatchable, Serves, IsDecode, Replaying, Occupied, Past, Prompt
<1>3. Occupied' = Occupied /\ Remaining' = Remaining /\ Given' = Given
  BY <1>1 DEF Occupied, Remaining, Given
<1>4. \A n : Ready(n)' <=> Ready(n)
  BY <1>1, <1>2 DEF Ready
<1>5. CtlOK'
  <2>1. CtlOK
    BY DEF Calls
  <2> QED BY <1>1, <1>2, <1>3, <1>4, <2>1 DEF CtlOK, Listed
<1>6. PassOK'
  <2>1. PassOK
    BY DEF Calls
  <2> QED BY <1>1, <1>2, <1>3, <2>1 DEF PassOK
<1>7. SuffixOK' /\ TextOK'
  BY <1>1, <1>3, SuffixStep DEF Calls, TextOK
<1> QED BY <1>5, <1>6, <1>7 DEF Calls

(* The pool's invariant holds of the engine's pool. *)
LEMMA KnownNext == ASSUME SamplesTokens, Known, [Next]_vars PROVE Known'
<1>1. Placed /\ P!KvInv /\ Calls /\ ModeOK
  BY DEF Known
<1>2. Pool!Next \/ UNCHANGED poolVars
  BY LegalStep
<1>3. P!Next \/ UNCHANGED P!vars
  BY <1>2, SameNext, SameVars
<1>4. P!KvInv'
  BY <1>1, <1>3, PoolAssumption, P!KvNext
<1>5. Calls'
  BY <1>1, CallsNext, CallsStutter
<1> QED BY <1>1, <1>4, <1>5, PlacesNext, ModeNext DEF Known

LEMMA KnownInit == Init => Known
<1> SUFFICES ASSUME Init PROVE Known
  OBVIOUS
<1>1. Placed
  BY PlacesInit
<1>2. P!KvInv
  BY SameInit, PoolAssumption, P!InitKv DEF Init
<1>3. /\ next = 1 /\ generated = [s \in Id |-> <<>>] /\ replay = [s \in Id |-> 0]
      /\ suffix = [s \in Id |-> <<>>] /\ phase = "idle"
      /\ pc = "idle" /\ mode = "compute" /\ items = <<>> /\ k = 1
  BY DEF Init, Pool!Init
<1>4. CtlOK /\ PassOK /\ ModeOK
  BY <1>3, EngineAssumption DEF CtlOK, PassOK, ModeOK, Listed
<1>5. SuffixOK
  BY <1>3 DEF SuffixOK
<1>6. TextOK
  <2>1. Given = {}
    BY <1>3 DEF Given
  <2> QED BY <1>3, <2>1, EmptySeq DEF TextOK
<1> QED BY <1>1, <1>2, <1>4, <1>5, <1>6 DEF Known, Calls

-----------------------------------------------------------------------------
(* What is reserved for a batch stays reserved until the batch runs. *)

(* Positions that member j of the batch asks for. *)
NeedOf(j) == Len(Part(items[j]))

(* The members before the n-th have them. *)
Granted(n) == \A j \in DOMAIN items : j < n => NeedOf(j) <= prepared[slots[items[j]]]

Reserving == {"batchPrepare", "forwardPrepare"}
Passing   == {"batchCall", "forwardCall"}
Batching  == Reserving \cup {"batch", "batchSuffix", "forward"}

ReserveOK ==
  /\ pc \in Batching => Granted(k)
  /\ pc \in Reserving =>
       /\ k \in DOMAIN items
       /\ phase # "idle" => /\ Len(jobs) = 1 /\ jobs[1].seq = slots[items[k]]
                            /\ Len(jobs[1].toks) = NeedOf(k)
       /\ phase = "idle" /\ result = "ok" => NeedOf(k) <= prepared[slots[items[k]]]
  /\ pc \in Passing =>
       /\ result # "kv page cap"
       /\ phase = "reserve" =>
            \A j \in DOMAIN jobs : Len(jobs[j].toks) <= prepared[jobs[j].seq]

(* What a member computes depends on its own cache only. *)
LEMMA SamePart ==
  ASSUME UNCHANGED <<req, slots, done, generated, replay>>, NEW i,
         ids'[slots[i]] = ids[slots[i]], suffix'[slots[i]] = suffix[slots[i]]
  PROVE  Part(i)' = Part(i)
BY DEF Part, IsPrefill, Occupied, Past, Prompt, Unforwarded

LEMMA ForwardPart ==
  ASSUME Known, NEW i, SlotBatchable(i)
  PROVE  Part(i) = <<Unforwarded(i)>> /\ Len(Part(i)) = 1
<1>1. i \in Occupied /\ Past(i) >= Len(Prompt(i))
  BY DEF SlotBatchable, IsDecode
<1>2. Past(i) \in Nat /\ Len(Prompt(i)) \in Nat
  <2>1. slots[i] \in Id /\ req[slots[i]] \in Requests
    BY <1>1, Member DEF Known
  <2>2. Prompt(i) \in Seq(Token)
    BY <2>1, EngineAssumption DEF Prompt
  <2> QED BY <2>1, <2>2, PoolTypes, LenProperties DEF Known, Past
<1>3. ~(Past(i) < Len(Prompt(i)))
  BY <1>1, <1>2
<1> QED BY <1>3 DEF Part, IsPrefill

(* One step of a call: what it says of the reservations. *)
LEMMA CallPrepared ==
  ASSUME Pool!CallStep
  PROVE  /\ phase = "reserve" =>
              \/ phase' # "idle" /\ UNCHANGED <<prepared, jobs, result>>
              \/ phase' = "idle" /\ UNCHANGED prepared /\ result' = "kv cache full"
              \/ phase' = "idle" /\ UNCHANGED prepared /\ result' = "kv page cap" /\ Pool!CapError
              \/ /\ phase' = "idle" /\ result' = "ok" /\ at = Len(jobs)
                 /\ prepared' = [prepared EXCEPT ![jobs[at].seq] = Len(jobs[at].toks)]
         /\ phase # "reserve" =>
              phase' # "reserve" /\ (result' = result \/ result' \in {"ok", "transformer"})
<1>1. CASE Pool!FullError
  BY <1>1 DEF Pool!FullError, Pool!Finish, Pool!cacheVars
<1>2. CASE Pool!Fault
  BY <1>2 DEF Pool!Fault, Pool!callVars
<1>3. CASE Pool!Cow
  BY <1>3 DEF Pool!Cow, Pool!callVars
<1>4. CASE Pool!CapError
  <2>1. phase = "reserve" /\ phase' = "idle" /\ UNCHANGED prepared /\ result' = "kv page cap"
    BY <1>4 DEF Pool!CapError, Pool!Finish, Pool!cacheVars
  <2> QED BY <1>4, <2>1
<1>5. CASE Pool!Reserved
  BY <1>5 DEF Pool!Reserved, Pool!cacheVars
<1>6. CASE Pool!NextJob
  BY <1>6 DEF Pool!NextJob, Pool!Finish, Pool!Cur
<1>7. CASE Pool!Transformer
  BY <1>7 DEF Pool!Transformer
<1>8. CASE Pool!TransformerError
  BY <1>8 DEF Pool!TransformerError, Pool!Finish
<1>9. CASE Pool!Commit
  BY <1>9 DEF Pool!Commit, Pool!Finish
<1> QED BY <1>1, <1>2, <1>3, <1>4, <1>5, <1>6, <1>7, <1>8, <1>9 DEF Pool!CallStep

LEMMA SameCap == Pool!CapError <=> P!CapError
BY DEF Pool!CapError, P!CapError, Pool!Fits, P!Fits, Pool!End, P!End, Pool!NeedsBlock, P!NeedsBlock,
  Pool!NeedsCopy, P!NeedsCopy, Pool!Cur, P!Cur, Pool!Index, P!Index, Pool!Free, P!Free,
  Pool!Block, P!Block, Pool!Evictable, P!Evictable, Pool!Finish, P!Finish,
  Pool!poolVars, P!poolVars, Pool!cacheVars, P!cacheVars

LEMMA PoolStepReserves ==
  ASSUME Known, P!Onward, ReserveOK, PoolStep
  PROVE  ReserveOK'
<1>0. /\ Placed /\ P!KvInv /\ CtlOK /\ Listed /\ Pool!CallStep
      /\ UNCHANGED <<req, slots, done, generated, replay, pc, items, k>>
  BY DEF Known, Calls, CtlOK, PoolStep, seqVars, genVars, ctlVars
<1>1. /\ phase # "idle" /\ (phase' # "idle" => UNCHANGED jobs)
      /\ phase = "reserve" /\ op = "prepare" =>
           phase' = "idle" \/ (phase' = "reserve" /\ op' = "prepare")
      /\ phase # "commit" => UNCHANGED <<ids, suffix>>
  BY <1>0, CallIds
<1>2. pc \in CallPcs
  BY <1>0, <1>1 DEF CtlOK
<1>3. CASE pc \in Reserving
  <2>1. phase = "reserve" /\ k \in DOMAIN items /\ Granted(k)
    BY <1>0, <1>1, <1>3 DEF CtlOK, Reserving, Batching, ReserveOK
  <2>2. PICK it, ss, n : it = items /\ ss = slots /\ n = k
    OBVIOUS
  <2>3. \A i : Part(i)' = Part(i)
    BY <1>0, <1>1, <2>1, SamePart
  <2>4. \A j : Len(Part(it[j]))' = Len(Part(it[j]))
    BY <2>3
  <2>5. \A j : NeedOf(j)' = NeedOf(j)
    BY <1>0, <2>2, <2>4 DEF NeedOf
  <2>6. \A j \in DOMAIN items : items[j] \in Occupied
    BY <1>0, <1>3 DEF CtlOK, Reserving, Serves, IsPrefill, SlotBatchable, IsDecode
  <2>7. /\ Len(jobs) = 1 /\ jobs[1].seq = slots[items[k]] /\ Len(jobs[1].toks) = NeedOf(k)
    BY <1>1, <1>3 DEF ReserveOK
  <2>8. CASE UNCHANGED prepared /\ (phase' = "idle" => result' # "ok")
    <3>1. Granted(k)'
      BY <1>0, <2>1, <2>5, <2>8 DEF Granted
    <3>2. phase' # "idle" => /\ Len(jobs') = 1 /\ jobs'[1].seq = slots'[items'[k']]
                             /\ Len(jobs'[1].toks) = NeedOf(k)'
      <4>1. NeedOf(k)' = NeedOf(k)
        BY <1>0, <2>2, <2>5 DEF NeedOf
      <4> QED BY <1>0, <1>1, <2>7, <4>1
    <3> QED BY <1>0, <1>3, <2>1, <2>8, <3>1, <3>2 DEF ReserveOK, Reserving, Passing
  <2>9. CASE /\ phase' = "idle" /\ result' = "ok" /\ at = Len(jobs)
             /\ prepared' = [prepared EXCEPT ![jobs[at].seq] = Len(jobs[at].toks)]
    <3>1. PICK e : e = NeedOf(k)
      OBVIOUS
    <3>2. prepared' = [prepared EXCEPT ![ss[it[n]]] = e]
      BY <2>2, <2>7, <2>9, <3>1
    <3>3. prepared \in [Id -> Nat] /\ \A j \in DOMAIN items : slots[items[j]] \in Id
      BY <1>0, <2>6, Member DEF P!KvInv, P!IInv, P!Counted, P!TypeOK
    <3>4. prepared'[ss[it[n]]] = e /\ e \in Nat
      <4>1. e = Len(jobs[1].toks) /\ jobs[1].toks \in Seq(Token)
        <5>1. 1 \in DOMAIN jobs
          BY <1>0, <1>1, <2>7, <2>9, CallJobs
        <5> QED BY <1>0, <1>1, <2>7, <3>1, <5>1, CallJobs
      <4> QED BY <2>1, <2>2, <3>2, <3>3, <4>1, LenProperties
    <3>5. \A j \in DOMAIN items : j # k => prepared'[slots[items[j]]] = prepared[slots[items[j]]]
      <4> SUFFICES ASSUME NEW j \in DOMAIN items, j # k
                   PROVE  prepared'[slots[items[j]]] = prepared[slots[items[j]]]
        OBVIOUS
      <4>1. slots[items[j]] # slots[items[k]]
        BY <2>1, <2>6, DistinctItems
      <4> QED BY <2>2, <3>2, <3>3, <4>1
    <3>6. DOMAIN items \subseteq Nat /\ k \in Nat
      BY <1>0, LenProperties DEF Listed, CtlOK
    <3>7. Granted(k)'
      <4>1. \A j \in DOMAIN items : j < k => j # k
        BY <3>6
      <4> QED BY <1>0, <2>1, <2>5, <3>5, <4>1 DEF Granted
    <3>8. NeedOf(k)' = e
      <4>1. NeedOf(k)' = NeedOf(k)
        BY <1>0, <2>2, <2>5 DEF NeedOf
      <4> QED BY <3>1, <4>1
    <3>9. NeedOf(k)' <= prepared'[slots'[items'[k']]]
      BY <1>0, <2>2, <3>4, <3>8
    <3> QED BY <1>0, <1>3, <2>1, <2>9, <3>7, <3>9 DEF ReserveOK, Reserving, Passing
  <2> QED BY <1>0, <2>1, <2>8, <2>9, CallPrepared
<1>4. CASE pc \in Passing
  <2>1. result # "kv page cap"
    BY <1>4 DEF ReserveOK
  <2>2. pc' \notin Batching /\ pc' \notin Reserving
    BY <1>0, <1>4 DEF Passing, Batching, Reserving
  <2>3. CASE phase = "reserve"
    <3>1. \A j \in DOMAIN jobs : Len(jobs[j].toks) <= prepared[jobs[j].seq]
      BY <1>4, <2>3 DEF ReserveOK
    <3>2. ~Pool!CapError
      BY <1>0, <1>1, <3>1, CallJobs, SameCap, PoolAssumption, P!PreparedNeverCaps
    <3> QED BY <1>0, <2>1, <2>2, <2>3, <3>1, <3>2, CallPrepared DEF ReserveOK
  <2>4. CASE phase # "reserve"
    BY <1>0, <2>1, <2>2, <2>4, CallPrepared DEF ReserveOK
  <2> QED BY <2>3, <2>4
<1>5. CASE pc \notin Reserving /\ pc \notin Passing
  <2>1. pc' \notin Batching /\ pc' \notin Reserving /\ pc' \notin Passing
    BY <1>0, <1>2, <1>5 DEF CallPcs, Batching, Reserving, Passing
  <2> QED BY <2>1 DEF ReserveOK
<1> QED BY <1>3, <1>4, <1>5

(* No reservation is asked for, or none has been made yet. *)
LEMMA ReserveQuiet ==
  ASSUME pc' \notin Batching \cup Passing
  PROVE  ReserveOK'
BY DEF ReserveOK, Batching

LEMMA ReserveBegins ==
  ASSUME Known', pc' \in {"batch", "forward"}, k' = 1
  PROVE  ReserveOK'
<1>1. items' \in Seq(Slot)
  BY DEF Known, Calls, CtlOK, Listed
<1>2. DOMAIN items' \subseteq Nat \ {0}
  BY <1>1, LenProperties
<1>3. Granted(k)'
  BY <1>2 DEF Granted
<1> QED BY <1>3 DEF ReserveOK, Reserving, Passing

(* The other members of the batch keep theirs. *)
LEMMA BatchSuffixReserves ==
  ASSUME Known, ReserveOK, BatchSuffix
  PROVE  ReserveOK'
<1>1. /\ UNCHANGED <<seqVars, genVars>> /\ pc = "batch" /\ pc' = "batchSuffix"
      /\ UNCHANGED <<items, k>> /\ k <= Len(items)
  BY DEF BatchSuffix, Goto
<1>2. /\ CtlOK /\ Listed /\ Placed /\ k \in Nat \ {0}
      /\ UNCHANGED <<req, slots, done, generated, replay, seqVars>>
  BY <1>1 DEF Known, Calls, CtlOK, seqVars, genVars
<1>3. k \in DOMAIN items /\ DOMAIN items \subseteq Nat /\ \A j \in DOMAIN items : items[j] \in Occupied
  BY <1>1, <1>2, LenProperties DEF CtlOK, Listed, Serves, IsPrefill, SlotBatchable, IsDecode
<1>4. Granted(k)
  BY <1>1 DEF ReserveOK, Batching
<1>5. ASSUME NEW j \in DOMAIN items, j < k
      PROVE  /\ NeedOf(j)' = NeedOf(j)
             /\ prepared'[slots[items[j]]] = prepared[slots[items[j]]]
  <2>1. PICK i, n : i = items[j] /\ n = items[k]
    OBVIOUS
  <2>2. i \in Occupied /\ n \in Occupied /\ slots[i] # slots[n]
    <3>1. j # k
      BY <1>2, <1>3, <1>5
    <3> QED BY <1>3, <1>5, <2>1, <3>1, DistinctItems
  <2>3. slots[i] \in Id /\ slots[n] \in Id
    BY <1>2, <2>2, Member
  <2>4. prepared \in [Id -> Nat]
    BY DEF Known, P!KvInv, P!IInv, P!Counted, P!TypeOK
  <2>5. /\ ids'[slots[i]] = ids[slots[i]] /\ suffix'[slots[i]] = suffix[slots[i]]
        /\ prepared'[slots[i]] = prepared[slots[i]]
    <3>1. CASE UNCHANGED poolVars
      BY <3>1 DEF poolVars
    <3>2. CASE IsPrefill(n) /\ Pool!PromptSuffix(slots[n], Prompt(n), Chunk)
      <4>1. /\ ids'[slots[i]] = ids[slots[i]] /\ suffix'[slots[i]] = suffix[slots[i]]
        BY <1>2, <2>2, <3>2, SuffixCalls
      <4>2. prepared' = [prepared EXCEPT ![slots[n]] = 0]
        BY <3>2 DEF Pool!PromptSuffix
      <4> QED BY <2>2, <2>3, <2>4, <4>1, <4>2
    <3> QED BY <2>1, <3>1, <3>2 DEF BatchSuffix
  <2>6. Part(i)' = Part(i)
    BY <1>2, <2>5, SamePart
  <2>7. items'[j] = i
    BY <1>1, <2>1
  <2>8. Len(Part(i))' = Len(Part(i))
    BY <2>6
  <2>9. NeedOf(j) = Len(Part(i)) /\ NeedOf(j)' = Len(Part(i))'
    BY <2>1, <2>7 DEF NeedOf, Part, IsPrefill, Unforwarded, Occupied, Past, Prompt
  <2> QED BY <2>1, <2>5, <2>8, <2>9
<1>6. Granted(k)'
  BY <1>1, <1>2, <1>4, <1>5 DEF Granted
<1> QED BY <1>1, <1>6 DEF ReserveOK, Reserving, Passing

(* Nothing that a batch asks for or has changes while a call starts. *)
LEMMA SameNeeds ==
  ASSUME UNCHANGED <<seqVars, genVars, items, k, ids, suffix, prepared>>
  PROVE  /\ UNCHANGED <<req, slots, done, generated, replay>>
         /\ \A j : NeedOf(j)' = NeedOf(j)
         /\ \A n : Granted(n)' <=> Granted(n)
<1>1. UNCHANGED <<req, slots, done, generated, replay>>
  BY DEF seqVars, genVars
<1>2. \A j : NeedOf(j)' = NeedOf(j)
  BY <1>1 DEF NeedOf, Part, IsPrefill, Occupied, Past, Prompt, Unforwarded
<1>3. \A n : Granted(n)' <=> Granted(n)
  BY <1>1, <1>2 DEF Granted
<1> QED BY <1>1, <1>2, <1>3

LEMMA PrepareReserves ==
  ASSUME Known, ReserveOK, BatchPrepare \/ ForwardPrepare
  PROVE  ReserveOK'
<1>1. /\ UNCHANGED <<seqVars, genVars>> /\ UNCHANGED <<items, k>>
      /\ \/ pc = "batchSuffix" /\ pc' = "batchPrepare"
         \/ pc = "forward" /\ pc' = "forwardPrepare" /\ k <= Len(items)
  BY DEF BatchPrepare, ForwardPrepare, Goto
<1>2. CtlOK /\ Listed /\ k \in Nat \ {0} /\ Granted(k)
  BY <1>1 DEF Known, Calls, CtlOK, ReserveOK, Batching
<1>3. k \in DOMAIN items
  BY <1>1, <1>2, LenProperties DEF CtlOK, Listed
<1>4. PICK n : n = NeedOf(k)
  OBVIOUS
<1>5. Pool!StartPrepare(slots[items[k]], n) /\ n \in Nat
  <2>1. CASE BatchPrepare
    <3>1. pc = "batchSuffix" /\ Pool!StartPrepare(slots[items[k]], n)
      BY <1>4, <2>1 DEF BatchPrepare, NeedOf
    <3>2. Serves(items[k]) /\ (IsPrefill(items[k]) => suffix[slots[items[k]]] # <<>>)
      BY <1>2, <1>3, <3>1 DEF CtlOK, Ready
    <3>3. n \in 1 .. MaxSeq
      BY <1>4, <3>2, PartGroup DEF NeedOf
    <3> QED BY <3>1, <3>3
  <2>2. CASE ForwardPrepare
    <3>1. pc = "forward" /\ Pool!StartPrepare(slots[items[k]], 1)
      BY <2>2 DEF ForwardPrepare
    <3>2. n = 1
      BY <1>2, <1>3, <1>4, <3>1, ForwardPart DEF CtlOK, NeedOf
    <3> QED BY <3>1, <3>2
  <2> QED BY <2>1, <2>2
<1>6. PICK filler, js : /\ filler = [i \in 1 .. n |-> CHOOSE t \in Token : TRUE]
                        /\ js = <<[seq |-> slots[items[k]], toks |-> filler]>>
                        /\ Pool!Start("prepare", js)
  BY <1>5 DEF Pool!StartPrepare
<1>7. Len(filler) = n /\ js[1].seq = slots[items[k]] /\ js[1].toks = filler /\ Len(js) = 1
  <2>1. DOMAIN filler = 1 .. n
    BY <1>6
  <2>2. Len(filler) = n
    BY <1>5, <1>6
  <2> QED BY <1>6, <2>2
<1>8. UNCHANGED <<ids, suffix, prepared>> /\ phase' = "reserve" /\ jobs' = js
  BY <1>6 DEF Pool!Start, Pool!cacheVars
<1>9. UNCHANGED slots /\ NeedOf(k)' = NeedOf(k) /\ (Granted(k)' <=> Granted(k))
  <2>1. PICK m : m = k
    OBVIOUS
  <2>2. UNCHANGED slots /\ NeedOf(m)' = NeedOf(m) /\ (Granted(m)' <=> Granted(m))
    BY <1>1, <1>8, SameNeeds
  <2> QED BY <1>1, <2>1, <2>2 DEF NeedOf, Granted
<1>10. jobs'[1].seq = slots'[items'[k']] /\ Len(jobs'[1].toks) = NeedOf(k)' /\ Len(jobs') = 1
  BY <1>1, <1>4, <1>7, <1>8, <1>9
<1>11. pc' \in Reserving /\ pc' \notin Passing /\ k' \in DOMAIN items' /\ phase' # "idle"
  BY <1>1, <1>3, <1>8 DEF Reserving, Passing
<1> QED BY <1>2, <1>9, <1>10, <1>11 DEF ReserveOK

LEMMA PreparedReserves ==
  ASSUME Known, ReserveOK, BatchPrepared \/ ForwardPrepared
  PROVE  ReserveOK'
<1>1. /\ UNCHANGED <<poolVars, seqVars, genVars>> /\ UNCHANGED items /\ k' = k + 1
      /\ phase = "idle" /\ result = "ok" /\ pc \in Reserving /\ pc' \in {"batch", "forward"}
  BY DEF BatchPrepared, ForwardPrepared, Ended, Reserving
<1>2. /\ Listed /\ k \in Nat /\ Granted(k) /\ NeedOf(k) <= prepared[slots[items[k]]]
  BY <1>1 DEF Known, Calls, CtlOK, ReserveOK, Batching
<1>3. UNCHANGED <<ids, suffix, prepared, req, slots, done, generated, replay>>
  BY <1>1 DEF poolVars, seqVars, genVars
<1>4. \A j : NeedOf(j)' = NeedOf(j)
  BY <1>1, <1>3 DEF NeedOf, Part, IsPrefill, Occupied, Past, Prompt, Unforwarded
<1>5. \A j \in DOMAIN items : j < k' => j < k \/ j = k
  BY <1>1, <1>2, LenProperties DEF Listed
<1>6. \A j \in DOMAIN items : j < k' => NeedOf(j) <= prepared[slots[items[j]]]
  BY <1>2, <1>5 DEF Granted
<1>7. Granted(k)'
  BY <1>1, <1>3, <1>4, <1>6 DEF Granted
<1> QED BY <1>1, <1>7 DEF ReserveOK, Reserving, Passing

(* The batched call starts with all it needs. *)
LEMMA PassReserves ==
  ASSUME Known, ReserveOK, BatchStart \/ ForwardStart
  PROVE  ReserveOK'
<1>1. /\ UNCHANGED <<seqVars, genVars>> /\ UNCHANGED <<items, k>> /\ k > Len(items)
      /\ pc \in {"batch", "forward"} /\ pc' \in Passing
      /\ BatchStart => pc = "batch"
      /\ ForwardStart => pc = "forward"
  BY DEF BatchStart, ForwardStart, Goto, Passing
<1>2. CtlOK /\ Listed /\ k \in Nat \ {0} /\ Granted(k)
  BY <1>1 DEF Known, Calls, CtlOK, ReserveOK, Batching
<1>3. \A j \in DOMAIN items : NeedOf(j) <= prepared[slots[items[j]]]
  <2>1. \A j \in DOMAIN items : j < k
    BY <1>1, <1>2, LenProperties DEF Listed
  <2> QED BY <1>2, <2>1 DEF Granted
<1>4. PICK js : /\ Pool!Start("prefill", js) /\ DOMAIN js = DOMAIN items
                /\ \A j \in DOMAIN items : js[j].seq = slots[items[j]] /\ js[j].toks = Part(items[j])
  <2>1. CASE BatchStart
    BY <2>1 DEF BatchStart, Group
  <2>2. CASE ForwardStart
    <3>1. \A j \in DOMAIN items : Part(items[j]) = <<Unforwarded(items[j])>>
      BY <1>1, <1>2, <2>2, ForwardPart DEF CtlOK
    <3>2. PICK js : /\ js = [i \in DOMAIN items |->
                              [seq |-> slots[items[i]], toks |-> <<Unforwarded(items[i])>>]]
                    /\ Pool!Start("prefill", js)
      BY <2>2 DEF ForwardStart
    <3> QED BY <3>1, <3>2
  <2> QED BY <2>1, <2>2
<1>5. UNCHANGED prepared /\ jobs' = js /\ result' = "ok"
  BY <1>4 DEF Pool!Start, Pool!cacheVars
<1>6. \A j \in DOMAIN jobs' : Len(jobs'[j].toks) <= prepared'[jobs'[j].seq]
  BY <1>3, <1>4, <1>5 DEF NeedOf
<1>7. pc' \notin Batching /\ pc' \notin Reserving
  BY <1>1 DEF Passing, Batching, Reserving
<1> QED BY <1>5, <1>6, <1>7 DEF ReserveOK

LEMMA ReserveStutter == ASSUME ReserveOK, UNCHANGED vars PROVE ReserveOK'
<1>1. UNCHANGED <<seqVars, genVars, items, k, ids, suffix, prepared, phase, jobs, result, pc>>
  BY DEF vars, poolVars, ctlVars
<1>2. PICK m : m = k
  OBVIOUS
<1>3. UNCHANGED slots /\ NeedOf(m)' = NeedOf(m) /\ (Granted(m)' <=> Granted(m))
  BY <1>1, SameNeeds
<1>4. NeedOf(k)' = NeedOf(k) /\ (Granted(k)' <=> Granted(k))
  BY <1>1, <1>2, <1>3 DEF NeedOf, Granted
<1> QED BY <1>1, <1>3, <1>4 DEF ReserveOK

(* Every other step is before the reservations or after the pass. *)
LEMMA OtherSteps ==
  ASSUME ModeOK, Next
  PROVE  \/ pc' \notin Batching \cup Passing
         \/ pc' \in {"batch", "forward"} /\ k' = 1
         \/ BatchSuffix \/ BatchPrepare \/ ForwardPrepare \/ BatchPrepared \/ ForwardPrepared
         \/ BatchStart \/ ForwardStart \/ PoolStep
<1> USE DEF Batching, Passing, Reserving
<1>1. ASSUME NEW r, Add(r) PROVE pc' \notin Batching \cup Passing
  BY <1>1 DEF Add, ctlVars
<1>2. ASSUME NEW s, Take(s) PROVE pc' \notin Batching \cup Passing
  BY <1>2 DEF Take, ctlVars
<1>3. ASSUME BeginStep \/ Retire \/ Admit PROVE pc' \notin Batching \cup Passing
  BY <1>3 DEF BeginStep, Retire, Admit, Goto
<1>4. ASSUME Collect
      PROVE  pc' \notin Batching \cup Passing \/ (pc' \in {"batch", "forward"} /\ k' = 1)
  BY <1>4 DEF Collect, GotoSerial, GotoBatch
<1>5. ASSUME Serial \/ SerialPrefill \/ SerialDone PROVE pc' \notin Batching \cup Passing
  BY <1>5 DEF Serial, SerialPrefill, SerialDone, Goto
<1>6. ASSUME SerialCap \/ BatchCap \/ ForwardCap PROVE pc' \notin Batching \cup Passing
  BY <1>6 DEF SerialCap, BatchCap, ForwardCap, OnCap
<1>7. ASSUME Replays \/ Retry \/ Sample
      PROVE  pc' \notin Batching \cup Passing \/ (pc' \in {"batch", "forward"} /\ k' = 1)
  <2>1. CASE Replays
    BY <2>1 DEF Replays, Goto
  <2>2. CASE Retry
    BY <2>2 DEF Retry, ModeOK, GotoSerial, GotoBatch
  <2>3. CASE Sample
    <3>1. k' = 1 /\ pc' = IF items' = <<>> THEN "idle" ELSE "forward"
      BY <2>3, Zenon DEF Sample
    <3> QED BY <3>1
  <2> QED BY <1>7, <2>1, <2>2, <2>3
<1>8. ASSUME BatchDone \/ ForwardDone PROVE pc' \notin Batching \cup Passing
  BY <1>8 DEF BatchDone, ForwardDone, Goto
<1> HIDE DEF Batching, Passing, Reserving
<1> QED BY <1>1, <1>2, <1>3, <1>4, <1>5, <1>6, <1>7, <1>8, Zenon DEF Next, StepOnce

LEMMA ReserveNext ==
  ASSUME Known, Known', P!Onward, ReserveOK, [Next]_vars
  PROVE  ReserveOK' /\ P!Onward'
<1>1. P!Onward'
  <2>1. P!Next \/ UNCHANGED P!vars
    BY LegalStep, SameNext, SameVars
  <2> QED BY <2>1, PoolAssumption, P!OnwardNext DEF Known
<1>2. CASE UNCHANGED vars
  BY <1>1, <1>2, ReserveStutter
<1>3. CASE Next
  <2>1. ModeOK
    BY DEF Known
  <2> QED BY <1>1, <1>3, <2>1, OtherSteps, ReserveQuiet, ReserveBegins, BatchSuffixReserves,
             PrepareReserves, PreparedReserves, PassReserves, PoolStepReserves, Zenon
<1> QED BY <1>2, <1>3


-----------------------------------------------------------------------------
(* What else the pool keeps, whoever calls it, it keeps in the engine. *)

PoolKnown == P!Legal /\ P!Onward /\ P!Small /\ P!Held

LEMMA PoolKnownNext == ASSUME Known, PoolKnown, [Next]_vars PROVE PoolKnown'
<1>1. P!Next \/ UNCHANGED P!vars
  BY LegalStep, SameNext, SameVars
<1>2. P!KvInv /\ P!Legal /\ P!Onward /\ P!Small /\ P!Held
  BY DEF Known, PoolKnown
<1>3. P!Legal'
  BY <1>1, <1>2, PoolAssumption, P!LegalNext
<1>4. P!Onward'
  BY <1>1, <1>2, PoolAssumption, P!OnwardNext
<1>5. P!Small'
  BY <1>1, <1>2, PoolAssumption, P!SmallNext
<1>6. P!Held'
  BY <1>1, <1>2, PoolAssumption, P!HeldNext
<1> QED BY <1>3, <1>4, <1>5, <1>6 DEF PoolKnown

LEMMA PoolKnownInit == Init => PoolKnown /\ ReserveOK
<1> SUFFICES ASSUME Init PROVE PoolKnown /\ ReserveOK
  OBVIOUS
<1>1. P!Init /\ pc = "idle"
  BY SameInit DEF Init
<1>2. P!Legal
  BY <1>1, PoolAssumption, P!InitRefines
<1>3. /\ byHash = <<>> /\ table = [s \in Id |-> <<>>] /\ ids = [s \in Id |-> <<>>]
      /\ phase = "idle" /\ result = "ok"
  BY <1>1 DEF P!Init
<1>4. P!TableMax \in Nat /\ MaxSeq \in Nat
  BY PoolAssumption, P!TableMaxBounds, EngineAssumption
<1>5. P!Onward /\ P!Small /\ P!Held
  BY <1>3, <1>4 DEF P!Onward, P!Small, P!Held
<1>6. ReserveOK
  BY <1>1 DEF ReserveOK, Batching, Reserving, Passing
<1> QED BY <1>2, <1>5, <1>6 DEF PoolKnown

-----------------------------------------------------------------------------
(* The engine gives up only when one sequence fills the pool. *)

SerialOK == pc = "serialCall" => k \in Occupied

LEMMA SerialNext == ASSUME Known, SerialOK, [Next]_vars PROVE SerialOK'
<1>1. Placed /\ CtlOK /\ ModeOK
  BY DEF Known, Calls
<1>2. CASE SerialPrefill
  BY <1>1, <1>2 DEF SerialPrefill, Goto, seqVars, CtlOK, SerialOK, Occupied
<1>3. CASE PoolStep \/ UNCHANGED vars
  BY <1>3 DEF PoolStep, vars, seqVars, ctlVars, SerialOK, Occupied
<1>4. ASSUME Next, ~SerialPrefill, ~PoolStep PROVE pc' # "serialCall"
  <2>1. ASSUME NEW r, Add(r) PROVE pc' # "serialCall"
    BY <2>1 DEF Add, ctlVars
  <2>2. ASSUME NEW s, Take(s) PROVE pc' # "serialCall"
    BY <2>2 DEF Take, ctlVars
  <2>3. CASE BeginStep \/ Retire \/ Admit \/ Collect \/ Serial \/ SerialDone \/ Replays
    BY <2>3 DEF BeginStep, Retire, Admit, Collect, Serial, SerialDone, Replays, Goto, GotoSerial,
                GotoBatch
  <2>4. CASE SerialCap \/ BatchCap \/ ForwardCap
    BY <2>4 DEF SerialCap, BatchCap, ForwardCap, OnCap
  <2>5. CASE BatchSuffix \/ BatchPrepare \/ BatchPrepared \/ BatchStart \/ BatchDone
    BY <2>5 DEF BatchSuffix, BatchPrepare, BatchPrepared, BatchStart, BatchDone, Goto
  <2>6. CASE ForwardPrepare \/ ForwardPrepared \/ ForwardStart \/ ForwardDone
    BY <2>6 DEF ForwardPrepare, ForwardPrepared, ForwardStart, ForwardDone, Goto
  <2>7. CASE Retry
    BY <1>1, <2>7 DEF Retry, ModeOK, GotoSerial, GotoBatch
  <2>8. CASE Sample
    <3>1. pc' = IF items' = <<>> THEN "idle" ELSE "forward"
      BY <2>8, Zenon DEF Sample
    <3> QED BY <3>1
  <2> QED BY <1>4, <2>1, <2>2, <2>3, <2>4, <2>5, <2>6, <2>7, <2>8, Zenon DEF Next, StepOnce
<1> QED BY <1>2, <1>3, <1>4 DEF SerialOK

(* The last call found the pool full. *)
Capped == result = "kv page cap"

LEMMA CappedFull ==
  ASSUME PoolKnown, Capped
  PROVE  P!Free = {} /\ P!Evictable = {}
BY DEF PoolKnown, P!Held, Capped

(* Nobody else holds a block, the pool has none to give, so all are in one table. *)
LEMMA ErrorFull ==
  ASSUME Known, PoolKnown, NEW i \in Occupied, Capped, Victims(i) = {}
  PROVE  \A b \in Pool!Block : b \in ToSet(table[slots[i]])
<1>1. Placed /\ P!KvInv /\ P!Held /\ live = Running
  BY DEF Known, PoolKnown, Placed, Apart
<1>2. P!Free = {} /\ P!Evictable = {} /\ \A s \in Id \ live : table[s] = <<>>
  BY <1>1, CappedFull DEF P!Held
<1>3. table \in [Id -> Seq(P!Block)] /\ ids \in [Id -> Seq(Token)]
  BY <1>1 DEF P!KvInv, P!IInv, P!Counted, P!TypeOK
<1>4. ASSUME NEW s \in Id, s # slots[i] PROVE Len(table[s]) = 0
  <2>1. CASE s \notin live
    <3>1. table[s] = <<>>
      BY <1>2, <2>1
    <3> QED BY <3>1
  <2>2. CASE s \in live
    <3>1. PICK j \in Occupied : slots[j] = s
      BY <1>1, <2>2 DEF Running
    <3>2. Holds(j) = <<0, 0>>
      BY <1>4, <3>1 DEF Victims
    <3> QED BY <3>1, <3>2 DEF Holds
  <2> QED BY <2>1, <2>2
<1>5. SUFFICES ASSUME NEW b \in Pool!Block PROVE b \in ToSet(table[slots[i]])
  OBVIOUS
<1>6. b \in P!Block
  BY SameParts
<1>7. PICK s \in Id : \E n \in 1 .. Len(table[s]) : table[s][n] = b
  BY <1>1, <1>2, <1>6, PoolAssumption, P!SpentNamed
<1>8. PICK n \in 1 .. Len(table[s]) : table[s][n] = b
  BY <1>7
<1>9. s = slots[i]
  <2>1. Len(table[s]) \in Nat /\ n \in Nat /\ 1 <= n /\ n <= Len(table[s])
    BY <1>3, <1>8, LenProperties
  <2> QED BY <1>4, <2>1
<1>10. table[s] \in Seq(P!Block)
  BY <1>3
<1>11. n \in DOMAIN table[s]
  BY <1>8, <1>10, LenProperties
<1> QED BY <1>8, <1>9, <1>11 DEF ToSet

(* Steps that end in the error. *)
LEMMA ErrorSteps ==
  ASSUME Known, Next, pc' = "error"
  PROVE  SerialCap \/ BatchCap \/ ForwardCap
<1>1. CtlOK /\ ModeOK
  BY DEF Known, Calls
<1>2. ASSUME NEW r, Add(r) PROVE FALSE
  BY <1>2 DEF Add, ctlVars
<1>3. ASSUME NEW s, Take(s) PROVE FALSE
  BY <1>3 DEF Take, ctlVars
<1>4. ASSUME BeginStep \/ Retire \/ Admit \/ Collect \/ Serial \/ SerialPrefill \/ SerialDone \/ Replays
      PROVE  FALSE
  BY <1>4 DEF BeginStep, Retire, Admit, Collect, Serial, SerialPrefill, SerialDone, Replays, Goto,
              GotoSerial, GotoBatch
<1>5. ASSUME BatchSuffix \/ BatchPrepare \/ BatchPrepared \/ BatchStart \/ BatchDone PROVE FALSE
  BY <1>5 DEF BatchSuffix, BatchPrepare, BatchPrepared, BatchStart, BatchDone, Goto
<1>6. ASSUME ForwardPrepare \/ ForwardPrepared \/ ForwardStart \/ ForwardDone PROVE FALSE
  BY <1>6 DEF ForwardPrepare, ForwardPrepared, ForwardStart, ForwardDone, Goto
<1>7. ASSUME Retry PROVE FALSE
  BY <1>1, <1>7 DEF Retry, ModeOK, GotoSerial, GotoBatch
<1>8. ASSUME Sample PROVE FALSE
  <2>1. pc' = IF items' = <<>> THEN "idle" ELSE "forward"
    BY <1>8, Zenon DEF Sample
  <2> QED BY <2>1
<1>9. ASSUME PoolStep PROVE FALSE
  <2>1. pc = "error" /\ phase # "idle"
    BY <1>9 DEF PoolStep, ctlVars, Pool!CallStep, Pool!FullError, Pool!Fault, Pool!Cow, Pool!CapError,
       Pool!Reserved, Pool!NextJob, Pool!Transformer, Pool!TransformerError, Pool!Commit
  <2> QED BY <1>1, <2>1 DEF CtlOK, CallPcs
<1> QED BY <1>2, <1>3, <1>4, <1>5, <1>6, <1>7, <1>8, <1>9, Zenon DEF Next, StepOnce

LEMMA FullNext ==
  ASSUME Known, PoolKnown, ReserveOK, SerialOK, FailsOnlyFull, [Next]_vars
  PROVE  FailsOnlyFull'
<1>1. CASE UNCHANGED vars
  BY <1>1 DEF vars, poolVars, seqVars, ctlVars, FailsOnlyFull, Running, Occupied, Pool!Block
<1>2. ASSUME Next, pc' = "error" PROVE \E s \in Running' : \A b \in Pool!Block : b \in ToSet(table'[s])
  <2>1. Placed /\ CtlOK
    BY DEF Known, Calls
  <2>2. PICK i : /\ i \in Occupied /\ Capped /\ Victims(i) = {}
                 /\ UNCHANGED <<poolVars, seqVars>>
    <3>1. CASE SerialCap
      BY <1>2, <3>1 DEF SerialCap, OnCap, Ended, SerialOK, Capped
    <3>2. CASE BatchCap
      <4>1. k \in DOMAIN items /\ Serves(items[k])
        BY <2>1, <3>2 DEF BatchCap, CtlOK
      <4>2. items[k] \in Occupied
        BY <4>1 DEF Serves, IsPrefill, SlotBatchable, IsDecode
      <4> QED BY <1>2, <3>2, <4>2 DEF BatchCap, OnCap, Ended, Capped
    <3>3. CASE ForwardCap
      <4>1. k \in DOMAIN items /\ SlotBatchable(items[k])
        BY <2>1, <3>3 DEF ForwardCap, CtlOK, ReserveOK, Reserving
      <4>2. items[k] \in Occupied
        BY <4>1 DEF SlotBatchable, IsDecode
      <4> QED BY <1>2, <3>3, <4>2 DEF ForwardCap, OnCap, Ended, Capped
    <3> QED BY <1>2, <3>1, <3>2, <3>3, ErrorSteps
  <2>3. slots[i] \in Running /\ \A b \in Pool!Block : b \in ToSet(table[slots[i]])
    BY <2>2, ErrorFull DEF Running
  <2>4. Running' = Running /\ table' = table
    BY <2>2 DEF poolVars, seqVars, Running, Occupied
  <2> QED BY <2>3, <2>4
<1>3. (Pool!Block)' = Pool!Block
  BY DEF Pool!Block
<1> QED BY <1>1, <1>2, <1>3 DEF FailsOnlyFull


-----------------------------------------------------------------------------
(* A pool with a block to spare. *)

(* With one block more than the tables of all slots can name, no call ever meets a full
   pool: two of them would be the same entry of a table. *)
LEMMA SpareNeverCaps ==
  ASSUME Known, PoolKnown, Cap > MaxSlots * Pool!TableMax
  PROVE  NeverCaps
<1>0. Placed /\ P!KvInv /\ P!Held /\ P!Small /\ live = Running
  BY DEF Known, PoolKnown, Placed, Apart
<1> SUFFICES ASSUME Capped PROVE FALSE
  BY DEF NeverCaps, Capped
<1>1. P!Free = {} /\ P!Evictable = {} /\ \A s \in Id \ live : table[s] = <<>>
  BY <1>0, CappedFull DEF P!Held
<1>2. table \in [Id -> Seq(P!Block)]
  BY <1>0 DEF P!KvInv, P!IInv, P!Counted, P!TypeOK
<1>3. PICK M \in Nat : M = P!TableMax /\ M = Pool!TableMax
  BY PoolAssumption, P!TableMaxBounds DEF P!TableMax, Pool!TableMax
<1>4. /\ MaxSlots \in Nat /\ Cap \in Nat /\ Cap > MaxSlots * M /\ Cap > 0
  BY <1>3, EngineAssumption
<1> DEFINE Place == Slot \X (1 .. M)
<1>5. ASSUME NEW b \in P!Block
      PROVE  \E e \in Place : slots[e[1]] \in Id /\ e[2] \in 1 .. Len(table[slots[e[1]]]) /\ table[slots[e[1]]][e[2]] = b
  <2>1. PICK s \in Id : \E n \in 1 .. Len(table[s]) : table[s][n] = b
    BY <1>0, <1>1, PoolAssumption, P!SpentNamed
  <2>2. PICK n \in 1 .. Len(table[s]) : table[s][n] = b
    BY <2>1
  <2>3. Len(table[s]) \in Nat /\ n \in Nat /\ 1 <= n /\ n <= Len(table[s]) /\ Len(table[s]) <= M
    BY <1>0, <1>2, <1>3, <2>2, LenProperties DEF P!Small
  <2>4. s \in live
    <3>1. CASE s \notin live
      <4>1. table[s] = <<>>
        BY <1>1, <3>1
      <4>2. Len(table[s]) = 0
        BY <4>1
      <4> QED BY <2>3, <4>2
    <3> QED BY <3>1
  <2>5. PICK i \in Slot : slots[i] = s
    BY <1>0, <2>4 DEF Running, Occupied
  <2>6. <<i, n>> \in Place
    BY <1>3, <2>3, <2>5
  <2> QED BY <2>2, <2>5, <2>6
<1> DEFINE Of(b) == CHOOSE e \in Place : slots[e[1]] \in Id /\ e[2] \in 1 .. Len(table[slots[e[1]]]) /\ table[slots[e[1]]][e[2]] = b
           f == [b \in P!Block |-> Of(b)]
<1>6. ASSUME NEW b \in P!Block PROVE Of(b) \in Place /\ table[slots[Of(b)[1]]][Of(b)[2]] = b
  BY <1>5
<1>7. f \in [P!Block -> Place]
  BY <1>6
<1>8. IsFiniteSet(P!Block) /\ Cardinality(P!Block) = Cap
  <2>1. P!Block = 0 .. Cap - 1
    BY DEF P!Block
  <2>2. 0 \in Int /\ Cap - 1 \in Int /\ (Cap - 1) - 0 + 1 = Cap /\ 0 <= Cap - 1
    BY <1>4
  <2> QED BY <2>1, <2>2, FS_Interval
<1>9. IsFiniteSet(Place) /\ Cardinality(Place) = MaxSlots * M
  <2>1. IsFiniteSet(Slot) /\ Cardinality(Slot) = MaxSlots
    BY <1>4, FS_Interval DEF Slot
  <2>2. IsFiniteSet(1 .. M) /\ Cardinality(1 .. M) = M
    BY <1>3, FS_Interval
  <2> QED BY <2>1, <2>2, FS_Product
<1>10. Cardinality(Place) < Cardinality(P!Block)
  <2>1. PICK x \in Nat : x = MaxSlots * M
    BY <1>3, <1>4
  <2> QED BY <1>4, <1>8, <1>9, <2>1
<1>11. PICK x \in P!Block, y \in P!Block : x # y /\ f[x] = f[y]
  <2> HIDE DEF Place, f
  <2> QED BY <1>7, <1>8, <1>9, <1>10, FS_PigeonHole
<1>12. Of(x) = Of(y)
  BY <1>11
<1> HIDE DEF Of
<1> QED BY <1>6, <1>11, <1>12

=============================================================================
