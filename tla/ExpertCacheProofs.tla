-------------------------- MODULE ExpertCacheProofs --------------------------
(***************************************************************************)
(* For every catalogue, capacity, routing, plan and pin list: the recency   *)
(* list of ExpertCache is exact, leases last as long as their product, an   *)
(* expert that is wanted finds room, and a kept-hot expert stays.           *)
(*                                                                         *)
(* The inductive invariant is IInv: RecencyExact and LeaseScoped need the   *)
(* list to name a key once (Listed), DemandServed needs the pins to stay    *)
(* within their budget (PinsFit).                                           *)
(***************************************************************************)
EXTENDS ExpertCache, FiniteSetTheorems, SequenceTheorems, WellFoundedInduction, TLAPS

-----------------------------------------------------------------------------
(* Sequences that name an element once. *)

Once(s) == \A i, j \in DOMAIN s : i # j => s[i] # s[j]

(* Taking one place out of a sequence moves the places behind it up. *)
LEMMA RemoveAtPlaces ==
  ASSUME NEW S, NEW s \in Seq(S), NEW i \in 1 .. Len(s)
  PROVE  /\ RemoveAt(s, i) \in Seq(S) /\ Len(RemoveAt(s, i)) = Len(s) - 1
         /\ \A j \in 1 .. Len(s) - 1 : RemoveAt(s, i)[j] = s[IF j < i THEN j ELSE j + 1]
<1> DEFINE a == SubSeq(s, 1, i - 1)
           b == SubSeq(s, i + 1, Len(s))
<1>1. Len(s) \in Nat /\ i \in Int /\ \A j \in 1 .. Len(s) : s[j] \in S
  BY LenProperties, ElementOfSeq
<1>2. a \in Seq(S) /\ Len(a) = i - 1 /\ \A j \in 1 .. i - 1 : a[j] = s[j]
  BY <1>1, SubSeqProperties
<1>3. b \in Seq(S) /\ Len(b) = Len(s) - i /\ \A j \in 1 .. Len(s) - i : b[j] = s[i + j]
  BY <1>1, SubSeqProperties
<1>4. RemoveAt(s, i) = a \o b
  BY DEF RemoveAt
<1> HIDE DEF a, b
<1>c. /\ a \o b \in Seq(S) /\ Len(a \o b) = Len(a) + Len(b)
      /\ \A j \in 1 .. Len(a) + Len(b) : (a \o b)[j] = IF j <= Len(a) THEN a[j] ELSE b[j - Len(a)]
  BY <1>2, <1>3, ConcatProperties
<1>d. Len(a) + Len(b) = Len(s) - 1
  BY <1>1, <1>2, <1>3
<1>5. /\ a \o b \in Seq(S) /\ Len(a \o b) = Len(s) - 1
      /\ \A j \in 1 .. Len(s) - 1 : (a \o b)[j] = IF j <= i - 1 THEN a[j] ELSE b[j - (i - 1)]
  BY <1>2, <1>c, <1>d
<1>6. ASSUME NEW j \in 1 .. Len(s) - 1
      PROVE (a \o b)[j] = s[IF j < i THEN j ELSE j + 1]
  <2>1. CASE j < i
    BY <1>1, <1>2, <1>5, <2>1
  <2>2. CASE ~(j < i)
    <3>1. j - (i - 1) \in 1 .. Len(s) - i /\ i + (j - (i - 1)) = j + 1
      BY <1>1, <2>2
    <3> QED BY <1>1, <1>3, <1>5, <2>2, <3>1
  <2> QED BY <2>1, <2>2
<1> QED BY <1>4, <1>5, <1>6

(* The only place of e taken out of s leaves the rest of s, still once. *)
LEMMA RemoveOnly ==
  ASSUME NEW S, NEW s \in Seq(S), Once(s), NEW i \in 1 .. Len(s)
  PROVE  /\ RemoveAt(s, i) \in Seq(S) /\ Once(RemoveAt(s, i))
         /\ ToSet(RemoveAt(s, i)) = ToSet(s) \ {s[i]}
<1> DEFINE r == RemoveAt(s, i)
<1>1. /\ r \in Seq(S) /\ Len(r) = Len(s) - 1 /\ Len(s) \in Nat
      /\ \A j \in 1 .. Len(s) - 1 : r[j] = s[IF j < i THEN j ELSE j + 1]
      /\ DOMAIN r = 1 .. Len(s) - 1 /\ DOMAIN s = 1 .. Len(s)
  BY RemoveAtPlaces, LenProperties
<1> HIDE DEF r
<1>2. Once(r)
  <2> SUFFICES ASSUME NEW j \in 1 .. Len(s) - 1, NEW k \in 1 .. Len(s) - 1, j # k
               PROVE r[j] # r[k]
    BY <1>1 DEF Once
  <2> DEFINE at(n) == IF n < i THEN n ELSE n + 1
  <2>1. at(j) \in DOMAIN s /\ at(k) \in DOMAIN s /\ at(j) # at(k)
    BY <1>1
  <2>2. r[j] = s[at(j)] /\ r[k] = s[at(k)]
    BY <1>1
  <2> HIDE DEF at
  <2> QED BY <2>1, <2>2 DEF Once
<1>3. ToSet(r) \subseteq ToSet(s) \ {s[i]}
  <2>1. ASSUME NEW j \in 1 .. Len(s) - 1
        PROVE \E k \in 1 .. Len(s) : k # i /\ r[j] = s[k]
    BY <1>1
  <2>2. \A k \in 1 .. Len(s) : k # i => s[k] # s[i]
    BY <1>1 DEF Once
  <2>3. ToSet(r) = {r[j] : j \in 1 .. Len(s) - 1} /\ ToSet(s) = {s[k] : k \in 1 .. Len(s)}
    BY <1>1 DEF ToSet
  <2> QED BY <2>1, <2>2, <2>3
<1>4. ASSUME NEW k \in 1 .. Len(s), k # i PROVE s[k] \in ToSet(r)
  <2>1. CASE k < i
    BY <1>1, <2>1 DEF ToSet
  <2>2. CASE k > i
    <3>1. k - 1 \in 1 .. Len(s) - 1 /\ ~(k - 1 < i) /\ (k - 1) + 1 = k
      BY <1>1, <2>2
    <3>2. r[k - 1] = s[k]
      BY <1>1, <3>1
    <3> QED BY <1>1, <3>1, <3>2 DEF ToSet
  <2> QED BY <1>1, <1>4, <2>1, <2>2
<1>5. ToSet(s) \ {s[i]} \subseteq ToSet(r)
  BY <1>1, <1>4 DEF ToSet
<1> QED BY <1>1, <1>2, <1>3, <1>5 DEF r

(* A new element at the end. *)
LEMMA AppendNew ==
  ASSUME NEW S, NEW s \in Seq(S), Once(s), NEW e \in S, e \notin ToSet(s)
  PROVE  /\ Append(s, e) \in Seq(S) /\ Once(Append(s, e))
         /\ ToSet(Append(s, e)) = ToSet(s) \cup {e}
<1> DEFINE r == Append(s, e)
<1>1. /\ r \in Seq(S) /\ Len(r) = Len(s) + 1 /\ Len(s) \in Nat
      /\ \A j \in 1 .. Len(s) : r[j] = s[j]
      /\ r[Len(s) + 1] = e
      /\ DOMAIN r = 1 .. Len(s) + 1 /\ DOMAIN s = 1 .. Len(s)
  BY AppendProperties, LenProperties
<1> HIDE DEF r
<1>2. \A j \in 1 .. Len(s) : s[j] # e
  BY <1>1 DEF ToSet
<1>3. Once(r)
  BY <1>1, <1>2 DEF Once
<1>4. ToSet(r) = ToSet(s) \cup {e}
  BY <1>1 DEF ToSet
<1> QED BY <1>1, <1>3, <1>4 DEF r

(* A sequence that names every element of a set once is as long as the set. *)
LEMMA OnceCounts ==
  ASSUME NEW S, NEW s \in Seq(S), Once(s)
  PROVE  IsFiniteSet(ToSet(s)) /\ Cardinality(ToSet(s)) = Len(s)
<1>1. Len(s) \in Nat /\ DOMAIN s = 1 .. Len(s)
  BY LenProperties
<1>2. IsFiniteSet(1 .. Len(s)) /\ Cardinality(1 .. Len(s)) = Len(s)
  BY <1>1, FS_Interval
<1>3. ExistsBijection(1 .. Len(s), ToSet(s))
  <2>1. s \in [1 .. Len(s) -> ToSet(s)] /\ \A e \in ToSet(s) : \E i \in 1 .. Len(s) : s[i] = e
    BY <1>1 DEF ToSet
  <2>2. \A i, j \in 1 .. Len(s) : s[i] = s[j] => i = j
    BY <1>1 DEF Once
  <2> QED BY <2>1, <2>2 DEF ExistsBijection, Bijection, Injection, Surjection, IsInjective
<1> QED BY <1>2, <1>3, FS_Bijection

(* A set of naturals has its minimum. *)
LEMMA MinIn ==
  ASSUME NEW T, T \subseteq Nat, T # {}
  PROVE  Min(T) \in T
<1> DEFINE R == OpToRel(<, Nat)
<1>1. ASSUME NEW x \in Nat, NEW y \in Nat, y < x PROVE <<y, x>> \in R
  <2>1. <<y, x>> \in Nat \X Nat /\ <<y, x>>[1] = y /\ <<y, x>>[2] = x
    OBVIOUS
  <2> QED BY <1>1, <2>1, Zenon DEF OpToRel
<1>2. IsWellFoundedOn(R, Nat)
  BY NatLessThanWellFounded
<1> HIDE DEF R
<1>3. PICK m \in T : \A y \in T : ~(<<y, m>> \in R)
  BY <1>2, WFMin
<1>4. ASSUME NEW y \in T PROVE m <= y
  <2>1. y \in Nat /\ m \in Nat /\ ~(<<y, m>> \in R)
    BY <1>3
  <2>2. ~(y < m)
    BY <1>1, <2>1, Zenon
  <2> QED BY <2>1, <2>2
<1> QED BY <1>4 DEF Min

-----------------------------------------------------------------------------
(* The invariant. *)

Group == Seq(Catalog \cup Unknown) \ {<<>>}

Listed ==
  /\ resident \subseteq Catalog
  /\ recency \in Seq(Catalog) /\ Once(recency) /\ ToSet(recency) = resident
  /\ leased \cup pinned \subseteq resident

WithinSlots == Cardinality(resident) <= Slots

PinsFit == Cardinality(pinned) <= Budget

CallOK ==
  /\ pc \in {"idle", "prefetch", "predict", "experts", "compute", "layer", "pin", "pins"}
  /\ routed \subseteq Catalog
  /\ queue \in Seq(Group)
  /\ pc \in {"prefetch", "predict"} => routed # {}
  /\ pc = "compute" => queue # <<>>

IInv == Listed /\ WithinSlots /\ PinsFit /\ LeaseScoped /\ CallOK

LEMMA Finite ==
  ASSUME NEW S, S \subseteq Catalog
  PROVE  IsFiniteSet(S) /\ Cardinality(S) \in Nat
  BY FS_Subset, FS_CardinalityType, CacheAssumption

(* The fast tier is exact. *)
LEMMA ListedExact ==
  ASSUME Listed PROVE RecencyExact
  BY OnceCounts DEF Listed, RecencyExact

LEMMA InvImpliesTypes ==
  ASSUME IInv PROVE TypeOK
  BY DEF IInv, Listed, WithinSlots, CallOK, TypeOK, Group

(* Unless a product is running, the pins alone are held, and they are fewer than
   the slots. *)
LEMMA InvImpliesServed ==
  ASSUME IInv PROVE DemandServed
<1> SUFFICES ASSUME pc # "compute", Stuck PROVE FALSE
  BY DEF DemandServed
<1> USE DEF IInv
<1>1. leased = {}
  BY DEF LeaseScoped
<1>2. resident \subseteq pinned
  BY <1>1 DEF Stuck, Held, Listed
<1>3. resident = pinned
  BY <1>2 DEF Listed
<1>4. Cardinality(resident) \in Nat /\ ~(Cardinality(resident) < Slots)
  BY Finite DEF Stuck, Room, Listed
<1> QED BY <1>3, <1>4, CacheAssumption DEF PinsFit, Budget

-----------------------------------------------------------------------------
(* Steps of the store. *)

(* Giving up a listed key. *)
LEMMA WithoutListed ==
  ASSUME Listed, NEW e \in resident
  PROVE  /\ Without(e) \in Seq(Catalog) /\ Once(Without(e))
         /\ ToSet(Without(e)) = resident \ {e}
<1> DEFINE i == CHOOSE n \in DOMAIN recency : recency[n] = e
<1>1. recency \in Seq(Catalog) /\ Once(recency) /\ ToSet(recency) = resident
      /\ DOMAIN recency = 1 .. Len(recency)
  BY LenProperties DEF Listed
<1>2. i \in 1 .. Len(recency) /\ recency[i] = e
  BY <1>1 DEF ToSet
<1>3. Without(e) = RemoveAt(recency, i)
  BY DEF Without
<1> HIDE DEF i
<1> QED BY <1>1, <1>2, <1>3, RemoveOnly

(* The key evicted is resident and not held. *)
LEMMA VictimFree ==
  ASSUME Listed, ~Stuck, ~Room
  PROVE  Victim \in resident \ (leased \cup pinned)
<1> DEFINE T == {i \in DOMAIN recency : ~Held(recency[i])}
<1>1. DOMAIN recency = 1 .. Len(recency) /\ Len(recency) \in Nat
  BY LenProperties DEF Listed
<1>2. T # {} /\ T \subseteq Nat
  BY <1>1 DEF Stuck, ToSet
<1>3. Min(T) \in T
  BY <1>2, MinIn
<1>4. Victim = recency[Min(T)]
  BY DEF Victim
<1> HIDE DEF T
<1>5. Victim \in ToSet(recency) /\ ~Held(Victim)
  BY <1>3, <1>4 DEF ToSet, T
<1> QED BY <1>5 DEF Held, Listed

(* A key loaded, or one lost to a load that failed. *)
LEMMA FaultInListed ==
  ASSUME Listed, WithinSlots, ~Stuck, NEW e, e \notin resident, NEW loads \in BOOLEAN,
         FaultIn(e, loads)
  PROVE  /\ resident' \subseteq Catalog
         /\ recency' \in Seq(Catalog) /\ Once(recency') /\ ToSet(recency') = resident'
         /\ leased \cup pinned \subseteq resident' /\ (loads <=> e \in resident')
         /\ WithinSlots'
<1> DEFINE kept == IF Room THEN recency ELSE Without(Victim)
           left == IF Room THEN resident ELSE resident \ {Victim}
<1>1. kept \in Seq(Catalog) /\ Once(kept) /\ ToSet(kept) = left
      /\ leased \cup pinned \subseteq left /\ left \subseteq resident
  <2>1. CASE Room
    BY <2>1 DEF Listed
  <2>2. CASE ~Room
    BY <2>2, VictimFree, WithoutListed DEF Listed
  <2> QED BY <2>1, <2>2
<1>2. left \subseteq Catalog /\ e \notin left
  BY <1>1 DEF Listed
<1>s. \/ Room /\ left = resident
      \/ ~Room /\ left = resident \ {Victim}
  OBVIOUS
<1>k. /\ loads => e \in Catalog
      /\ recency' = IF loads THEN Append(kept, e) ELSE kept
      /\ resident' = ToSet(kept) \cup (IF loads THEN {e} ELSE {})
  BY DEF FaultIn, Load
<1> HIDE DEF kept, left
<1>3. IsFiniteSet(left) /\ Cardinality(left) \in Nat /\ Cardinality(left) + 1 <= Slots
  <2>1. CASE Room
    <3>1. IsFiniteSet(left) /\ Cardinality(left) \in Nat /\ left = resident
      BY <1>2, <1>s, <2>1, Finite
    <3> QED BY <2>1, <3>1, CacheAssumption DEF Room
  <2>2. CASE ~Room
    <3>1. Victim \in resident /\ resident \subseteq Catalog
      BY <2>2, VictimFree DEF Listed
    <3>2. Cardinality(resident \ {Victim}) = Cardinality(resident) - 1
      BY <3>1, Finite, FS_RemoveElement
    <3>3. left = resident \ {Victim}
      BY <1>s, <2>2
    <3>4. IsFiniteSet(left) /\ Cardinality(left) \in Nat /\ Cardinality(resident) \in Nat
      BY <1>2, <3>1, Finite
    <3> QED BY <3>2, <3>3, <3>4, CacheAssumption DEF WithinSlots
  <2> QED BY <2>1, <2>2
<1>5. CASE loads
  <2>1. recency' \in Seq(Catalog) /\ Once(recency') /\ ToSet(recency') = left \cup {e}
    BY <1>1, <1>2, <1>k, <1>5, AppendNew
  <2>2. resident' = left \cup {e} /\ resident' \subseteq Catalog
    BY <1>1, <1>2, <1>k, <1>5
  <2>3. Cardinality(left \cup {e}) = Cardinality(left) + 1
    BY <1>2, <1>3, FS_AddElement
  <2> QED BY <1>1, <1>3, <1>5, <2>1, <2>2, <2>3 DEF WithinSlots
<1>6. CASE ~loads
  <2>1. recency' = kept /\ resident' = left
    BY <1>1, <1>k, <1>6
  <2> QED BY <1>1, <1>2, <1>3, <1>6, <2>1, CacheAssumption DEF WithinSlots
<1> QED BY <1>5, <1>6

(* A hit. *)
LEMMA TouchListed ==
  ASSUME Listed, WithinSlots, NEW e \in resident, Touch(e), UNCHANGED <<resident, pinned>>,
         leased' \subseteq leased \cup {e}
  PROVE  Listed' /\ WithinSlots'
<1>1. Without(e) \in Seq(Catalog) /\ Once(Without(e)) /\ ToSet(Without(e)) = resident \ {e}
  BY WithoutListed
<1>2. e \in Catalog /\ recency' = Append(Without(e), e)
  BY DEF Listed, Touch
<1>3. recency' \in Seq(Catalog) /\ Once(recency') /\ ToSet(recency') = (resident \ {e}) \cup {e}
  BY <1>1, <1>2, AppendNew
<1> QED BY <1>3 DEF Listed, WithinSlots

(* The keys still to go through. *)
LEMMA QueueParts ==
  ASSUME queue \in Seq(Group), queue # <<>>
  PROVE  Key \in Catalog \cup Unknown /\ Rest \in Seq(Group) /\ Tail(queue) \in Seq(Group)
<1>1. Head(queue) \in Group /\ Tail(queue) \in Seq(Group)
  BY HeadTailProperties
<1>2. Head(queue) \in Seq(Catalog \cup Unknown) /\ Head(queue) # <<>>
  BY <1>1 DEF Group
<1>3. /\ Key \in Catalog \cup Unknown /\ Tail(Head(queue)) \in Seq(Catalog \cup Unknown)
      /\ Len(Tail(Head(queue))) = Len(Head(queue)) - 1
  BY <1>2, HeadTailProperties DEF Key
<1>4. CASE Len(Head(queue)) = 1
  BY <1>1, <1>3, <1>4 DEF Rest
<1>5. CASE Len(Head(queue)) # 1
  <2>1. Len(Head(queue)) \in Nat \ {0} /\ Len(<<>>) = 0
    BY <1>2, EmptySeq
  <2> DEFINE h == Head(queue)
             t == Tail(h)
  <2>h. Len(h) # 1 /\ Len(h) \in Nat \ {0} /\ Len(t) = Len(h) - 1
    BY <1>3, <1>5, <2>1
  <2> HIDE DEF t
  <2>z. Len(t) # 0
    BY <2>h
  <2>t. t # <<>>
    BY <2>1, <2>z, Zenon
  <2>n. Tail(Head(queue)) # <<>>
    BY <2>t DEF t
  <2>2. <<Tail(Head(queue))>> \in Seq(Group)
    BY <1>3, <2>n DEF Group
  <2>3. Rest = <<Tail(Head(queue))>> \o Tail(queue)
    BY <1>5 DEF Rest
  <2> QED BY <1>1, <1>3, <2>2, <2>3, ConcatProperties
<1> QED BY <1>4, <1>5

(* The choice of a layer, one key after the other. *)
LEMMA OrderTyped ==
  ASSUME routed \subseteq Catalog, routed # {}, NEW order \in SetToSeqs(routed)
  PROVE  <<order>> \in Seq(Group)
<1> DEFINE n == Cardinality(routed)
<1>1. IsFiniteSet(routed) /\ n \in Nat
  BY Finite
<1>2. n # 0
  BY <1>1, FS_EmptySet
<1>3. order \in [1 .. n -> routed]
  BY DEF SetToSeqs
<1> HIDE DEF n
<1>4. order \in Seq(Catalog \cup Unknown)
  BY <1>1, <1>3
<1>5. DOMAIN order # {} /\ DOMAIN <<>> = {}
  BY <1>1, <1>2, <1>3
<1>6. order # <<>>
  BY <1>5, Zenon
<1> QED BY <1>4, <1>6 DEF Group

-----------------------------------------------------------------------------
(* Every step preserves the invariant.  The steps that leave the store alone
   need the control only. *)

LEMMA InitInv == Init => IInv
<1> SUFFICES ASSUME Init PROVE IInv
  OBVIOUS
<1> USE DEF Init
<1>1. Listed
  BY DEF Listed, Once, ToSet
<1>2. WithinSlots /\ PinsFit
  BY FS_EmptySet, CacheAssumption DEF WithinSlots, PinsFit, Budget
<1>3. LeaseScoped /\ CallOK
  BY DEF LeaseScoped, CallOK
<1> QED BY <1>1, <1>2, <1>3 DEF IInv

(* A step that leaves the store alone. *)
LEMMA StoreKept ==
  ASSUME IInv, UNCHANGED storeVars, CallOK', pc' # "compute", pc # "compute"
  PROVE  IInv'
  BY DEF IInv, storeVars, Listed, WithinSlots, PinsFit, Budget, LeaseScoped

LEMMA RouteInv ==
  ASSUME IInv, NEW groups \in Routes, Route(groups) PROVE IInv'
<1> USE DEF IInv, Route
<1>1. groups \in Seq(Seq(Catalog) \ {<<>>}) /\ groups # <<>>
  BY CacheAssumption
<1>2. /\ groups \in Seq(Group)
      /\ Len(groups) \in Nat \ {0} /\ DOMAIN groups = 1 .. Len(groups)
      /\ \A i \in DOMAIN groups : groups[i] \in Seq(Catalog) \ {<<>>}
  <2>1. groups \in Seq(Group)
    BY <1>1, SeqMonotonic DEF Group
  <2> QED BY <1>1, <2>1, LenProperties, EmptySeq, ElementOfSeq
<1>3. Keys(groups) \subseteq Catalog
  BY <1>2, RangeOfSeq DEF Keys, ToSet
<1>4. Keys(groups) # {}
  <2>1. groups[1] \in Seq(Catalog) \ {<<>>} /\ 1 \in DOMAIN groups
    BY <1>2
  <2>2. Len(groups[1]) \in Nat \ {0} /\ DOMAIN groups[1] = 1 .. Len(groups[1])
    BY <2>1, EmptySeq, LenProperties
  <2>3. groups[1][1] \in ToSet(groups[1])
    BY <2>2 DEF ToSet
  <2> QED BY <2>1, <2>3 DEF Keys
<1>5. \A plan \in Plans : plan \in Seq(Group)
  BY CacheAssumption DEF Group
<1>6. CallOK'
  BY <1>2, <1>3, <1>4, <1>5 DEF CallOK
<1> QED BY <1>6, StoreKept DEF CallOK

LEMMA PrefetchInv ==
  ASSUME IInv, NEW loads \in BOOLEAN, Prefetch(loads) PROVE IInv'
<1> USE DEF IInv, Prefetch
<1>1. Key \in Catalog \cup Unknown /\ Rest \in Seq(Group) /\ Tail(queue) \in Seq(Group)
  BY QueueParts DEF CallOK
<1>2. CallOK' /\ PinsFit' /\ LeaseScoped'
  BY <1>1 DEF CallOK, PinsFit, Budget, LeaseScoped
<1>3. Listed' /\ WithinSlots'
  <2>1. CASE Key \in resident \/ Key \notin Catalog \/ Stuck
    BY <2>1 DEF Listed, WithinSlots
  <2>2. CASE ~(Key \in resident \/ Key \notin Catalog \/ Stuck)
    <3>1. FaultIn(Key, loads) /\ UNCHANGED <<leased, pinned>>
      BY <2>2
    <3>2. /\ resident' \subseteq Catalog
          /\ recency' \in Seq(Catalog) /\ Once(recency') /\ ToSet(recency') = resident'
          /\ leased \cup pinned \subseteq resident' /\ WithinSlots'
      BY <2>2, <3>1, FaultInListed
    <3> QED BY <3>1, <3>2 DEF Listed
  <2> QED BY <2>1, <2>2
<1> QED BY <1>2, <1>3

LEMMA AcquireInv ==
  ASSUME IInv, NEW loads \in BOOLEAN, Acquire(loads) PROVE IInv'
<1> USE DEF IInv, Acquire
<1>1. leased = {} /\ Key' = Key
  BY DEF LeaseScoped, Key
<1>2. CallOK' /\ PinsFit' /\ LeaseScoped'
  BY <1>1 DEF CallOK, PinsFit, Budget, LeaseScoped
<1>3. Listed' /\ WithinSlots'
  <2>1. CASE Key \in resident
    BY <2>1, TouchListed
  <2>2. CASE Key \notin resident /\ Stuck
    BY <2>2 DEF Listed, WithinSlots
  <2>3. CASE Key \notin resident /\ ~Stuck
    <3>1. FaultIn(Key, loads) /\ pinned' = pinned
          /\ leased' = IF Key \in resident' THEN leased \cup {Key} ELSE leased
      BY <2>3
    <3> HIDE DEF Acquire
    <3>2. /\ resident' \subseteq Catalog
          /\ recency' \in Seq(Catalog) /\ Once(recency') /\ ToSet(recency') = resident'
          /\ leased \cup pinned \subseteq resident' /\ WithinSlots'
      BY <2>3, <3>1, FaultInListed
    <3> QED BY <3>1, <3>2 DEF Listed
  <2> QED BY <2>1, <2>2, <2>3
<1> QED BY <1>2, <1>3

LEMMA ComputeInv ==
  ASSUME IInv, NEW succeeds \in BOOLEAN, Compute(succeeds) PROVE IInv'
<1> USE DEF IInv, Compute
<1>1. Rest \in Seq(Group)
  BY QueueParts DEF CallOK
<1>2. leased' = {}
  BY DEF LeaseScoped
<1> QED BY <1>1, <1>2 DEF CallOK, Listed, WithinSlots, PinsFit, Budget, LeaseScoped

(* One more pin. *)
LEMMA PinMore ==
  ASSUME NEW P, P \subseteq Catalog, Cardinality(P) < Budget, NEW e
  PROVE  Cardinality(P \cup {e}) <= Budget
<1>1. IsFiniteSet(P) /\ Cardinality(P) \in Nat
  BY Finite
<1>b. Budget \in Nat
  <2>1. Slots \in Nat \ {0}
    BY CacheAssumption
  <2> QED BY <2>1 DEF Budget
<1>2. CASE e \in P
  <2>1. P \cup {e} = P
    BY <1>2
  <2> QED BY <1>1, <1>b, <2>1
<1>3. CASE e \notin P
  <2>1. Cardinality(P \cup {e}) = Cardinality(P) + 1
    BY <1>1, <1>3, FS_AddElement
  <2> QED BY <1>1, <1>b, <2>1
<1> QED BY <1>2, <1>3

LEMMA PinInv ==
  ASSUME IInv, NEW loads \in BOOLEAN, Pin(loads) PROVE IInv'
<1> USE DEF IInv
<1>1. /\ Key \in Catalog \cup Unknown /\ Rest \in Seq(Group)
      /\ <<>> \in Seq(Group)
  BY QueueParts DEF CallOK, Pin
<1>2. CallOK' /\ LeaseScoped'
  BY <1>1 DEF CallOK, LeaseScoped, Pin
<1>3. /\ Cardinality(pinned) < Budget /\ leased' = leased
      /\ \/ /\ UNCHANGED <<resident, recency>>
            /\ pinned' = pinned \/ (Key \in resident /\ pinned' = pinned \cup {Key})
         \/ /\ Key \in Catalog \ resident /\ ~Stuck /\ FaultIn(Key, loads)
            /\ pinned' = IF loads THEN pinned \cup {Key} ELSE pinned
  BY DEF Pin
<1>4. PinsFit'
  <2>1. pinned' = pinned \/ pinned' = pinned \cup {Key}
    BY <1>3
  <2>2. pinned \subseteq Catalog
    BY DEF Listed
  <2>3. Cardinality(pinned \cup {Key}) <= Budget
    BY <1>3, <2>2, PinMore
  <2> QED BY <2>1, <2>3 DEF PinsFit, Budget
<1>5. Listed' /\ WithinSlots'
  <2>1. CASE UNCHANGED <<resident, recency>>
             /\ (pinned' = pinned \/ (Key \in resident /\ pinned' = pinned \cup {Key}))
    BY <1>3, <2>1 DEF Listed, WithinSlots
  <2>2. CASE /\ Key \in Catalog \ resident /\ ~Stuck /\ FaultIn(Key, loads)
             /\ pinned' = IF loads THEN pinned \cup {Key} ELSE pinned
    <3>1. /\ resident' \subseteq Catalog
          /\ recency' \in Seq(Catalog) /\ Once(recency') /\ ToSet(recency') = resident'
          /\ leased \cup pinned \subseteq resident' /\ (loads <=> Key \in resident')
          /\ WithinSlots'
      BY <2>2, FaultInListed
    <3> QED BY <1>3, <2>2, <3>1 DEF Listed
  <2> QED BY <1>3, <2>1, <2>2
<1> QED BY <1>2, <1>4, <1>5

LEMMA OthersInv ==
  ASSUME IInv,
         \/ \E e \in Catalog : Evict(e)
         \/ \E plan \in Plans : RoutedDone(plan)
         \/ \E hot \in Hot : PinStart(hot)
         \/ PredictDone \/ LayerDone \/ PinsDone
  PROVE  IInv'
<1> USE DEF IInv
<1>0. <<>> \in Seq(Group)
  OBVIOUS
<1>1. CASE \E e \in Catalog : Evict(e)
  <2>1. PICK e \in Catalog : Evict(e)
    BY <1>1
  <2>2. /\ Without(e) \in Seq(Catalog) /\ Once(Without(e)) /\ ToSet(Without(e)) = resident \ {e}
        /\ e \in resident /\ ~Held(e) /\ resident \subseteq Catalog
    BY <2>1, WithoutListed DEF Evict, Listed
  <2>3. Listed'
    BY <2>1, <2>2 DEF Evict, Listed, Held
  <2>4. Cardinality(resident \ {e}) <= Cardinality(resident) /\ Cardinality(resident) \in Nat
        /\ Cardinality(resident \ {e}) \in Nat
    BY <2>2, Finite, FS_RemoveElement
  <2>5. WithinSlots'
    BY <2>1, <2>4, CacheAssumption DEF Evict, WithinSlots
  <2> QED BY <2>1, <2>3, <2>5 DEF Evict, PinsFit, Budget, LeaseScoped, CallOK
<1>2. CASE \E plan \in Plans : RoutedDone(plan)
  <2>1. \A plan \in Plans : plan \in Seq(Group)
    BY CacheAssumption DEF Group
  <2>2. CallOK' /\ UNCHANGED storeVars /\ pc # "compute" /\ pc' # "compute"
    BY <1>2, <2>1 DEF RoutedDone, CallOK
  <2> QED BY <2>2, StoreKept
<1>3. CASE \E hot \in Hot : PinStart(hot)
  <2>1. PICK hot \in Hot : PinStart(hot)
    BY <1>3
  <2>2. hot # <<>> => <<hot>> \in Seq(Group)
    BY CacheAssumption DEF Group
  <2>3. CallOK'
    BY <1>0, <2>1, <2>2 DEF PinStart, CallOK
  <2>4. pinned' = pinned \/ pinned' = {}
    BY <2>1 DEF PinStart
  <2>5. PinsFit'
    <3>1. CASE pinned' = pinned
      BY <3>1 DEF PinsFit, Budget
    <3>2. CASE pinned' = {}
      <4>1. Cardinality(pinned') = 0 /\ Slots \in Nat \ {0}
        BY <3>2, FS_EmptySet, CacheAssumption
      <4> QED BY <4>1 DEF PinsFit, Budget
    <3> QED BY <2>4, <3>1, <3>2
  <2> QED BY <2>1, <2>3, <2>4, <2>5 DEF PinStart, Listed, WithinSlots, LeaseScoped
<1>4. CASE PredictDone
  <2>1. PICK order \in SetToSeqs(routed) : queue' = <<order>>
    BY <1>4 DEF PredictDone
  <2>2. queue' \in Seq(Group)
    BY <1>4, <2>1, OrderTyped DEF PredictDone, CallOK
  <2>3. CallOK' /\ UNCHANGED storeVars /\ pc # "compute" /\ pc' # "compute"
    BY <1>4, <2>2 DEF PredictDone, CallOK
  <2> QED BY <2>3, StoreKept
<1>5. CASE LayerDone \/ PinsDone
  <2>1. CallOK' /\ UNCHANGED storeVars /\ pc # "compute" /\ pc' # "compute"
    BY <1>0, <1>5 DEF LayerDone, PinsDone, CallOK
  <2> QED BY <2>1, StoreKept
<1> QED BY <1>1, <1>2, <1>3, <1>4, <1>5

LEMMA NextInv == IInv /\ [Next]_vars => IInv'
<1> SUFFICES ASSUME IInv, [Next]_vars PROVE IInv'
  OBVIOUS
<1>1. CASE Next
  BY <1>1, RouteInv, PrefetchInv, AcquireInv, ComputeInv, PinInv, OthersInv DEF Next
<1>2. CASE UNCHANGED vars
  BY <1>2 DEF vars, storeVars, IInv, Listed, WithinSlots, PinsFit, Budget, LeaseScoped, CallOK, Key
<1> QED BY <1>1, <1>2

(* The invariant holds in every reachable state of the expert cache. *)
THEOREM CacheInvariant == Spec => []IInv
  BY InitInv, NextInv, PTL DEF Spec

(* The fast tier never holds more experts than it has slots, and its lists name
   experts of the catalogue only (CachedStore). *)
THEOREM CacheTypeCorrect == Spec => []TypeOK
  BY CacheInvariant, InvImpliesTypes, PTL

(* The recency list names every resident expert once, and whatever is leased or
   pinned is resident, after any failures and evictions (CachedStore::fault_in). *)
THEOREM RecencyAlwaysExact == Spec => []RecencyExact
<1>1. IInv => RecencyExact
  BY ListedExact DEF IInv
<1> QED BY <1>1, CacheInvariant, PTL

(* No lease outlives its product, however the product ends (put_expert). *)
THEOREM LeasesScoped == Spec => []LeaseScoped
<1>1. IInv => LeaseScoped
  BY DEF IInv
<1> QED BY <1>1, CacheInvariant, PTL

(* With one slot kept free of pins, an expert that is wanted always finds room or
   an expert it may evict (pin_budget). *)
THEOREM DemandAlwaysServed == Spec => []DemandServed
  BY CacheInvariant, InvImpliesServed, PTL

(* A kept-hot expert stays until the engine replaces its pins (pin_hot). *)
THEOREM KeptHotStays == Spec => KeepHotStays
<1>1. IInv /\ IInv' /\ [Next]_vars
        => [~(\E hot \in Hot : PinStart(hot)) => pinned \subseteq pinned' \cap resident']_vars
  <2> SUFFICES ASSUME IInv, IInv', [Next]_vars, ~(\E hot \in Hot : PinStart(hot))
               PROVE  pinned \subseteq pinned' \cap resident'
    OBVIOUS
  <2>1. pinned' \subseteq resident'
    BY DEF IInv, Listed
  <2>2. pinned \subseteq pinned'
    BY DEF Next, vars, storeVars, Evict, Route, RoutedDone, Prefetch, Acquire, Compute, Pin,
           PredictDone, LayerDone, PinsDone
  <2> QED BY <2>1, <2>2
<1> QED BY <1>1, CacheInvariant, PTL DEF Spec, KeepHotStays
=============================================================================
