---------------------------- MODULE ExpertCache -----------------------------
(***************************************************************************)
(* The bounded expert caches of expertvm (CachedStore and TieredStore) as   *)
(* the mixture-of-experts layers of decode.rs and the keep-hot pins of      *)
(* engine.rs drive them.                                                    *)
(*                                                                         *)
(* In every layer of a forward pass the routed experts are prefetched,      *)
(* predicted ones after them; then the experts are computed one by one,     *)
(* each acquired, leased for its product and released.  After the pass the  *)
(* engine replaces its sticky pins.  A full cache evicts the least recently *)
(* used expert that is neither leased nor pinned.                           *)
(*                                                                         *)
(* The two stores differ in what they keep of an expert (nothing, or its    *)
(* bytes) and in how a load can fail: an unknown key in both, a read error  *)
(* in TieredStore only.                                                     *)
(***************************************************************************)
EXTENDS Integers, Sequences, FiniteSets, SequencesExt

CONSTANTS
  Catalog,  \* expert keys the slow tier has, numbered in key order
  Unknown,  \* keys a prediction may name that it does not have
  Slots,    \* capacity of the fast tier
  Prefetching,  \* whether the engine's policy prefetches (not Prefetch::None)
  Routes,   \* routings of a layer: a sequence of keys per decoding sequence
  Plans,    \* predictions: a sequence of keys per token
  Hot,      \* what keep_hot_keys may return
  MayFail   \* whether reads of the slow tier and products may fail

ASSUME CacheAssumption ==
  /\ IsFiniteSet(Catalog) /\ Catalog \subseteq Nat
  /\ Catalog \cap Unknown = {}
  /\ Slots \in Nat \ {0}
  /\ Prefetching \in BOOLEAN /\ (~Prefetching => Plans \subseteq {<<>>})
  /\ Routes \subseteq Seq(Seq(Catalog) \ {<<>>}) \ {<<>>}
  /\ Plans \subseteq Seq(Seq(Catalog \cup Unknown) \ {<<>>})
  /\ Hot \subseteq Seq(Catalog \cup Unknown)
  /\ MayFail \in BOOLEAN

VARIABLES
  resident,  \* keys in the fast tier
  recency,   \* the same keys, least recently used first
  leased,    \* keys leased for a product
  pinned,    \* sticky pins
  pc,        \* what the decoder or the engine is doing with the store
  routed,    \* experts the current layer selected
  queue      \* keys still to go through, in groups that fail together

storeVars == <<resident, recency, leased, pinned>>
vars      == <<storeVars, pc, routed, queue>>

TypeOK ==
  /\ resident \subseteq Catalog /\ Cardinality(resident) <= Slots
  /\ recency \in Seq(Catalog)
  /\ leased \subseteq Catalog /\ pinned \subseteq Catalog
  /\ pc \in {"idle", "prefetch", "predict", "experts", "compute", "layer", "pin", "pins"}
  /\ routed \subseteq Catalog
  /\ queue \in Seq(Seq(Catalog \cup Unknown) \ {<<>>})

-----------------------------------------------------------------------------
(* The fast tier. *)

(* Mutant: a sticky pin alone does not protect an expert. *)
HeldLeased(e) == e \in leased

Held(e) == e \in leased \/ e \in pinned

(* Mutant: the tier is full one expert too late. *)
RoomOver == Cardinality(resident) <= Slots

Room == Cardinality(resident) < Slots

(* "all resident experts are leased" *)
Stuck == ~Room /\ \A e \in ToSet(recency) : Held(e)

(* The least recently used key that eviction may take. *)
Victim == recency[Min({i \in DOMAIN recency : ~Held(recency[i])})]

(* The list names a key once (RecencyExact), so one place is given up. *)
Without(e) == RemoveAt(recency, CHOOSE i \in DOMAIN recency : recency[i] = e)

(* Whether the slow tier yields the bytes of e. *)
Load(e, loads) == loads => e \in Catalog

(* fault_in: the victim is evicted before the load is tried. *)
FaultIn(e, loads) ==
  LET kept == IF Room THEN recency ELSE Without(Victim) IN
  /\ Load(e, loads) /\ (loads \/ MayFail \/ e \notin Catalog)
  /\ recency' = IF loads THEN Append(kept, e) ELSE kept
  /\ resident' = ToSet(kept) \cup (IF loads THEN {e} ELSE {})

(* Mutant: the old place of the key stays in the list. *)
TouchAppend(e) == recency' = Append(recency, e)

(* A hit makes the key the most recently used one. *)
Touch(e) == recency' = Append(Without(e), e)

(* evict, on the owner's request: an error unless resident and not held. *)
Evict(e) ==
  /\ pc = "idle" /\ e \in resident /\ ~Held(e)
  /\ resident' = resident \ {e} /\ recency' = Without(e)
  /\ UNCHANGED <<leased, pinned, pc, routed, queue>>

-----------------------------------------------------------------------------
(* A mixture-of-experts layer. *)

Key  == Head(Head(queue))
Rest == IF Len(Head(queue)) = 1 THEN Tail(queue) ELSE <<Tail(Head(queue))>> \o Tail(queue)

Keys(groups) == UNION {ToSet(groups[i]) : i \in DOMAIN groups}

(* The router has chosen; prefetch_routed is skipped when the policy is demand
   paging only, or the choice larger than the cache. *)
Route(groups) ==
  /\ pc \in {"idle", "layer"}
  /\ routed' = Keys(groups)
  /\ IF ~Prefetching \/ Cardinality(Keys(groups)) > Slots
     THEN \E plan \in Plans : queue' = plan /\ pc' = "predict"
     ELSE queue' = groups /\ pc' = "prefetch"
  /\ UNCHANGED storeVars

(* prefetch: resident and unknown keys are skipped, an error drops the rest of
   the group and nothing else. *)
Prefetch(loads) ==
  /\ pc \in {"prefetch", "predict"} /\ queue # <<>>
  /\ IF Key \in resident \/ Key \notin Catalog
     THEN queue' = Rest /\ UNCHANGED <<resident, recency>>
     ELSE IF Stuck
     THEN queue' = Tail(queue) /\ UNCHANGED <<resident, recency>>
     ELSE /\ FaultIn(Key, loads)
          /\ queue' = IF loads THEN Rest ELSE Tail(queue)
  /\ UNCHANGED <<leased, pinned, pc, routed>>

(* prefetch_selected follows prefetch_routed, then the experts are computed in
   key order. *)
RoutedDone(plan) ==
  /\ pc = "prefetch" /\ queue = <<>>
  /\ pc' = "predict" /\ queue' = plan
  /\ UNCHANGED <<storeVars, routed>>

PredictDone ==
  /\ pc = "predict" /\ queue = <<>>
  /\ pc' = "experts"
  /\ \E order \in SetToSeqs(routed) :
       (\A i, j \in DOMAIN order : i < j => order[i] < order[j]) /\ queue' = <<order>>
  /\ UNCHANGED <<storeVars, routed>>

(* take_expert: acquire, then lease.  An error ends the forward pass. *)
Acquire(loads) ==
  /\ pc = "experts" /\ queue # <<>>
  /\ IF Key \in resident
     THEN Touch(Key) /\ UNCHANGED resident
     ELSE IF Stuck THEN UNCHANGED <<resident, recency>>
     ELSE FaultIn(Key, loads)
  /\ IF Key \in resident'
     THEN leased' = leased \cup {Key} /\ pc' = "compute"
     ELSE pc' = "pin" /\ UNCHANGED leased
  /\ UNCHANGED <<pinned, routed, queue>>

(* Mutant: the error of the product leaves before put_expert. *)
ComputeLeak(succeeds) ==
  /\ pc = "compute" /\ (succeeds \/ MayFail)
  /\ IF succeeds THEN leased' = leased \ {Key} /\ queue' = Rest /\ pc' = "experts"
     ELSE pc' = "pin" /\ UNCHANGED <<leased, queue>>
  /\ UNCHANGED <<resident, recency, pinned, routed>>

(* The expert's product, then put_expert, then the error if there was one. *)
Compute(succeeds) ==
  /\ pc = "compute" /\ (succeeds \/ MayFail)
  /\ leased' = leased \ {Key}
  /\ IF succeeds THEN queue' = Rest /\ pc' = "experts"
     ELSE pc' = "pin" /\ UNCHANGED queue
  /\ UNCHANGED <<resident, recency, pinned, routed>>

LayerDone ==
  /\ pc = "experts" /\ queue = <<>>
  /\ pc' = "layer"
  /\ UNCHANGED <<storeVars, routed, queue>>

-----------------------------------------------------------------------------
(* The engine, after the pass: pin_predicted. *)

(* Mutant: no slot is left for demand paging. *)
BudgetAll == Slots

Budget == Slots - 1

PinStart(hot) ==
  /\ pc \in {"layer", "pin"}
  /\ IF Budget = 0
     THEN pc' = "idle" /\ queue' = <<>> /\ UNCHANGED pinned
     ELSE /\ pinned' = {} /\ pc' = "pins"
          /\ queue' = IF hot = <<>> THEN <<>> ELSE <<hot>>
  /\ UNCHANGED <<resident, recency, leased, routed>>

(* pin_hot, one key at a time: an error ends the loop. *)
Pin(loads) ==
  /\ pc = "pins" /\ queue # <<>> /\ Cardinality(pinned) < Budget
  /\ \/ /\ Key \notin Catalog
        /\ queue' = Rest /\ UNCHANGED <<resident, recency, pinned>>
     \/ /\ Key \in resident
        /\ pinned' = pinned \cup {Key} /\ queue' = Rest
        /\ UNCHANGED <<resident, recency>>
     \/ /\ Key \in Catalog \ resident
        /\ IF Stuck THEN queue' = <<>> /\ UNCHANGED <<resident, recency, pinned>>
           ELSE /\ FaultIn(Key, loads)
                /\ IF loads THEN pinned' = pinned \cup {Key} /\ queue' = Rest
                   ELSE queue' = <<>> /\ UNCHANGED pinned
  /\ UNCHANGED <<leased, pc, routed>>

PinsDone ==
  /\ pc = "pins" /\ (queue = <<>> \/ Cardinality(pinned) >= Budget)
  /\ pc' = "idle" /\ queue' = <<>>
  /\ UNCHANGED <<storeVars, routed>>

-----------------------------------------------------------------------------
Init ==
  /\ resident = {} /\ recency = <<>> /\ leased = {} /\ pinned = {}
  /\ pc = "idle" /\ routed = {} /\ queue = <<>>

Next ==
  \/ \E e \in Catalog : Evict(e)
  \/ \E groups \in Routes : Route(groups)
  \/ \E plan \in Plans : RoutedDone(plan)
  \/ \E hot \in Hot : PinStart(hot)
  \/ \E b \in BOOLEAN : Prefetch(b) \/ Acquire(b) \/ Compute(b) \/ Pin(b)
  \/ PredictDone \/ LayerDone \/ PinsDone

Spec == Init /\ [][Next]_vars

-----------------------------------------------------------------------------
(* Properties. *)

(* The recency list names every resident expert once, and whatever is leased or
   pinned is resident: after failed loads, evictions and hits in any order the
   cache neither loses an expert nor counts one twice (CachedStore). *)
RecencyExact ==
  /\ ToSet(recency) = resident /\ Len(recency) = Cardinality(resident)
  /\ leased \cup pinned \subseteq resident

(* A lease lasts exactly as long as its product, whichever way the product
   ends: a lease left behind would pin its expert for ever (take_expert,
   put_expert). *)
LeaseScoped == leased = IF pc = "compute" THEN {Key} ELSE {}

(* "leave one slot for demand paging" (pin_budget): whenever an expert is wanted
   the cache has room or an expert it may evict, whatever was pinned. *)
DemandServed == pc # "compute" => ~Stuck

(* "a decode release does not drop the pin" (pin_hot): a kept-hot expert stays
   resident until the engine replaces its pins. *)
KeepHotStays ==
  [][~(\E hot \in Hot : PinStart(hot)) => pinned \subseteq pinned' \cap resident']_vars
=============================================================================
