------------------------------ MODULE GpuStore ------------------------------
(***************************************************************************)
(* The expert store on a simulated GPU (gpu_store.rs) with pinned fills on  *)
(* one GPU, driven like ExpertCache.                                        *)
(*                                                                         *)
(* The store keeps a CachedStore, whose state this module shares with       *)
(* ExpertCache, and next to it a page of device memory per resident expert. *)
(* A page is allocated, filled and freed on the copy stream and read by     *)
(* kernels on a compute stream, of which there are two with decode_priority *)
(* and one without; events order the streams.  The host queues operations   *)
(* and goes on.  The device (sim.rs) makes progress only while the host     *)
(* waits for a stream; each stream runs in order, at any speed.             *)
(*                                                                         *)
(* A call of the store is the list of its steps, so that the device can run *)
(* between two of them where the call waits.  Transfers do not fail here.   *)
(***************************************************************************)
EXTENDS Integers, Sequences, FiniteSets, SequencesExt, FiniteSetsExt, Functions

CONSTANTS
  Catalog, Unknown, Slots, Prefetching, Routes, Plans, Hot,  \* as in ExpertCache
  ComputeStreams, \* compute streams: prefill, and decode with decode_priority
  Kernels,  \* compute_slots: kernels the device runs at once
  MayEvict, \* whether the owner evicts experts by hand
  MaxQueue  \* bound: operations still queued when a layer or an eviction begins

VARIABLES
  resident, recency, leased, pinned,  \* the CachedStore
  pc, routed, queue,                  \* the decoder and the engine
  victim,    \* last_victim, a set of at most one key
  lost,      \* auxiliary: victims that take_victim never returned
  pages,     \* page of each key the store has placed
  pending,   \* keys whose page still has its ready event
  evicting,  \* pages on their way out, by key
  graphs,    \* pages whose kernel has been captured
  compute,   \* the compute stream bound now
  call,      \* steps left of the current call, [do, key]
  q,         \* operations queued on each stream, [op, page]
  busy,      \* streams whose first operation has started
  live,      \* pages allocated on the device
  filled     \* pages whose expert has arrived

cacheVars  == <<resident, recency, leased, pinned>>
clientVars == <<pc, routed, queue>>
victimVars == <<victim, lost>>
pageVars   == <<pages, pending, evicting, graphs>>
deviceVars == <<busy, live, filled>>
vars == <<cacheVars, clientVars, victimVars, pageVars, compute, call, q, deviceVars>>

Cache == INSTANCE ExpertCache WITH MayFail <- TRUE

ASSUME GpuAssumption ==
  /\ Cache!CacheAssumption /\ Catalog # {}
  /\ ComputeStreams \in {{"prefill"}, {"prefill", "decode"}}
  /\ Kernels \in Nat \ {0} /\ MayEvict \in BOOLEAN /\ MaxQueue \in Nat

Streams == {"copy"} \cup ComputeStreams

Dos == {"fault", "ensure", "fill", "free", "gemm", "launch", "lease", "settle", "settled",
        "pin", "waitCompute", "syncCompute", "syncCopy", "syncDecode", "syncAll", "sweep"}

Ops == {"alloc", "h2d", "recordReady", "waitReady", "kernel", "recordDrained",
        "waitDrained", "free"}

Page == Nat \ {0}

TypeOK ==
  /\ Cache!TypeOK
  /\ victim \subseteq Catalog /\ Cardinality(victim) <= 1 /\ lost \subseteq Catalog
  /\ pages \in [DOMAIN pages -> Page] /\ DOMAIN pages \subseteq Catalog
  /\ evicting \in [DOMAIN evicting -> Page] /\ DOMAIN evicting \subseteq Catalog
  /\ pending \subseteq DOMAIN pages /\ graphs \subseteq Range(pages)
  /\ compute \in ComputeStreams
  /\ call \in Seq([do : Dos, key : Catalog \cup Unknown])
  /\ q \in [Streams -> Seq([op : Ops, page : Page])]
  /\ busy \subseteq {s \in Streams : q[s] # <<>>}
  /\ filled \subseteq live /\ live \subseteq Page

-----------------------------------------------------------------------------
(* The device. *)

Op(op, p) == [op |-> op, page |-> p]

Queued(op, p) == \E s \in Streams : Op(op, p) \in ToSet(q[s])

(* A wait is over once the event it names has been recorded. *)
Ready(o) ==
  CASE o.op = "waitReady"   -> ~Queued("recordReady", o.page)
    [] o.op = "waitDrained" -> ~Queued("recordDrained", o.page)
    [] OTHER -> TRUE

Running == {s \in busy : Head(q[s]).op = "kernel"}

Startable(s) ==
  /\ s \notin busy /\ q[s] # <<>> /\ Ready(Head(q[s]))
  /\ Head(q[s]).op = "kernel" => Cardinality(Running) < Kernels

(* synchronize, synchronize_stream and wait_compute: the host drives the device
   until these streams are idle. *)
Awaited ==
  IF call = <<>> THEN {}
  ELSE CASE Head(call).do = "waitCompute" -> ComputeStreams
         [] Head(call).do = "syncCompute" -> {compute}
         [] Head(call).do = "syncCopy"    -> {"copy"}
         [] Head(call).do = "syncDecode"  -> {"decode"}
         [] Head(call).do = "syncAll"     -> Streams
         [] OTHER -> {}

Driving == \E s \in Awaited : q[s] # <<>>

(* schedule: a free takes effect when it starts. *)
Start(s) ==
  /\ Driving /\ Startable(s)
  /\ busy' = busy \cup {s}
  /\ LET o == Head(q[s]) IN
     /\ live'   = IF o.op = "free" THEN live \ {o.page} ELSE live
     /\ filled' = IF o.op = "free" THEN filled \ {o.page} ELSE filled
  /\ UNCHANGED <<cacheVars, clientVars, victimVars, pageVars, compute, call, q>>

(* advance_to_next_completion: once nothing more can start, whatever ends next. *)
Finish(S) ==
  /\ Driving /\ S # {} /\ S \subseteq busy
  /\ \A s \in Streams : ~Startable(s)
  /\ busy' = busy \ S
  /\ q' = [s \in Streams |-> IF s \in S THEN Tail(q[s]) ELSE q[s]]
  /\ LET over(op) == {Head(q[s]).page : s \in {t \in S : Head(q[t]).op = op}} IN
     /\ live'   = live \cup over("alloc")
     /\ filled' = filled \cup over("h2d")
  /\ UNCHANGED <<cacheVars, clientVars, victimVars, pageVars, compute, call>>

-----------------------------------------------------------------------------
(* Steps of the store's calls. *)

Step(d, e) == [do |-> d, key |-> e]

Now(d) == call # <<>> /\ Head(call).do = d
K      == Head(call).key

Continue == call' = Tail(call)

Steps(ds, e) == [i \in DOMAIN ds |-> Step(ds[i], e)]

Submit(s, ops) == q' = [q EXCEPT ![s] = @ \o ops]

(* The page of key e in a map of pages. *)
Placing(e, p, others) ==
  [k \in {e} \cup DOMAIN others |-> IF k = e THEN p ELSE others[k]]

(* sweep_evicts: what has left the device is no longer evicting. *)
Swept == Restrict(evicting, {v \in DOMAIN evicting : evicting[v] \in live})

Sweep ==
  /\ Now("sweep") /\ Continue /\ evicting' = Swept
  /\ UNCHANGED <<cacheVars, clientVars, victimVars, pages, pending, graphs, compute, q, deviceVars>>

(* synchronize_stream returns. *)
Drained ==
  /\ Awaited # {} /\ ~Driving /\ Continue
  /\ UNCHANGED <<cacheVars, clientVars, victimVars, pageVars, compute, q, deviceVars>>

(* Mutant: the page given up is that of the oldest expert, held or not. *)
CacheFaultOldest(e) ==
  /\ Cache!FaultIn(e, TRUE)
  /\ victim' = IF Cache!Room THEN {} ELSE {Head(recency)}
  /\ lost' = (lost \cup victim) \ {e}

(* fault_in of the CachedStore: only the last victim is remembered. *)
CacheFault(e) ==
  /\ Cache!FaultIn(e, TRUE)
  /\ victim' = IF Cache!Room THEN {} ELSE {Cache!Victim}
  /\ lost' = (lost \cup victim) \ {e}

CacheStuck == Cache!Stuck /\ victim' = {} /\ lost' = lost \cup victim

(* One key of CachedStore::prefetch; an error ends the call, and the loop of
   pin_predicted with it. *)
Fault ==
  /\ Now("fault")
  /\ \/ /\ K \in resident \/ K \notin Catalog
        /\ Continue /\ UNCHANGED <<resident, recency, queue, victimVars>>
     \/ /\ K \in Catalog \ resident /\ ~Cache!Stuck
        /\ CacheFault(K) /\ Continue /\ UNCHANGED queue
     \/ /\ K \in Catalog \ resident /\ CacheStuck
        /\ call' = <<>> /\ queue' = IF pc = "pins" THEN <<>> ELSE queue
        /\ UNCHANGED <<resident, recency>>
  /\ UNCHANGED <<leased, pinned, pc, routed, pageVars, compute, q, deviceVars>>

(* Mutant: the captured kernel outlives its page. *)
DropKeepsGraph(v, others, rest) ==
  /\ pages' = Restrict(pages, DOMAIN pages \ {v})
  /\ pending' = pending \ {v}
  /\ evicting' = Placing(v, pages[v], others)
  /\ UNCHANGED graphs
  /\ call' = Steps(<<"waitCompute", "free">>, v) \o rest

(* drop_gpu next to other evictions, then wait_compute of finish_drop. *)
Drop(v, others, rest) ==
  /\ pages' = Restrict(pages, DOMAIN pages \ {v})
  /\ pending' = pending \ {v}
  /\ evicting' = Placing(v, pages[v], others)
  /\ graphs' = graphs \ {pages[v]}
  /\ call' = Steps(<<"waitCompute", "free">>, v) \o rest

(* Where a call makes sure its key has a page: place takes the victim first. *)
Ensure ==
  /\ Now("ensure")
  /\ IF K \notin resident \/ K \in DOMAIN pages
     THEN Continue /\ UNCHANGED <<victim, pageVars>>
     ELSE LET fill == <<Step("fill", K)>> \o Tail(call) IN
          /\ victim' = {}
          /\ IF victim \cap DOMAIN pages = {}
             THEN call' = fill /\ UNCHANGED pageVars
             ELSE \E v \in victim : Drop(v, evicting, fill)
  /\ UNCHANGED <<cacheVars, clientVars, lost, compute, q, deviceVars>>

(* Mutant: the page's memory is never given back. *)
FreeNot ==
  /\ Now("free") /\ Continue
  /\ Submit("copy", <<Op("waitDrained", evicting[K])>>)
  /\ UNCHANGED <<cacheVars, clientVars, victimVars, pageVars, compute, deviceVars>>

(* The end of finish_drop: the free waits for an event recorded after the
   kernels queued so far. *)
Free ==
  /\ Now("free") /\ Continue
  /\ LET p == evicting[K] IN
     q' = [q EXCEPT ![compute] = Append(@, Op("recordDrained", p)),
                    !["copy"] = @ \o <<Op("waitDrained", p), Op("free", p)>>]
  /\ UNCHANGED <<cacheVars, clientVars, victimVars, pageVars, compute, deviceVars>>

(* A page number nothing refers to any more. *)
Fresh ==
  LET used == Range(pages) \cup Range(evicting) \cup live
              \cup UNION {{o.page : o \in ToSet(q[s])} : s \in Streams}
  IN  Min(1 .. Cardinality(used) + 1 \ used)

(* fill_page and insert_page. *)
Fill ==
  /\ Now("fill") /\ Continue
  /\ pages' = Placing(K, Fresh, pages) /\ pending' = pending \cup {K}
  /\ Submit("copy", <<Op("alloc", Fresh), Op("h2d", Fresh), Op("recordReady", Fresh)>>)
  /\ UNCHANGED <<cacheVars, clientVars, victimVars, evicting, graphs, compute, deviceVars>>

(* Mutant: memory that is there is taken for an expert that has arrived. *)
ArrivedLive(e) == pages[e] \in live

Arrived(e) == ~Queued("recordReady", pages[e])

(* gemm_resident: compute waits for the fill unless it has been waited for.  The
   first kernel of a page is captured, which needs an idle compute stream. *)
Gemm ==
  /\ Now("gemm")
  /\ IF K \notin DOMAIN pages
     THEN call' = <<>> /\ pc' = "pin" /\ UNCHANGED <<pending, q>>
     ELSE /\ pending' = pending \ {K}
          /\ IF K \in pending /\ ~Arrived(K)
             THEN Submit(compute, <<Op("waitReady", pages[K])>>) ELSE UNCHANGED q
          /\ call' = (IF pages[K] \in graphs THEN <<Step("launch", K)>>
                      ELSE Steps(<<"syncCompute", "launch">>, K)) \o Tail(call)
          /\ UNCHANGED pc
  /\ UNCHANGED <<cacheVars, routed, queue, victimVars, pages, evicting, graphs, compute, deviceVars>>

Launch ==
  /\ Now("launch") /\ Continue
  /\ graphs' = graphs \cup {pages[K]}
  /\ Submit(compute, <<Op("kernel", pages[K])>>)
  /\ UNCHANGED <<cacheVars, clientVars, victimVars, pages, pending, evicting, compute, deviceVars>>

Phase(e) ==
  CASE e \in DOMAIN evicting /\ evicting[e] \in live     -> "Evicting"
    [] e \in DOMAIN evicting /\ evicting[e] \notin live  -> "Cold"
    [] e \notin DOMAIN evicting /\ e \in pending /\ ~Arrived(e) -> "Transferring"
    [] OTHER -> IF Cache!Held(e) THEN "Leased" ELSE IF e \in resident THEN "Resident" ELSE "Cold"

Leasable(e) == e \in resident /\ Phase(e) \in {"Resident", "Leased"}

(* lease; an error ends the forward pass. *)
Lease ==
  /\ Now("lease") /\ Continue
  /\ IF Leasable(K)
     THEN leased' = leased \cup {K} /\ pc' = "compute"
     ELSE UNCHANGED leased /\ pc' = "pin"
  /\ UNCHANGED <<resident, recency, pinned, routed, queue, victimVars, pageVars, compute, q, deviceVars>>

(* wait_copy: the copy stream is drained unless the page has arrived. *)
Settle ==
  /\ Now("settle")
  /\ call' = (IF K \in pending /\ ~Arrived(K) THEN Steps(<<"syncCopy", "settled">>, K)
              ELSE Steps(<<"settled">>, K)) \o Tail(call)
  /\ UNCHANGED <<cacheVars, clientVars, victimVars, pageVars, compute, q, deviceVars>>

Settled ==
  /\ Now("settled") /\ Continue
  /\ pending' = pending \ {K}
  /\ UNCHANGED <<cacheVars, clientVars, victimVars, pages, evicting, graphs, compute, q, deviceVars>>

Pinned ==
  /\ Now("pin") /\ Continue
  /\ pinned' = pinned \cup {K}
  /\ UNCHANGED <<resident, recency, leased, clientVars, victimVars, pageVars, compute, q, deviceVars>>

-----------------------------------------------------------------------------
(* The calls. *)

Idle == call = <<>>

(* A host that never has to wait queues operations without end. *)
QueueShort == SumFunction([s \in Streams |-> Len(q[s])]) <= MaxQueue

Key == Cache!Key

(* Mutant: only the first key of a call gets its page. *)
PrefetchFirst ==
  /\ Idle /\ pc \in {"prefetch", "predict"} /\ queue # <<>>
  /\ LET keys == Head(queue) IN
     call' = Append([i \in DOMAIN keys |-> Step("fault", keys[i])], Step("ensure", keys[1]))
  /\ queue' = Tail(queue) /\ evicting' = Swept
  /\ UNCHANGED <<cacheVars, pc, routed, victimVars, pages, pending, graphs, compute, q, deviceVars>>

(* prefetch: every key is faulted in before the first page is placed. *)
Prefetch ==
  /\ Idle /\ pc \in {"prefetch", "predict"} /\ queue # <<>>
  /\ LET keys == Head(queue) IN
     call' = [i \in DOMAIN keys |-> Step("fault", keys[i])]
             \o [i \in DOMAIN keys |-> Step("ensure", keys[i])]
  /\ queue' = Tail(queue) /\ evicting' = Swept
  /\ UNCHANGED <<cacheVars, pc, routed, victimVars, pages, pending, graphs, compute, q, deviceVars>>

(* take_expert: acquire, which places the page of a miss only, then lease. *)
Acquire ==
  /\ Idle /\ pc = "experts" /\ queue # <<>>
  /\ evicting' = Swept
  /\ \/ /\ Key \in resident
        /\ Cache!Touch(Key) /\ call' = Steps(<<"gemm", "lease">>, Key)
        /\ UNCHANGED <<resident, pc, victimVars>>
     \/ /\ Key \notin resident /\ ~Cache!Stuck
        /\ CacheFault(Key) /\ call' = Steps(<<"ensure", "gemm", "lease">>, Key)
        /\ UNCHANGED pc
     \/ /\ Key \notin resident /\ CacheStuck
        /\ pc' = "pin" /\ UNCHANGED <<resident, recency, call>>
  /\ UNCHANGED <<leased, pinned, routed, queue, pages, pending, graphs, compute, q, deviceVars>>

(* pin_hot of the next kept-hot key. *)
Pin ==
  /\ Idle /\ pc = "pins" /\ queue # <<>> /\ Cardinality(pinned) < Cache!Budget
  /\ queue' = Cache!Rest
  /\ call' = IF Key \notin Catalog THEN <<>>
             ELSE Steps(<<"fault", "ensure", "settle", "pin">>, Key)
  /\ UNCHANGED <<cacheVars, pc, routed, victimVars, pageVars, compute, q, deviceVars>>

(* evict, on the owner's request. *)
Evict(e) ==
  /\ MayEvict /\ Idle /\ QueueShort /\ Cache!Evict(e)
  /\ victim' = {e} /\ lost' = lost \cup victim
  /\ IF e \in DOMAIN pages
     THEN Drop(e, Swept, <<>>)
     ELSE evicting' = Swept /\ UNCHANGED <<pages, pending, graphs, call>>
  /\ UNCHANGED <<compute, q, deviceVars>>

(* clock_ns, or token_clock_ns of decode_priority, between two passes. *)
Clock ==
  /\ Idle /\ pc = "idle" /\ \E s \in Streams : q[s] # <<>>
  /\ \E wait \in {"syncAll"} \cup (IF "decode" \in ComputeStreams THEN {"syncDecode"} ELSE {}) :
       call' = Steps(<<wait, "sweep">>, CHOOSE e \in Catalog : TRUE)
  /\ UNCHANGED <<cacheVars, clientVars, victimVars, pageVars, compute, q, deviceVars>>

(* bind_decode_compute, before a pass. *)
Bind(s) ==
  /\ Idle /\ pc = "idle" /\ s # compute
  /\ compute' = s
  /\ UNCHANGED <<cacheVars, clientVars, victimVars, pageVars, call, q, deviceVars>>

(* What the decoder and the engine do without the device. *)
ClientStep ==
  \/ QueueShort /\ \E groups \in Routes : Cache!Route(groups)
  \/ \E plan \in Plans : Cache!RoutedDone(plan)
  \/ \E hot \in Hot : Cache!PinStart(hot)
  \/ \E b \in BOOLEAN : Cache!Compute(b)
  \/ Cache!PredictDone \/ Cache!LayerDone \/ Cache!PinsDone

Client == Idle /\ ClientStep /\ UNCHANGED <<victimVars, pageVars, compute, call, q, deviceVars>>

-----------------------------------------------------------------------------
Init ==
  /\ Cache!Init
  /\ victim = {} /\ lost = {}
  /\ pages = <<>> /\ pending = {} /\ evicting = <<>> /\ graphs = {}
  /\ compute = "prefill" /\ call = <<>>
  /\ q = [s \in Streams |-> <<>>] /\ busy = {} /\ live = {} /\ filled = {}

Next ==
  \/ \E s \in Streams : Start(s)
  \/ \E S \in SUBSET Streams : Finish(S)
  \/ Drained \/ Sweep \/ Fault \/ Ensure \/ Free \/ Fill \/ Gemm \/ Launch \/ Lease
  \/ Settle \/ Settled \/ Pinned
  \/ Prefetch \/ Acquire \/ Pin \/ Clock \/ Client
  \/ \E s \in ComputeStreams : Bind(s)
  \/ \E e \in Catalog : Evict(e)

Spec == Init /\ [][Next]_vars

-----------------------------------------------------------------------------
(* Properties. *)

(* "GEMM waits that event" (expertvm/README.md), "Copy-engine free must not race a
   compute-stream lease on the same page" (finish_drop): whatever the device
   starts is legal.  A kernel finds the expert's bytes, although gemm_resident
   gives the page's event away on its first use; no copy meets a freed page, and
   nothing is freed twice or under a running kernel. *)
DeviceNeverFaults ==
  \A s \in Streams : Startable(s) =>
    LET o == Head(q[s]) IN
    /\ o.op = "kernel" => o.page \in filled
    /\ o.op \in {"h2d", "free"} => o.page \in live
    /\ o.op = "free" => ~\E t \in Running : Head(q[t]).page = o.page

(* Between calls every resident expert has its page: a hit never ends in
   "missing handle" (acquire places the page of a miss only). *)
ResidentHasPage == Idle => resident \subseteq DOMAIN pages

(* Device memory is accounted for: every page on the device belongs to a key or
   its free is under way, and a key that left the cache without its page is one
   whose eviction place has not seen yet or was never told of (take_victim). *)
HbmAccounted ==
  /\ \A p \in live :
       \/ p \in Range(pages) \/ Queued("free", p)
       \/ \E i \in DOMAIN call : call[i].do = "free" /\ evicting[call[i].key] = p
  /\ DOMAIN pages \subseteq resident \cup victim \cup lost

(* An expert that is leased or kept hot keeps the page its kernels read. *)
HeldPageStays ==
  [][\A e \in DOMAIN pages \cap (leased \cup pinned) :
       e \in DOMAIN pages' /\ pages'[e] = pages[e]]_vars

(* ExpertStore: acquire is "Ok(parts) on hit or fill" and Cold is "Not in the
   fast tier and not in flight.": an expert just acquired can be leased. *)
LeaseFollowsAcquire == Now("lease") => Leasable(K)
=============================================================================
