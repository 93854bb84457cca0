# A TLA+ model of llama-rust

llama-rust is a from-scratch language-model runtime in Rust: it loads a model
file, computes forward passes on the CPU, keeps the attention state of many
sequences in a paged cache, schedules them together and serves them over HTTP;
experts of mixture-of-experts models are paged through a bounded cache, and a
GPU simulator prices all of it. This directory holds TLA+ modules of the parts
with control state, TLC runs that check them on small instances, and proofs that
TLAPS checks.

`PROJECT.json` is the machine-readable index: components, runs, mutants, the map
from every definition to the lines it models, findings, hazards and theorems.

## 1. Inventory

| Part | Code | State | Operations | Hard because | Module |
|---|---|---|---|---|---|
| paged KV pool | `langtax/src/kv_page.rs` | `refs`, `by_hash`, K/V arena; one block table per cache | alloc (with eviction), retain/release, bind_full_prefix, intern_full, ensure_write (fault, copy-on-write), rewind, drop | blocks shared by caches and by the intern table; reservations that fail half way; any order of calls | `KvPool` |
| KV cache | `KvCache` and `prefill_logits`, `prefill_batch`, `forward_batch` in `decode.rs` | `n_past`, ids, block table or dense buffer | prompt_suffix, prepare_append, prefill, batched forward, preempt | prefix reuse must not change a bit of the result; a failed forward pass leaves half-written K/V | `KvPool`, `DenseKv` |
| engine | `engine.rs` | slots, wait queue, finished outputs, the pool, per slot: logits, generated ids, replay counter | add, take, step (retire, admit, prefill and replay, sample, forward), run | preemption in the middle of a batch, replay of sampled ids, retries, cancellation between steps, progress | `Engine` |
| row worker pool | `pool.rs`, `gemv_range_into` in `decode.rs` | staging vector, job channel per worker, reply channel, spare buffers | new, run, worker_loop, drop | real threads: lost workers, stale replies, bounded channels, shutdown | `WorkerPool` |
| bounded expert cache | `expertvm/src/store.rs`, `tiered.rs`; `prefetch_routed`, `prefetch_selected`, `take_expert`, `put_expert` in `decode.rs`; `pin_predicted` in `engine.rs` | resident set, recency list, leases, pins | acquire, lease, release, prefetch, pin_hot, unpin_all, evict | failing loads after an eviction, errors between lease and release, pins against demand | `ExpertCache` |
| event-loop HTTP server | `serve_engine.rs` | connections with read and write buffers, a request, a sequence, timers; the engine | poll (expire, reap, accept, read, admit, step, stream, harvest, write) | clients that stall, vanish, pipeline, flood; every exit has to release its sequence | `ServeEngine` |
| simulated GPU store | `expertvm/src/gpu_store.rs`, `live.rs`, `kv.rs` | next to a cache: pages of device memory, ready events, pages being evicted, captured kernels | prefetch, acquire, lease, pin_hot, evict, phase, clocks | the device runs behind the host's back: copies, kernels and frees in flight while the cache moves on | `GpuStore` |
| blocking server, session, CLI, tools | `serve.rs`, `session.rs`, `cli.rs`, `main.rs`, `store_attach.rs` | none across requests (a session is one cache) | one request or command at a time | no concurrency | not modelled |
| arithmetic | `quant.rs`, `simd/`, `fp16.rs`, most of `decode.rs` | none | matrix products, norms, rotary embedding, sampling filters | numerics, not control | not modelled |
| model file, text | `gguf.rs`, `tok.rs`, `pretok.rs`, `ucd.rs`, `template/`, `sample.rs` | none | parsing and conversion | large inputs, no state | not modelled |
| planning and offline tools | `expertvm` planner, policy, place, schedule, replay, analyze, workload, bench | counters | heuristics over traces | advice only; the cache accepts any advice | not modelled |
| GPU simulator | `gpu-sim/` | simulated clocks, memory, streams, events | driver-like calls | a program of its own, several times the runtime | streams, events and compute slots in `GpuStore` |
| CUDA, benchmarks | `native-cuda/`, `infer-bench/`, `benchmarks/` | device handles, counters | driver calls, measurements | no control of their own | not modelled |

How the parts meet:

- The server owns one `Engine`; it calls `add`, `step`, `generated`, `take` from
  one thread. The engine owns a `PagedKvPool` and hands every slot a `KvCache` on
  it. The pool is `Rc<RefCell<..>>`: calls never overlap, but every call loops
  and can fail in the middle, and the next call, by another cache, finds what
  the first one left.
- A forward pass writes the K/V of the positions its caller reserved. On the CPU
  its matrix products go through the `Pool` of row workers, the only threads of
  the runtime.
- A mixture-of-experts layer takes its experts through a `LiveStore`, which the
  engine parks on one cache of the batch for the length of the call and pins
  again afterwards.

What makes each part right is stated as properties in its module. In one line
each: the pool counts exactly and never changes what a cache reads; the engine's
outputs are those of one sequence decoded alone, in arrival order, leaving
nothing behind, and it makes progress; the server answers every request once, in
order and in one piece, and a connection that ends takes its sequence along; a product that succeeds is complete and a
pool that is dropped goes away; the expert cache neither loses nor leaks an
expert and always has room for the next one; the GPU store never lets a kernel
read a page that is not filled yet or is freed already, and accounts for every page on the device.

## 2. Modules

```
DenseKv  <--- implemented by --- KvPool <--- INSTANCE --- Engine <- MCEngine
                                   ^                        ^
                                   |      EngineOutputProofs -> EngineProofs
                                   |                     (uses KvContentProofs)
                    KvContentProofs -> KvPoolProofs               MCKvPool
ExpertCache  <--- INSTANCE --- GpuStore <- MCGpuStore, GpuStoreProofs
     ^                                        (uses ExpertCacheProofs)
ExpertCacheProofs, MCExpertCache
WorkerPool <- WorkerPoolProofs, MCWorkerPool
ServeEngine <- ServeEngineProofs, MCServeEngine
```

**KvPool** - the arena and all caches on it. A K/V vector is represented by the
sequence of token ids it was computed from, so "the same K/V as dense decode" is
an equation: position `p` must hold the first `p+1` ids. A forward pass reads
its context through the block table and extends *what it finds*; if the table
leads to somebody else's vectors the result shows it, and a block that nobody
counts is filled with `Garbage`. The prefix hash is represented by the prefix.
A call is atomic until it reserves positions: then each iteration of
`ensure_write` (fault, copy, or nothing to do), each job of a batch, the forward
pass and each commit is a step, because each may fail and leave the earlier ones
done. `phase`, `op`, `jobs`, `at`, `pos` say where the call is; they have no
counterpart in the code but its program counter. Hash-table order in `alloc` is
arbitrary, so the evicted entry is chosen nondeterministically. A failed forward
pass leaves garbage in every position it was to write.

**DenseKv** - what a cache promises, without blocks: a vector per position,
created, forgotten, positioned inside a prompt, extended. `Position` says how far
a prompt may be taken as read: never past its last token and never less than the
common prefix (less that one token).

**Engine** - one scheduler. `Pool!` is KvPool with the sequence numbers as
caches. `pc` follows the code of `step`: `retire_done`, `admit`,
`prefill_and_replay` (one job is served alone, several as a batch), `decode_ready`
with its forward batch, and `on_cap`/`preempt_except` wherever a cache call
returns the page cap. `add` and `take` happen between steps, which is when an
owner can call them. `Greedy` is any function of the text the logits were
computed from; the logits of a slot are represented by that text, so a stale one
is visible. Every sequence's `max_seq` is `n_ctx`. `PoolUsedLegally` says that the
engine's behaviour, seen on the pool's variables, is one of KvPool's: KvPool was
written for any legal caller, and this is the caller the program has.

**ServeEngine** - `poll`, stage by stage. A stage in which a socket or the clock
decides something visits one connection per step, in the order of `conns`; the
others are one step. Bytes are counted in fragments of input and pieces of output
(a whole response; or head, token chunk, last line, end; or an error), so the
limits `MAX_REQ` and `MAX_STREAM_PENDING` are small numbers and a write can stop
between any two pieces. Pieces are of one size but for the echo of a prompt: a request
of kind `echo` is one whose echoed prompt alone is over `MAX_STREAM_PENDING`, so that
`admit_parsed` starts its sequence and closes its connection at once, and the reap
that follows releases the sequence. A client sends one of a few scripts and owes nothing: it
may stop sending or reading, end or reset the connection at any point. A deadline
may pass whenever its condition holds, because an engine step may take any time.
The engine is what `Engine` promises the server: a step may give any running
sequence a token and may finish it, and goes on doing so. `taken`, `last` and
`cut` of a connection are history, for the properties. `queue_missing` is not
modelled: `finish_seq` only reaches it for a sequence that the engine has just
called finished and does not have.

**WorkerPool** - the caller's `run`, each worker's loop and `drop` interleave
freely; channels have the code's bounds. A task moves from channel to worker with
its clone of the staging vector, which is dropped before the reply is sent. A
kernel may refuse a range, or panic (`Panics` says whose). Unwinding drops the
input and the reply sender before the job channel, in the order Rust drops locals
and parameters, so the two are separate steps. The channels are the external part.

**ExpertCache** - one `CachedStore` or `TieredStore` with the decode code that
drives it, layer by layer: `prefetch_routed` in groups, `prefetch_selected`
with any plan, then every routed expert in order with its lease, then the
engine's pins. Loads may fail (a file read of the tiered store), products may
fail, plans and pins may name experts that do not exist. `Prefetching` is false under
`Prefetch::None`, where nothing is prefetched and every expert is paged on demand.

**GpuStore** - `ExpertCache` with the device behind it: its actions are those of
the cache, performed on the variables the two modules share. A call of the store is
a list of steps, `call`, because it may wait in the middle: `waitCompute`,
`syncCopy` and the like are steps during which the host waits for streams, and only
then does the device move, as in `sim.rs`, where submitting an operation computes
nothing and `synchronize` drives the clock. What the device does then is any
interleaving that keeps each stream in order, respects events and runs at most
`Kernels` (compute slots) kernels at once; the simulated times, which decide among
these, are left out. A page is a number; `live` and `filled` are what the device has
allocated and copied. `Fault` is one key of `CachedStore::prefetch`; `CacheFault`
keeps only the last victim, as `take_victim` does, so a call that evicts two
experts places one page too many until the other key is placed again: `lost`, an
auxiliary variable, collects those keys. `HbmAccounted` says nothing else is ever left
over; of the `lost` pages themselves it says nothing, and no property bounds them. One GPU, pinned fills, transfers that succeed.

## 3. Runs

Every property of a passing run also has a mutant in `PROJECT.json`: the same
run with one definition replaced by a plausible mistake, which TLC must catch.

| Run | Instance | Checks | Result |
|---|---|---|---|
| kv_pool | 2 caches, 3 blocks of 2 tokens, `MaxSeq` 4, prompts `aaa` and `aaba`, whole or 2-token chunks, 2-position reservations, batches of up to 2, failing passes | `TypeOK RefsExact Covered KvMatchesDense InternedExact WritesExclusive PreparedHolds`, refinement `PagedIsDense` | holds |
| engine | 4 sequences, 2 slots, 3 blocks, cancellation | `OutputsGreedy KvFollowsText ArrivalOrder OnePlace BatchNeverCaps StallFree`, legal use of the pool `PoolUsedLegally` | holds |
| engine_tight | 3 sequences, 2 slots, 2 blocks, cancellation, fairness | `FailsOnlyFull AllFinish` | holds |
| engine_server | 4 sequences, 2 slots, 6 blocks (the server's formula), 1-token chunks, `decode_first`, an end token | `NeverCaps` | holds |
| engine_livelock | 3 slots, 2 blocks of 3, 3-token prompts in 1-token chunks, fairness | `AllFinish` | **violated**, finding 1 |
| serve_engine | 2 connections, 5 scripts (two pipelined streams and a request after `close`; split, pipelined and oversized input; a stream with oversized input; a refused request; an echoed prompt too long to retain), up to 2 tokens, 2 fragments of input, 3 pieces of output, failures, fairness | `SequencesOwned AnswersInOrder IdleOwesNothing RetainedBounded EveryAnswered` | holds |
| serve_engine_flood | 1 connection, a stream with oversized input | `ErrorsFramed` | **violated**, finding 3 |
| worker_pool | 2 workers, 2, 3 or 7 rows, 3 products, anyone may panic, fairness | `GemvExact StagingFree RunsEnd DropJoins` | holds |
| worker_pool_lost | 2 workers, one product, a worker may panic, fairness | `RunReturns` | **violated**, finding 2 |
| expert_cache | 4 experts, 3 slots, failing loads and products, bad predictions | `RecencyExact LeaseScoped DemandServed KeepHotStays` | holds |
| gpu_store | 4 experts, 2 slots, a copy stream and two compute streams, one kernel at a time, evictions by hand; 1.4 million states | `TypeOK DeviceNeverFaults ResidentHasPage HbmAccounted HeldPageStays` | holds |
| gpu_store_lease | the same with one compute stream and no eviction by hand | `LeaseFollowsAcquire` | **violated**, finding 4 |

Why the bounds are enough for the question asked:

- *kv_pool*: two caches and three blocks are the least in which a bound prefix is
  shared, copied because shared, evicted because unheld, and the cap is met while
  both hold something. The prompts share one full block and then differ, so
  binding, partial reuse and divergence inside a block all happen; four positions
  make "prompt ends at a block boundary" and "in the middle" both reachable.
- *engine*: four sequences on two slots leave two in the queue, which the order
  properties need; three blocks are one short of what two sequences want, so
  preemption happens in prefill, in replay and in decode, and to a batch member.
- *engine_tight*: with two blocks a single sequence may own the pool, the only
  situation where the engine may give up, and it does, so `FailsOnlyFull` is about
  states that occur.
- *engine_server*: 6 = 2 slots x (2 blocks + 1 spare).
- *serve_engine*: two connections are enough for one to end while the other's
  sequence runs; the scripts contain two streams in a row (what is not reset shows
  in the second), a request behind one that asks to close, and input over the
  limit in both kinds of answer; a stream that finishes with its last token still
  unsent needs three pieces, so a slow reader is cut off and a fast one is not; an
  echo over the limit closes its connection in the stage that admits it, with the
  sequence already in the engine.
- *worker_pool*: 2 rows leave one worker without work, 3 give each thread one row,
  7 end in a short range; three products let a panic in the first be met by the
  sending of the second and its leftovers by the third.
- *expert_cache*: three slots leave a pin budget of two; routes of one to three
  experts fill the cache exactly, and four experts force evictions. `Prefetching` is
  `TRUE` in the runs; without it a layer pages on demand, the path that a route
  larger than the cache takes in the *gpu_store* run.
- *gpu_store*: two slots make every layer with a new expert evict, a route of three
  exceeds the cache and is computed expert by expert, and a kernel of one pass on
  `prefill` can be in flight while `decode` runs the next. One kernel at a time is
  the tight case: a slot that is taken delays the other stream.

Every counter that the code leaves unbounded is bounded by a constant: sequences
by `NumSeqs`, products by `MaxRuns`, texts by `MaxSeq`, and operations left in the
streams when a layer begins by `MaxQueue` (a host that never waits could queue for
ever).

`CHECK_DEADLOCK FALSE` is set for the server, which ends on an error of accept, of
the engine or of its trace file, for the engine, which has nothing to do when
everything is finished, and for the worker pool, which ends when it is dropped.

### Fairness

- `Engine!FairSpec` is weak fairness of `StepOnce`: whoever owns an engine with
  unfinished work keeps stepping it (`Engine::run` is a loop, and the server calls
  `step_if_busy` on every poll). Nothing is assumed of `add` and `take`.
- `ServeEngine!FairSpec`: `run_loop` calls `poll` for ever (weak fairness of `Next`);
  a write deadline that keeps being passed is seen by some poll (strong fairness,
  as it is only looked at in one stage); a sequence that runs advances (strong
  fairness of `StepIfBusy` for that sequence: this is what `AllFinish` says of the
  engine, within the limits of finding 1). Clients are under no fairness.
- `WorkerPool!FairSpec` is weak fairness of the caller's steps and of each worker's
  steps, i.e. of the operating system's threads. Beginning a product, panicking and
  dropping the pool are never forced.

### Findings

1. *Chunked prefills can preempt each other for ever* (`engine_livelock`).
   `Engine::run` promises to step "until every admitted sequence is finished"; the
   victim is the slot with most tokens, which is the one that just made progress,
   and every step returns a positive count.
2. *A lost worker hangs the caller* (`worker_pool_lost`). `Pool::run` promises
   `false` when "a worker is gone"; `recv` only fails when all of them are.
   `RunsEnd` shows this is the only way to hang.
3. *An error inside a stream* (`serve_engine_flood`). The server reads a streaming
   connection between writes; input over `MAX_REQ` makes `queue_err` put a whole
   HTTP error into the output, after the head of the stream and before its end.
   `queue_stream` says why this must not be done.
4. *An expert just acquired may be refused its lease* (`gpu_store_lease`). The
   prefetch of a layer can evict one of the layer's own experts, because `prefetch`
   does not make resident keys recent; when `acquire` faults it in again its old page
   is still listed in `evicting`, which `phase` asks before anything else, and
   `lease` refuses a key in phase `Evicting` or `Cold`.

## 4. Proofs

Every theorem is about all values of the constants that the named assumption of its
component allows. Each component has one inductive invariant; the theorems below
are its consequences.

### KvPool: counts (`KvPoolProofs`)

For every finite set of caches, every vocabulary, block size, number of blocks, set
of prompts and batch size allowed by `KvAssumption`:

- `TypeCorrect`: `Spec => []TypeOK`. The part that matters is `refs \in [Block ->
  Nat]`: no release takes a count below zero.
- `RefsAlwaysExact`: `Spec => []RefsExact`.
- `AlwaysCovered`: `Spec => []Covered`.

All three follow from the theorem `Invariant`: `Spec => []IInv`, where

    IInv == Counted /\ Covered /\ CallShape
    Counted == TypeOK /\ RefsFinite /\ RefsExact

Neither `TypeOK` nor `RefsExact` is inductive alone. That a decrement stays in
`Nat` needs the exact count; that the count stays exact when a table is replaced
needs the sets of references to be finite (`RefsFinite`); that `Commit` may intern
block `i` of a cache needs the table to be long enough (`Covered`); and `Covered`
across the steps of a call needs to know that a batch names every cache once and
which groups are still to be committed (`CallShape`).

The argument: the reference set of a block is a disjoint union over caches, so
replacing one table changes one summand (lemmas `OccFinite`, `ColumnCount`,
`Recount`, `RetableCounts`); allocation only hands out blocks with no reference, or
with the single intern reference it removes (`AllocUnnamed`); a bind adds one table
reference per entry found; interning adds exactly the new entries (`InternCounts`).
Each action then has one step in the proof that the invariant is preserved, split by
conjunct.

### KvPool: contents (`KvContentProofs`)

`ContentInvariant`: `Spec => []KvInv`, where `KvInv == IInv /\ Exclusive /\ Exact`,
gives

- `WritesAlwaysExclusive`: what a forward pass writes has one name, for the whole
  batch.
- `PreparationAlwaysHolds`: what `prepare_append` secured stays writable.
- `InternedAlwaysExact`: an interned block holds the K/V of its prefix.
- `AlwaysMatchesDense`: every cache reads K/V computed from its own ids.

`WritesExclusive` speaks of the moment the pass starts; the invariant needs what
leads there, position by position: `Exclusive` says that every position reserved so
far, by the running job and by the jobs before it, is in a block with count 1.
A count of 1 in a table entry means that this entry is the block's only name
(`SoleRefs`, which is where `RefsExact` is used), and no reservation, bind, release,
eviction or commit of another cache can name it (`RetableSole`, `FaultSole`, `CowSole`, `InternSole`).
`Exact` says what blocks in use hold, including the positions a pass has
computed and `Commit` has not yet counted. It is kept by every step that moves tables because
what an entry led to is still there (`ContentKept`, `RebindReads` for the bound
blocks); by the forward pass because it writes where nobody else reads
(`FilledNotWritten`) and each offset has one writer (`WriterUnique`); by a failed
pass for the first reason alone; and by `Commit` because a block boundary of the text
is a block of the table (`InternExact`).

### KvPool implements DenseKv (`KvContentProofs`)

`PagedImplementsDense`: `Spec => PagedIsDense`. By `Exact` the refinement mapping,
stated through `Read`, is a function of `ids` (`ReadsVecs`), so only the steps that
change `ids` or `live` are steps of `DenseKv` (`CreateStep`, `ForgetStep`,
`PositionStep`, `ExtendStep`) and all others are stutters. `Legal` is the rest of
what `DenseKv` asks for: the tokens of a call are sampled or a piece of a prompt, and
fit in `MaxSeq`. `DenseKv!Spec` states no fairness, so this is safety.

### KvPool: calls that cannot fail, and a full pool (`KvContentProofs`)

`PreparedCallsNeverCap`: `Spec => [][CapError => ~(Len(jobs[at].toks) <=
prepared[jobs[at].seq])]_vars`. A job that is found short of a block has more tokens
than were prepared for its cache. `PreparedHolds` says that the prepared positions
are in blocks of the cache alone; that the call is at one of these positions and
not before them is `Onward`.

Two more invariants describe a pool from which nothing was to be had, for the callers
that meet one. `Held`: a cache that is gone has no table, and as long as
the last result is the page cap no block is free or evictable. Every block is then in
some cache's table (`SpentNamed`): a block that only the intern table names has count
1 and could be evicted, unless two prefixes name it, which their content excludes
(`OneInterned`). `Small`: no text or interned prefix is longer than `MaxSeq`, so no
table is longer than `TableMax`, also when `prompt_suffix` binds interned blocks for a
prompt that is too long.

### ExpertCache (`ExpertCacheProofs`)

For every catalogue, capacity, routing, plan and pin list allowed by
`CacheAssumption`:

    IInv == Listed /\ WithinSlots /\ PinsFit /\ LeaseScoped /\ CallOK

`CacheInvariant` is `Spec => []IInv`. `CacheTypeCorrect`, `RecencyAlwaysExact`,
`LeasesScoped` and `DemandAlwaysServed` follow from it; `KeptHotStays` is an action
property: no step but the engine's own replacement of its pins takes a pinned
expert out. `RecencyExact` needs the list to name every key once (`Listed`), or
removing a key would leave another copy of it. `DemandServed` is not inductive: it
holds because pins leave one slot free (`PinsFit`) and no lease outlives its product
(`LeaseScoped`), so a full cache holds an expert that is neither. `CallOK` is what the
running call has still to do. The list changes by removing a place and appending a
key (`RemoveOnly`, `AppendNew`); that a victim exists when something is not held is the
least-element lemma `MinIn` over places (`VictimFree`).

### GpuStore (`GpuStoreProofs`)

For everything `ExpertCacheProofs` allows, a catalogue that is not empty, one compute
stream or two, any number of compute slots and any bound on the queues
(`GpuAssumption`):

    GpuInv == C!IInv /\ Typed /\ Device /\ PagesOK /\ PlacesOK /\ CallShape

`GpuInvariant` is `Spec => []GpuInv`; `DeviceNeverFaultsAlways`,
`ResidentAlwaysHasPage`, `HbmAlwaysAccounted`, `GpuTypeCorrect` and
`HeldPageAlwaysStays` follow. The cache's own invariant `C!IInv` holds because the
store moves the cache by the cache's steps (the `Same...` lemmas identify the two
instances).

- `Device` ties memory to the queues: the copy stream fills a page in order and once,
  before it frees it (`CopyOK`); a page that somebody owns is in memory unless its
  `alloc` is still queued, and filled unless its copy is (`MemoryOK`); kernels are
  queued only on pages that are filled and not given up (`ReadersOK`).
- `PagesOK`: no two keys share a page, and a page whose event has been given away is
  filled, or the call is waiting for the stream that waits for it (`Waited`). This is
  why `gemm_resident` may take the event away with the first use.
- `PlacesOK`: a key with a page is resident, the victim in hand or an overwritten
  victim (`lost`), and a resident key without a page gets one before the call is over.
- `CallShape` is what the rest of the running call may assume, step by step: a free
  comes right after the wait for compute, a fill after the victim's free, a lease is
  the last step.

`DeviceNeverFaults` is not inductive: that a free finds no reader depends on what was
queued before the host waited, and that on which pages the call has given up. Each
step of a call has a lemma for the queue it appends to and one for each conjunct it
can disturb.

### WorkerPool (`WorkerPoolProofs`)

For every number of workers and every set of row counts allowed by the module's
assumption:

    IInv == /\ TypeOK /\ BusyTyped
            /\ Live => Shape
            /\ Active => RunOK
            /\ pc \in {"idle", "fallback"} => RestOK
            /\ Active \/ pc = "fallback" => job # 0
            /\ GemvExact

`PoolInvariant` gives `PoolTypeCorrect` (no more rows are counted than there are),
`GemvAlwaysExact` and `StagingAlwaysFree`. `Shape`: a worker's channel holds at most
one task, and none while it is busy. `RunOK` (`TasksOK`, `OutputOK`, `CountsOK`): the tasks
still with workers and the replies not yet collected are ranges of the current product, apart from one
another and from the rows written, the count of rows is the number of rows written,
and no more replies are on their way than the caller still waits for. A count that
reaches the number of rows therefore means every row, and none is left over when
`run` returns (`RestOK`).

### ServeEngine (`ServeEngineProofs`)

For every finite set of connections, all sets of scripts and every value of the
limits allowed by `ServeAssumption`:

    IInv == PlacesOK /\ ScriptsOK /\ ConnsOK /\ EngineOK /\ DOMAIN got = Conns

`ServeInvariant` is `Spec => []IInv`; `ServeTypeCorrect`, `SequencesAlwaysOwned` and
`RetainedAlwaysBounded` follow. `EngineOK` ties the engine's sequences to the fields `seq` of all connections; the rest speaks of one connection
at a time (`Sound`): `Shape` is what its fields say of each other, and `Owes` how far
the answers have come. `IdleNeverOwes` follows from `IInv /\ Attends`: `Attends` says
that a connection on which nothing is pending has no complete request in its buffer,
since every stage that reads (`ReadHeard`) or ends an answer (`FinishWriteHeard`) tries
to take the next one. The other half is not inductive either: that nothing is owed when
the output is empty needs to know, before that, which answer the last piece queued
(`Tip`) belongs to. A refused or abandoned connection is exempt from `Owes` but keeps only
what leads to its end (`Refused`). Every stage that changes one connection has a lemma on its
record (`ReadGood`, `WriteGood`, `AdmitGood`, `StreamGood`, `FinishSeqGood`), and
`OneConn` or `ConnsChange` carries it over to all; `ReapedOK` is the stage in which
connections disappear together with their sequences.

`AnswersAlwaysInOrder`: `Spec => []AnswersInOrder`, from `IInv /\ TellsInOrder`:

    TellsInOrder == /\ \A c \in Range(open) : Told(c, conn[c], got[c])
                    /\ \A c \in Conns \ Range(open) : InLine(c, conn[c])
                    /\ \A c \in Conns \ arrived : got[c] = 0
                    /\ StreamsMade
    Told(c, k, g) == InLine(c, k) /\ (~k.done => Buffered(c, k, g) /\ Alive(c, k) /\ Streams(k))

`InLine` is the property with its gaps closed: each piece of the buffer goes on from
what was said before it, and an error is the first piece of its buffer, so that at most
one piece lies between two answers. The rest is what has to be known before the next
piece is queued. A new answer may follow only if the one before asked to go on, which
`Alive` reads from `keepAlive` and `Buffered` from the script: the read buffer is a part
of what the client sent, and the requests before it are those that were taken. A chunk
of a stream starts where the last ended (`Streams`), also when a refusal has been queued
in between, which `IInv` exempts from `Owes` and the code goes on streaming after. The
last line tells as many tokens as were streamed only because `stream_progress` runs
between the engine's step and `harvest` (`StreamsMade`).

### Engine: places and calls (`EngineProofs`)

For every number of sequences, slots, blocks, every set of requests, chunk size and
order of service allowed by `EngineAssumption`:

- `AlwaysOnePlace`: `Spec => []OnePlace`. `AlwaysInOrder`: `Spec => []ArrivalOrder`.

Both follow from `PlacesInvariant`, `Spec => []Placed`, which speaks of `next`, `req`,
`slots`, `wait`, `finished`, `taken`, `done` and `live` only: the lists name numbers that
were given out and the queue rises (`PlacesOK`); every such number is in one of the four
places, in at most one slot, and has a cache only while it runs (`Apart`); everyone in
the queue is younger than everyone who runs (`InTurn`). `ArrivalOrder` needs the
last part before a slot is filled: `add` fills a slot directly only when nobody waits.

The second half is the induction on `Known`:

    Known == Placed /\ P!KvInv /\ Calls /\ ModeOK

`P!KvInv` is the pool's own invariant, proved in `KvContentProofs` for any legal caller.
It holds in the engine because each of the engine's calls is a step of KvPool, which
needs the engine's state to say what the call is about: which slots a batch names and
that they are distinct and alive (`CtlOK`), what the running call belongs to (`PassOK`), that an outstanding suffix fits
what is left of the sequence's prompt (`SuffixOK`), and that prompt and output fit
`MaxSeq` (`TextOK`). The pool is instantiated a second time, as `P`, because its theorems are
in a module that `Engine` does not extend; the `Same...` lemmas say that the two
instances are one specification.

### Engine: reservations and errors (`EngineProofs`, concluded in `EngineOutputProofs`)

- `BatchAlwaysReserved`: `Spec => []BatchNeverCaps`.
- `ErrorOnlyFull`: `Spec => []FailsOnlyFull`.
- `ServerNeverCaps`: if `Cap > MaxSlots * Pool!TableMax` then `Spec => []NeverCaps`.
  The server's pool has `max_seqs * (ceil(n_ctx / block_size) + 1)` blocks, which is
  `MaxSlots * (TableMax + 1)`.

They need `GreedyIsToken` (below) and follow from `EngineReserves`, `Spec =>
[]Provided`:

    Provided == Correct /\ PoolKnown /\ ReserveOK /\ SerialOK /\ FailsOnlyFull

`PoolKnown` is what the pool keeps under any caller (`Legal`, `Onward`, `Held`,
`Small`). `ReserveOK` follows a batch from its first `prepare_append` to the end of the
batched call: the members before the `k`-th have as many positions prepared as they
will append (`Granted`), the reservation in progress asks for what the `k`-th will
append, and a call that runs with all of them granted has not met the cap. What could
break it is a member whose part changes after its reservation, or whose cache is
rewound; both happen only to the member in hand (`BatchSuffixReserves`), and a
preemption starts the batch over. That a granted reservation outlives those of later
members, which copy, evict and fault, is the pool's `PreparedHolds`.

For `FailsOnlyFull`: at the step into the error nobody else holds anything, `Held` says
that no block is free or evictable, so all blocks are in the one table left
(`SpentNamed`, `ErrorFull`); `SerialOK` says whose table it is. For `NeverCaps` the same
facts put every block into a place of some slot's table, and there are more blocks
than places (`SpareNeverCaps`).

### Engine: outputs (`EngineOutputProofs`)

Under `EngineAssumption`, and for every `Greedy` with `GreedyIsToken` (the model's
choice on a text of tokens is a token; a hypothesis of the theorems and not an `ASSUME`, since TLC
cannot quantify over all texts):

- `AlwaysGreedy`: `Spec => []OutputsGreedy`. Batching, preemption, replay, reuse of
  prefixes and cancellation of others change no token of any answer.
- `AlwaysFollowsText`: `Spec => []KvFollowsText`.
- `EngineUsesPool`: `Spec => PoolUsedLegally`.
- `EngineTypes`: `Spec => []TypeOK`.

All four rest on `EngineCorrect`, `Spec => []Correct`:

    Correct == Known /\ Output /\ OutputsGreedy
    Output  == RowsOK /\ SuffixText /\ JobsOK /\ ItemsText

`OutputsGreedy` alone is not inductive: the next token is `Greedy` of the text the
kept logits were computed from, so those logits have to be known to belong to the whole text so
far (`Fresh`), which is exactly what a preemption breaks and the replay restores.
`RowsOK` therefore says, of each running sequence, that its cache holds a beginning of prompt and
output (`Follows`), that `replay` counts the output tokens in it once the prompt is
complete (`Aligned`), and that logits that are kept are those of the ids in the cache.
While a batched pass is committed one job at a time, the caches it has advanced are one
token ahead of `replay` until the engine counts them (`Committed`, `Stepped`).
`SuffixText`, `JobsOK` and `ItemsText` say that what is on its way into a cache, an
outstanding suffix, the tokens of the running call, the members of a batch that decodes,
continues the text where the cache ends. `KvFollowsText` then combines `Follows` with
the pool's `Exact`; `PoolUsedLegally` needs `JobsOK` for the tokens of every call.

### Engine: progress (`EngineOutputProofs`)

- `NeverStalls`: `Spec => StallFree`, under `GreedyIsToken`: the "engine stall" error of
  `Engine::run` is unreachable.

`StallFree` speaks of the last step of an engine step only, so two invariants are needed
beside `Correct` that know during the step why it will have done something. `RipeOK`: a
running sequence that is not done and whose prompt is in has logits, or tokens to
replay, except while the pass that has just taken it on is being committed. `StallOK`:
what is left to do in an engine step that has done nothing so far. Somebody who runs is
not done; in the serial loop the slot in hand is a prefill, or no slot before it is; at
`replays` somebody decodes, and at `sample` somebody is ready. The hard case is a
preemption in the serial loop: it turns a slot that was passed over into a prefill
again, but only to serve the slot in hand, which then makes the progress.

### Only model-checked

Liveness under fairness (`AllFinish`, `EveryAnswered`, `RunsEnd`, `DropJoins`) and
`ENABLED` are out of the prover's reach and stay with TLC, and so does what recursive
definitions compute for every input.

## 5. What is abstracted, and what that hides

- K/V vectors, logits and weights are the texts or names they stand for. Numerics
  cannot go wrong in the model.
- Prefix hashes do not collide.
- The arena grows up to its capacity in the code and exists from the start in the
  model; a block never handed out is a free block.
- Statistics, traces, logging and the simulator's op log are left out. The time a
  step takes is left out, so the deadlines (`slo_reject`, `ttft_slo_ns`) are not
  modelled, nor are the store parked on a cache and the hybrid models that are
  never batched.
- The engine is stepped by one owner and stops being stepped after an error, as in
  `run`, the server and the tests.

### Not modelled

- *The GPU simulator and its tests* (`gpu-sim/src/lib.rs`, `sim.rs`, together more than half of
  the repository's lines) reproduce a driver's interface call by call; `GpuStore` models the
  streams, events, compute slots and allocations that the expert store uses, and
  replaces simulated time by any order of completions.
- *`GpuStore`* has one GPU and pinned fills. Managed, mapped and virtual-memory
  fills, mailboxes, replicas and migration between GPUs, failing transfers and
  running out of device memory are further modes of the same functions.
- *Arithmetic* (`quant.rs`, `simd/`, most of `decode.rs`) has no control state: a
  model could only repeat the formulas.
- *Parsing and rendering* (`gguf.rs`, `tok.rs`, `template/`, `serve.rs`, `cli.rs`) is
  a function of its input.
- *Offline tools* (`sim_replay.rs`, `replay.rs`, `analyze.rs`, `workload.rs`, `schedule.rs`)
  run recorded traces on one thread and print scores.

Together these are most of the repository's lines, so the share of lines that
definitions stand for is small; the parts with state that outlives a call are the
ones in the table of section 1 that name a module.

## 6. Plan

1. **ServeEngine on Engine**: an abstract engine as a module of its own, which
   `ServeEngine` uses and `Engine` is shown to implement (tokens only grow, a
   sequence taken is gone, `AllFinish`).
2. **Engine**, completed: parking of the expert store and prefetch chain around
   each pass (`with_store_parked`, `reclaim_parked_stores`), with the property that
   the store is in exactly one place, also after errors and cancellations; the
   deadlines of `slo_reject`.
3. **GpuStore**: failing transfers and several GPUs.
4. Proofs of the properties these additions bring.
