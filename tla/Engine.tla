------------------------------- MODULE Engine -------------------------------
(***************************************************************************)
(* The continuous-batching scheduler of engine.rs on a shared paged pool.   *)
(*                                                                         *)
(* One Engine::step retires finished slots, admits waiters, runs prefill    *)
(* chunks and replays together, then samples one greedy token per ready     *)
(* slot and forwards it.  A "kv page cap" error preempts another slot and   *)
(* retries.  The pool's own steps are those of KvPool, whose variables this *)
(* module shares: a call into a cache runs to its end before the engine     *)
(* moves on.  Between steps the caller may add a sequence or take one back. *)
(*                                                                         *)
(* Sequence ids are 1, 2, .. in the order of add.  Logits are represented   *)
(* by the token ids they were computed from and argmax by Greedy.           *)
(***************************************************************************)
EXTENDS Integers, Sequences, FiniteSets, SequencesExt

CONSTANTS
  NumSeqs,      \* bound: how many sequences are ever added
  Requests,     \* [prompt, predict] a caller may ask for
  MaxSlots,     \* EngineCfg::max_seqs
  Chunk,        \* EngineCfg::prefill_chunk
  DecodeFirst,  \* EngineCfg::decode_first
  Eos,          \* EngineCfg::eos
  Greedy(_),    \* argmax of the logits after a token sequence
  MayCancel,    \* whether callers take unfinished sequences
  Token, BlockSize, Cap, MaxSeq, Garbage,
  None

ASSUME EngineAssumption ==
  /\ NumSeqs \in Nat \ {0} /\ MaxSlots \in Nat \ {0} /\ Chunk \in Nat
  /\ DecodeFirst \in BOOLEAN /\ MayCancel \in BOOLEAN
  /\ None \notin 1 .. NumSeqs /\ None \notin Seq(Token)
  /\ \A r \in Requests : /\ r.prompt \in Seq(Token) /\ Len(r.prompt) > 0
                          /\ r.predict \in Nat
  /\ Token # {} /\ Garbage \notin Seq(Token)
  /\ BlockSize \in Nat \ {0} /\ Cap \in Nat \ {0} /\ MaxSeq \in Nat \ {0}

VARIABLES
  refs, byHash, content, live, table, ids, suffix, prepared,
  phase, op, jobs, at, pos, result,
  next,       \* next_id
  req,        \* request of each sequence added so far
  slots,      \* running sequences, by slot index
  wait,       \* waiting sequences, in order of arrival
  finished,   \* finished, retired and not taken yet
  taken,      \* returned to the caller
  generated,  \* tokens sampled for each sequence
  last,       \* logits of the last forward pass (None when cleared)
  replay,     \* how many generated tokens have been forwarded again
  done,       \* sequences that sampled their last token
  pc,         \* where the current step is
  mode,       \* what the current batch is for
  items,      \* slots of the current batch, in order
  k,          \* index into items, or slot index of the serial loop
  moved       \* whether this step made progress

poolVars == <<refs, byHash, content, live, table, ids, suffix, prepared,
              phase, op, jobs, at, pos, result>>
seqVars  == <<next, req, slots, wait, finished, taken>>
genVars  == <<generated, last, replay, done>>
ctlVars  == <<pc, mode, items, k, moved>>
vars     == <<poolVars, seqVars, genVars, ctlVars>>

Id    == 1 .. NumSeqs
Slot  == 1 .. MaxSlots

Pool == INSTANCE KvPool WITH
  Seqs <- Id, Sampled <- Token, Prompts <- {r.prompt : r \in Requests},
  Chunks <- {Chunk}, Extras <- 1 .. MaxSeq, MaxBatch <- MaxSlots, MayFail <- FALSE

Steps == {"idle", "retire", "admit", "collect", "serial", "serialSuffix", "serialCall",
          "replays", "batch", "batchSuffix", "batchPrepare", "batchCall", "retry",
          "forward", "forwardPrepare", "forwardCall", "sample", "error"}

TypeOK ==
  /\ Pool!TypeOK
  /\ next \in 1 .. NumSeqs + 1
  /\ req \in [1 .. next - 1 -> Requests]
  /\ slots \in [Slot -> Id \cup {None}]
  /\ wait \in Seq(Id) /\ finished \subseteq Id /\ taken \subseteq Id
  /\ generated \in [Id -> Seq(Token)]
  /\ last \in [Id -> Seq(Token) \cup {None, Garbage}]
  /\ replay \in [Id -> Nat] /\ done \subseteq Id
  /\ pc \in Steps /\ mode \in {"compute", "replay", "decode"}
  /\ items \in Seq(Slot) /\ k \in Nat /\ moved \in BOOLEAN

-----------------------------------------------------------------------------
(* Slots. *)

Occupied == {i \in Slot : slots[i] # None}
Prompt(i) == req[slots[i]].prompt
Past(i)   == Len(ids[slots[i]])

IsPrefill(i) == i \in Occupied /\ slots[i] \notin done /\ Past(i) < Len(Prompt(i))

Replaying(i) == replay[slots[i]] < Len(generated[slots[i]])

IsDecode(i) ==
  /\ i \in Occupied /\ slots[i] \notin done /\ Past(i) >= Len(Prompt(i))
  /\ last[slots[i]] # None \/ Replaying(i)

HoldPrefill == DecodeFirst /\ \E i \in Slot : IsDecode(i)

(* Work of the first half of a step: a prefill chunk or a replay token. *)
SlotCompute(i) == (IsPrefill(i) /\ ~HoldPrefill) \/ (IsDecode(i) /\ Replaying(i))

SlotBatchable(i) == IsDecode(i) /\ Replaying(i)

(* The batches that list the slots in S in slot order (there is one). *)
InOrder(S) ==
  {js \in [1 .. Cardinality(S) -> S] : \A m, n \in DOMAIN js : m < n => js[m] < js[n]}

(* The next token a slot has sampled but not forwarded. *)
Unforwarded(i) == generated[slots[i]][replay[slots[i]] + 1]

-----------------------------------------------------------------------------
(* Calls of the owner of the engine, between steps. *)

Install(s, i) ==
  /\ slots[i] = None /\ \A j \in Slot : slots[j] = None => i <= j
  /\ slots' = [slots EXCEPT ![i] = s]
  /\ Pool!NewCache(s)

(* Mutant: a free slot is taken past the waiters. *)
AddAhead(r) ==
  /\ pc = "idle" /\ next <= NumSeqs
  /\ Len(r.prompt) + r.predict <= MaxSeq
  /\ next' = next + 1
  /\ req' = Append(req, r)
  /\ IF Cardinality(Occupied) >= MaxSlots
     THEN wait' = Append(wait, next) /\ UNCHANGED <<slots, poolVars>>
     ELSE (\E i \in Slot : Install(next, i)) /\ UNCHANGED wait
  /\ UNCHANGED <<finished, taken, genVars, ctlVars>>

(* add: wait when the slots are taken or somebody already waits. *)
Add(r) ==
  /\ pc = "idle" /\ next <= NumSeqs
  /\ Len(r.prompt) + r.predict <= MaxSeq
  /\ next' = next + 1
  /\ req' = Append(req, r)
  /\ IF wait # <<>> \/ Cardinality(Occupied) >= MaxSlots
     THEN wait' = Append(wait, next) /\ UNCHANGED <<slots, poolVars>>
     ELSE (\E i \in Slot : Install(next, i)) /\ UNCHANGED wait
  /\ UNCHANGED <<finished, taken, genVars, ctlVars>>

(* take: remove a running, finished or waiting sequence. *)
Take(s) ==
  /\ pc = "idle" /\ s < next /\ s \notin taken
  /\ s \in done \/ MayCancel
  /\ taken' = taken \cup {s}
  /\ \/ \E i \in Occupied :
          /\ slots[i] = s
          /\ slots' = [slots EXCEPT ![i] = None]
          /\ Pool!DropCache(s)
          /\ UNCHANGED <<wait, finished>>
     \/ /\ s \in finished /\ finished' = finished \ {s}
        /\ UNCHANGED <<slots, wait, poolVars>>
     \/ /\ \E n \in DOMAIN wait : wait[n] = s /\ wait' = RemoveAt(wait, n)
        /\ UNCHANGED <<slots, finished, poolVars>>
  /\ UNCHANGED <<next, req, genVars, ctlVars>>

AllDone == wait = <<>> /\ \A i \in Occupied : slots[i] \in done

-----------------------------------------------------------------------------
(* retire_done and admit. *)

Goto(p) == pc' = p /\ UNCHANGED <<mode, items, k>>

(* The callers step the engine as long as something is running or waiting. *)
BeginStep ==
  /\ pc = "idle" /\ ~AllDone
  /\ Goto("retire") /\ moved' = FALSE
  /\ UNCHANGED <<poolVars, seqVars, genVars>>

(* Mutant: the cache of a finished slot is not dropped. *)
RetireKeep ==
  /\ pc = "retire"
  /\ IF \E i \in Occupied : slots[i] \in done
     THEN \E i \in Occupied :
            /\ slots[i] \in done
            /\ finished' = finished \cup {slots[i]}
            /\ slots' = [slots EXCEPT ![i] = None]
            /\ moved' = TRUE /\ UNCHANGED <<poolVars, pc, mode, items, k>>
     ELSE Goto("admit") /\ UNCHANGED <<poolVars, slots, finished, moved>>
  /\ UNCHANGED <<next, req, wait, taken, genVars>>

(* A finished slot is emptied: its cache is dropped. *)
Retire ==
  /\ pc = "retire"
  /\ IF \E i \in Occupied : slots[i] \in done
     THEN \E i \in Occupied :
            /\ slots[i] \in done
            /\ \A j \in Occupied : slots[j] \in done => i <= j
            /\ finished' = finished \cup {slots[i]}
            /\ slots' = [slots EXCEPT ![i] = None]
            /\ Pool!DropCache(slots[i])
            /\ moved' = TRUE /\ UNCHANGED <<pc, mode, items, k>>
     ELSE Goto("admit") /\ UNCHANGED <<poolVars, slots, finished, moved>>
  /\ UNCHANGED <<next, req, wait, taken, genVars>>

Admit ==
  /\ pc = "admit"
  /\ IF wait # <<>> /\ Cardinality(Occupied) < MaxSlots
     THEN /\ \E i \in Slot : Install(Head(wait), i)
          /\ wait' = Tail(wait)
          /\ moved' = TRUE /\ UNCHANGED <<pc, mode, items, k>>
     ELSE Goto("collect") /\ UNCHANGED <<poolVars, slots, wait, moved>>
  /\ UNCHANGED <<next, req, finished, taken, genVars>>

-----------------------------------------------------------------------------
(* prefill_and_replay: one job is served alone, two or more as a batch. *)

GotoSerial == pc' = "serial" /\ k' = 1 /\ mode' = "compute" /\ items' = <<>>

GotoBatch(js) == pc' = "batch" /\ k' = 1 /\ mode' = "compute" /\ items' = js

Collect ==
  /\ pc = "collect"
  /\ \E js \in InOrder({i \in Slot : SlotCompute(i)}) :
       IF Len(js) <= 1 THEN GotoSerial ELSE GotoBatch(js)
  /\ UNCHANGED <<poolVars, seqVars, genVars, moved>>

(* The slot a full pool is taken from: not except, holding something, and the
   largest (n_past, pages); the last one of equals. *)
Holds(i) == <<Past(i), Len(table[slots[i]])>>

Victims(except) == {i \in Occupied \ {except} : Holds(i) # <<0, 0>>}

IsVictim(i, except) ==
  /\ i \in Victims(except)
  /\ \A j \in Victims(except) :
       \/ Holds(j)[1] < Holds(i)[1]
       \/ Holds(j)[1] = Holds(i)[1] /\ Holds(j)[2] < Holds(i)[2]
       \/ Holds(j) = Holds(i) /\ j <= i

(* Mutant: the victim stays in the batch. *)
PreemptForKeep(i) ==
  \E v \in Slot :
    /\ IsVictim(v, i)
    /\ Pool!Preempt(slots[v])
    /\ last' = [last EXCEPT ![slots[v]] = None]
    /\ replay' = [replay EXCEPT ![slots[v]] = 0]
    /\ UNCHANGED <<items, generated, done>>

(* preempt_except on behalf of slot i; the victim leaves the batch. *)
PreemptFor(i) ==
  \E v \in Slot :
    /\ IsVictim(v, i)
    /\ Pool!Preempt(slots[v])
    /\ last' = [last EXCEPT ![slots[v]] = None]
    /\ replay' = [replay EXCEPT ![slots[v]] = 0]
    /\ items' \in InOrder(ToSet(items) \ {v})
    /\ UNCHANGED <<generated, done>>

Ended(what) == phase = "idle" /\ result = what

(* on_cap: preempt and retry, or give up with the error.  The error leaves
   step and ends the loop of every caller (run, step_if_busy), so the engine is
   never stepped again. *)
OnCap(i, retry) ==
  /\ Ended("kv page cap")
  /\ IF Victims(i) # {}
     THEN PreemptFor(i) /\ pc' = retry /\ UNCHANGED <<mode, k, moved>>
     ELSE /\ pc' = "error"
          /\ UNCHANGED <<poolVars, genVars, mode, items, k, moved>>
  /\ UNCHANGED seqVars

(* prefill_one_at_a_time: each slot still in its prompt gets one chunk. *)
Serial ==
  /\ pc = "serial"
  /\ IF k > MaxSlots \/ (k = 1 /\ HoldPrefill)
     THEN Goto("replays") /\ UNCHANGED poolVars
     ELSE IF ~IsPrefill(k)
     THEN k' = k + 1 /\ UNCHANGED <<poolVars, pc, mode, items>>
     ELSE /\ Pool!PromptSuffix(slots[k], Prompt(k), Chunk)
          /\ Goto("serialSuffix")
  /\ UNCHANGED <<seqVars, genVars, moved>>

SerialPrefill ==
  /\ pc = "serialSuffix"
  /\ Pool!Start("prefill", <<[seq |-> slots[k], toks |-> suffix[slots[k]]]>>)
  /\ Goto("serialCall")
  /\ UNCHANGED <<seqVars, genVars, moved>>

(* The logits of a sequence are computed from everything it has in KV. *)
Logits(s) == Pool!Read(s, Len(ids[s]) - 1)

SerialDone ==
  /\ pc = "serialCall" /\ Ended("ok")
  /\ last' = [last EXCEPT ![slots[k]] = Logits(slots[k])]
  /\ k' = k + 1 /\ pc' = "serial" /\ moved' = TRUE
  /\ UNCHANGED <<poolVars, seqVars, generated, replay, done, mode, items>>

SerialCap == pc = "serialCall" /\ OnCap(k, "serial")

(* compute_one_at_a_time then replays until nothing is left to replay. *)
Replays ==
  /\ pc = "replays"
  /\ \E js \in InOrder({i \in Slot : SlotBatchable(i)}) :
       IF js = <<>>
       THEN Goto("sample")
       ELSE pc' = "forward" /\ mode' = "replay" /\ items' = js /\ k' = 1
  /\ UNCHANGED <<poolVars, seqVars, genVars, moved>>

-----------------------------------------------------------------------------
(* compute_batch_items: bind and reserve every job, then one forward pass. *)

Part(i) ==
  IF IsPrefill(i) THEN suffix[slots[i]] ELSE <<Unforwarded(i)>>

(* The prompt of a prefill job is positioned before its suffix is reserved. *)
BatchSuffix ==
  /\ pc = "batch" /\ k <= Len(items)
  /\ IF IsPrefill(items[k])
     THEN Pool!PromptSuffix(slots[items[k]], Prompt(items[k]), Chunk)
     ELSE UNCHANGED poolVars
  /\ Goto("batchSuffix")
  /\ UNCHANGED <<seqVars, genVars, moved>>

(* Mutant: one position is reserved whatever the length of the chunk. *)
BatchPrepareOne ==
  /\ pc = "batchSuffix"
  /\ Pool!StartPrepare(slots[items[k]], 1)
  /\ Goto("batchPrepare")
  /\ UNCHANGED <<seqVars, genVars, moved>>

BatchPrepare ==
  /\ pc = "batchSuffix"
  /\ Pool!StartPrepare(slots[items[k]], Len(Part(items[k])))
  /\ Goto("batchPrepare")
  /\ UNCHANGED <<seqVars, genVars, moved>>

BatchPrepared ==
  /\ pc = "batchPrepare" /\ Ended("ok")
  /\ k' = k + 1 /\ pc' = "batch"
  /\ UNCHANGED <<poolVars, seqVars, genVars, mode, items, moved>>

BatchCap == pc = "batchPrepare" /\ OnCap(items[k], "retry")

(* The victim has left the batch; what is left of it starts over. *)
Retry ==
  /\ pc = "retry"
  /\ \E keep \in InOrder({i \in ToSet(items) :
                   IF mode = "compute" THEN SlotCompute(i) ELSE SlotBatchable(i)}) :
       IF keep = <<>>
       THEN /\ moved' = TRUE
            /\ pc' = CASE mode = "compute" -> "sample"
                       [] mode = "replay"  -> "replays"
                       [] mode = "decode"  -> "idle"
            /\ UNCHANGED <<mode, items, k>>
       ELSE /\ UNCHANGED moved
            /\ IF mode # "compute"
               THEN pc' = "forward" /\ k' = 1 /\ items' = keep /\ UNCHANGED mode
               ELSE IF Len(keep) <= 1 THEN GotoSerial ELSE GotoBatch(keep)
  /\ UNCHANGED <<poolVars, seqVars, genVars>>

(* Mutant: a prompt is passed whole, whatever of it the cache holds already. *)
GroupWhole(i) ==
  [seq |-> slots[items[i]], toks |-> IF IsPrefill(items[i]) THEN Prompt(items[i]) ELSE Part(items[i])]

Group(i) == [seq |-> slots[items[i]], toks |-> Part(items[i])]

BatchStart ==
  /\ pc = "batch" /\ k > Len(items)
  /\ Pool!Start("prefill", [i \in DOMAIN items |-> Group(i)])
  /\ Goto("batchCall")
  /\ UNCHANGED <<seqVars, genVars, moved>>

(* Sequences in the current batch. *)
Batched == {slots[i] : i \in ToSet(items)}

BatchDone ==
  /\ pc = "batchCall" /\ Ended("ok")
  /\ last' = [s \in Id |-> IF s \in Batched THEN Logits(s) ELSE last[s]]
  /\ replay' = [s \in Id |->
       IF s \in Batched /\ Len(ids[s]) > Len(req[s].prompt) THEN replay[s] + 1 ELSE replay[s]]
  /\ moved' = TRUE
  /\ Goto("sample")
  /\ UNCHANGED <<poolVars, seqVars, generated, done>>

-----------------------------------------------------------------------------
(* decode_ready: sample every slot whose logits describe all it generated. *)

(* Mutant: slots that still replay are sampled too. *)
SamplesAny == {slots[i] : i \in {j \in Slot : IsDecode(j) /\ last[slots[j]] # None}}

Samples == {slots[i] : i \in {j \in Slot : IsDecode(j) /\ ~Replaying(j)}}

(* Slots that sampled a token which is not their last one. *)
Continues(s) ==
  /\ Len(generated[s]) + 1 < req[s].predict
  /\ Greedy(last[s]) # Eos

(* Mutant: a slot that only finished does not count as progress. *)
SampleUncounted ==
  /\ pc = "sample"
  /\ LET pushes == {s \in Samples : /\ Len(generated[s]) < req[s].predict
                                    /\ Greedy(last[s]) # Eos}
         go     == {s \in pushes : Continues(s)}
     IN  /\ generated' = [s \in Id |-> IF s \in pushes
                            THEN Append(generated[s], Greedy(last[s])) ELSE generated[s]]
         /\ last' = [s \in Id |-> IF s \in pushes THEN None ELSE last[s]]
         /\ done' = done \cup (Samples \ go)
         /\ mode' = "decode" /\ k' = 1
         /\ items' \in InOrder({i \in Occupied : slots[i] \in go})
         /\ pc' = IF items' = <<>> THEN "idle" ELSE "forward"
  /\ UNCHANGED <<poolVars, seqVars, replay, moved>>

Sample ==
  /\ pc = "sample"
  /\ LET pushes == {s \in Samples : /\ Len(generated[s]) < req[s].predict
                                    /\ Greedy(last[s]) # Eos}
         go     == {s \in pushes : Continues(s)}
     IN  /\ generated' = [s \in Id |-> IF s \in pushes
                            THEN Append(generated[s], Greedy(last[s])) ELSE generated[s]]
         /\ last' = [s \in Id |-> IF s \in pushes THEN None ELSE last[s]]
         /\ done' = done \cup (Samples \ go)
         /\ moved' = (moved \/ Samples \ go # {})
         /\ mode' = "decode" /\ k' = 1
         /\ items' \in InOrder({i \in Occupied : slots[i] \in go})
         /\ pc' = IF items' = <<>> THEN "idle" ELSE "forward"
  /\ UNCHANGED <<poolVars, seqVars, replay>>

-----------------------------------------------------------------------------
(* forward_batch_items: reserve one position per slot, then forward. *)

ForwardPrepare ==
  /\ pc = "forward" /\ k <= Len(items)
  /\ Pool!StartPrepare(slots[items[k]], 1)
  /\ Goto("forwardPrepare")
  /\ UNCHANGED <<seqVars, genVars, moved>>

ForwardPrepared ==
  /\ pc = "forwardPrepare" /\ Ended("ok")
  /\ k' = k + 1 /\ pc' = "forward"
  /\ UNCHANGED <<poolVars, seqVars, genVars, mode, items, moved>>

ForwardCap == pc = "forwardPrepare" /\ OnCap(items[k], "retry")

ForwardStart ==
  /\ pc = "forward" /\ k > Len(items)
  /\ Pool!Start("prefill", [i \in DOMAIN items |->
                  [seq |-> slots[items[i]], toks |-> <<Unforwarded(items[i])>>]])
  /\ Goto("forwardCall")
  /\ UNCHANGED <<seqVars, genVars, moved>>

ForwardDone ==
  /\ pc = "forwardCall" /\ Ended("ok")
  /\ last' = [s \in Id |-> IF s \in Batched THEN Logits(s) ELSE last[s]]
  /\ replay' = [s \in Id |-> IF s \notin Batched THEN replay[s]
                             ELSE IF mode = "replay" THEN replay[s] + 1
                             ELSE Len(generated[s])]
  /\ moved' = TRUE
  /\ Goto(IF mode = "replay" THEN "replays" ELSE "idle")
  /\ UNCHANGED <<poolVars, seqVars, generated, done>>

-----------------------------------------------------------------------------
Init ==
  /\ Pool!Init
  /\ next = 1 /\ req = <<>>
  /\ slots = [i \in Slot |-> None]
  /\ wait = <<>> /\ finished = {} /\ taken = {}
  /\ generated = [s \in Id |-> <<>>]
  /\ last = [s \in Id |-> None]
  /\ replay = [s \in Id |-> 0]
  /\ done = {}
  /\ pc = "idle" /\ mode = "compute" /\ items = <<>> /\ k = 1 /\ moved = FALSE

(* A cache call in progress. *)
PoolStep == Pool!CallStep /\ UNCHANGED <<seqVars, genVars, ctlVars>>

StepOnce ==
  \/ BeginStep \/ Retire \/ Admit \/ Collect
  \/ Serial \/ SerialPrefill \/ SerialDone \/ SerialCap \/ Replays
  \/ BatchSuffix \/ BatchPrepare \/ BatchPrepared \/ BatchCap \/ Retry
  \/ BatchStart \/ BatchDone
  \/ Sample
  \/ ForwardPrepare \/ ForwardPrepared \/ ForwardCap
  \/ ForwardStart \/ ForwardDone
  \/ PoolStep

Next ==
  \/ \E r \in Requests : Add(r)
  \/ \E s \in Id : Take(s)
  \/ StepOnce

Spec == Init /\ [][Next]_vars

(* The owner keeps stepping while a sequence is unfinished (run, step_if_busy). *)
FairSpec == Spec /\ WF_vars(StepOnce)

-----------------------------------------------------------------------------
(* Properties. *)

Running == {slots[i] : i \in Occupied}

(* "Greedy ids must match greedy_generate_cache": every sampled token is the
   argmax after the whole text before it, and a finished sequence has all its
   tokens, however often it was preempted, replayed, chunked or batched. *)
OutputsGreedy ==
  \A s \in 1 .. next - 1 :
    LET text(n) == req[s].prompt \o SubSeq(generated[s], 1, n)
        len     == Len(generated[s])
    IN  /\ \A n \in 1 .. len : /\ generated[s][n] = Greedy(text(n - 1))
                               /\ generated[s][n] # Eos
        /\ len <= req[s].predict
        /\ s \in done => len = req[s].predict \/ Greedy(text(len)) = Eos

(* A slot that is about to be sampled has exactly its own text in KV. *)
KvFollowsText ==
  \A i \in Occupied :
    LET s == slots[i] IN
    \A p \in 0 .. Past(i) - 1 :
      Pool!Read(s, p) = SubSeq(req[s].prompt \o generated[s], 1, p + 1)

(* Waiters start in the order they arrived; "New arrivals also queue behind
   existing waiters when cancellation frees a slot" (Engine::add). *)
ArrivalOrder ==
  /\ \A i, j \in DOMAIN wait : i < j => wait[i] < wait[j]
  /\ \A s \in Running, i \in DOMAIN wait : s < wait[i]

(* A sequence is in one place, and only running sequences have a cache: no
   retirement or cancellation leaves pool blocks behind. *)
OnePlace ==
  /\ live = Running
  /\ \A i, j \in Occupied : slots[i] = slots[j] => i = j
  /\ \A s \in 1 .. next - 1 :
       Cardinality({w \in {"run", "wait", "finished", "taken"} :
         CASE w = "run" -> s \in Running [] w = "wait" -> s \in ToSet(wait)
           [] w = "finished" -> s \in finished [] w = "taken" -> s \in taken}) = 1

(* Engine::run's "engine stall" never happens: a step of an engine that is not
   all done makes progress. *)
StallFree == [][pc # "idle" /\ pc' = "idle" => moved']_vars

(* What prepare_append reserved for the batch is still there when the batched
   call runs: the cap handlers around prefill_batch and forward_batch (which
   would blame the first job) are never needed. *)
BatchNeverCaps ==
  pc \in {"batchCall", "forwardCall"} => result # "kv page cap"

(* With pool_blocks sized by the server (one table and one spare block per slot)
   nothing is ever preempted. *)
NeverCaps == result # "kv page cap"

(* The engine gives up only when the sequence that needs a block holds the whole
   pool by itself: preempting really took everything from everybody else and
   nothing interned is left that could be evicted. *)
FailsOnlyFull ==
  pc = "error" => \E s \in Running : \A b \in Pool!Block : b \in ToSet(table[s])

(* The engine calls its caches only the way KvPool lets a caller call them: no call
   into a cache that is gone, no batch that names a cache twice, and only tokens that
   the cache's own prompt or the last sample left to be computed.  What KvPool
   promises its callers therefore holds for the engine. *)
PoolUsedLegally == Pool!Spec

(* "Engine::step until every admitted sequence is finished" (Engine::run): no
   sequence waits, recomputes or is preempted for ever; it finishes, or its owner
   takes it away or is told of an error. *)
AllFinish == \A s \in Id : (s < next) ~> (s \in done \cup taken \/ pc = "error")
=============================================================================
