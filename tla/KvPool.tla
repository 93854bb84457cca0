------------------------------- MODULE KvPool -------------------------------
(***************************************************************************)
(* The paged KV cache: the interned block arena of kv_page.rs and the       *)
(* per-sequence caches of decode.rs that live on it.                        *)
(*                                                                         *)
(* A pool owns Cap physical blocks of BlockSize token positions.  A cache   *)
(* reaches its positions through a block table; full prefixes are interned  *)
(* under the hash of the token ids they were computed from, so a second     *)
(* cache can bind them instead of recomputing them.  refs counts the table  *)
(* entries and the intern entries that name a block, and a block named more *)
(* than once is copied before it is written.                                *)
(*                                                                         *)
(* The pool sits behind Rc<RefCell<..>>: calls never overlap, but a call    *)
(* that reserves positions loops over them and can fail half way, so the    *)
(* reservation advances one loop iteration per step while phase # "idle".   *)
(*                                                                         *)
(* A K/V vector is represented by the token ids it was computed from; the   *)
(* 64-bit prefix hash by the prefix itself (no collisions).                 *)
(***************************************************************************)
EXTENDS Integers, Sequences, FiniteSets

CONSTANTS
  Seqs,       \* caches that may live on the pool
  Token,      \* vocabulary
  BlockSize,  \* token positions per physical block
  Cap,        \* physical blocks
  Sampled,    \* tokens a decode step may append
  MaxSeq,     \* KV capacity of one cache, in tokens
  Prompts,    \* prompts the callers submit
  Chunks,     \* values of max_suffix the callers pass (0 = no cap)
  Extras,     \* values of extra passed to prepare_append
  MaxBatch,   \* largest number of caches in one batched call
  MayFail,    \* whether a forward pass may fail
  Garbage     \* a K/V vector a failed forward pass left behind

ASSUME KvAssumption ==
  /\ IsFiniteSet(Seqs)
  /\ Token # {}
  /\ Sampled \subseteq Token
  /\ BlockSize \in Nat \ {0}
  /\ Cap \in Nat \ {0}
  /\ MaxSeq \in Nat \ {0}
  /\ MaxBatch \in Nat \ {0}
  /\ Prompts \subseteq Seq(Token) \ {<<>>}
  /\ Chunks \subseteq Nat
  /\ Extras \subseteq Nat \ {0}
  /\ MayFail \in BOOLEAN
  /\ Garbage \notin Seq(Token)

VARIABLES
  refs,      \* [Block -> Nat], KvPool.refs
  byHash,    \* interned prefix -> block, KvPool.by_hash
  content,   \* K/V held at each offset of each block
  live,      \* caches that exist
  table,     \* block table of each cache
  ids,       \* token ids occupying positions 0 .. n_past - 1
  suffix,    \* what prompt_suffix returned and has not been prefilled yet
  prepared,  \* history: positions the last prepare_append secured
  phase,     \* "idle", or how far the running call got
  op,        \* the running call
  jobs,      \* its caches and token groups, in batch order
  at,        \* the job it is working on
  pos,       \* the position it is working on
  result     \* outcome of the last call

poolVars  == <<refs, byHash, content>>
cacheVars == <<live, table, ids, suffix, prepared>>
callVars  == <<phase, op, jobs, at, pos>>
vars      == <<poolVars, cacheVars, callVars, result>>

Block    == 0 .. Cap - 1
Offset   == 0 .. BlockSize - 1
TableMax == (MaxSeq + BlockSize - 1) \div BlockSize
Job      == [seq : Seqs, toks : Seq(Token)]
Outcome  == {"ok", "kv page cap", "kv cache full", "transformer"}

TypeOK ==
  /\ refs \in [Block -> Nat]
  /\ DOMAIN byHash \subseteq Seq(Token) /\ IsFiniteSet(DOMAIN byHash)
  /\ byHash \in [DOMAIN byHash -> Block]
  /\ content \in [Block -> [Offset -> Seq(Token) \cup {Garbage}]]
  /\ live \subseteq Seqs
  /\ table \in [Seqs -> Seq(Block)]
  /\ ids \in [Seqs -> Seq(Token)]
  /\ suffix \in [Seqs -> Seq(Token)]
  /\ prepared \in [Seqs -> Nat]
  /\ phase \in {"idle", "reserve", "compute", "commit"}
  /\ op \in {"prepare", "prefill"}
  /\ jobs \in Seq(Job)
  /\ phase # "idle" => at \in 1 .. Len(jobs)
  /\ at \in Nat /\ pos \in Nat
  /\ result \in Outcome

-----------------------------------------------------------------------------
(* Addressing and reference counts. *)

Occ(t, b) == {i \in DOMAIN t : t[i] = b}

(* Mutant: a partly filled block is not counted. *)
BlocksForFloor(n) == n \div BlockSize

BlocksFor(n) == (n + BlockSize - 1) \div BlockSize

Take(t, n) == SubSeq(t, 1, IF n < Len(t) THEN n ELSE Len(t))

(* Nothing may rely on the bytes of a block nobody counts: the model forgets
   them, so that any later read of such bytes shows as Garbage. *)
Stale == [o \in Offset |-> Garbage]

(* Mutant: the entries dropped are released twice. *)
RetableTwice(s, t) ==
  /\ table' = [table EXCEPT ![s] = t]
  /\ refs' = [b \in Block |->
                refs[b] - 2 * Cardinality(Occ(table[s], b)) + Cardinality(Occ(t, b))]
  /\ content' = [b \in Block |-> IF refs'[b] = 0 THEN Stale ELSE content[b]]

(* Give cache s the table t: every entry dropped is released and every
   entry gained is retained. *)
Retable(s, t) ==
  /\ table' = [table EXCEPT ![s] = t]
  /\ refs' = [b \in Block |->
                refs[b] - Cardinality(Occ(table[s], b)) + Cardinality(Occ(t, b))]
  /\ content' = [b \in Block |-> IF refs'[b] = 0 THEN Stale ELSE content[b]]

(* The K/V the attention of cache s finds at position p. *)
Read(s, p) == content[table[s][p \div BlockSize + 1]][p % BlockSize]

-----------------------------------------------------------------------------
(* Block allocation. *)

Free == {b \in Block : refs[b] = 0}

(* Mutants: the eviction forgets to look at refs, or expects 0. *)
EvictableHeld == DOMAIN byHash
EvictableZero == {p \in DOMAIN byHash : refs[byHash[p]] = 0}

(* Interned prefixes whose block nothing but the intern table holds. *)
Evictable == {p \in DOMAIN byHash : refs[byHash[p]] = 1}

(* The pool hands out block b: the first free one or, when none is free, the
   block of an interned prefix no cache holds (hash order is arbitrary).  In
   both cases its reference count becomes 1. *)
Alloc(b) ==
  \/ /\ b \in Free
     /\ \A c \in Free : b <= c
     /\ UNCHANGED byHash
  \/ /\ Free = {}
     /\ \E p \in Evictable :
          /\ b = byHash[p]
          /\ byHash' = [q \in DOMAIN byHash \ {p} |-> byHash[q]]

-----------------------------------------------------------------------------
(* The life of a cache. *)

(* A new cache on the pool starts with an empty table. *)
NewCache(s) ==
  /\ phase = "idle" /\ s \notin live
  /\ live' = live \cup {s}
  /\ result' = "ok"
  /\ UNCHANGED <<poolVars, table, ids, suffix, prepared, callVars>>

(* Rewind to zero tokens: Interned prefixes stay in the pool. *)
Clear(s) ==
  /\ phase = "idle" /\ s \in live
  /\ Retable(s, <<>>)
  /\ ids' = [ids EXCEPT ![s] = <<>>]
  /\ suffix' = [suffix EXCEPT ![s] = <<>>]
  /\ prepared' = [prepared EXCEPT ![s] = 0]
  /\ result' = "ok"
  /\ UNCHANGED <<byHash, callVars>>

Preempt(s) == Clear(s) /\ UNCHANGED live

DropCache(s) == Clear(s) /\ live' = live \ {s}

-----------------------------------------------------------------------------
(* Prefix reuse. *)

(* Mutant: the lengths are compared, the ids are not. *)
IsLcpByLength(n, a, b) == n <= Len(a) /\ n <= Len(b) /\ n \in {Len(a), Len(b)}

IsLcp(n, a, b) ==
  /\ n <= Len(a) /\ n <= Len(b)
  /\ \A i \in 1 .. n : a[i] = b[i]
  /\ (n < Len(a) /\ n < Len(b)) => a[n + 1] # b[n + 1]

(* Starting from n tokens covered by table t, exactly k more blocks of
   prompt p are found in the intern table. *)
Binds(k, p, n, t) ==
  LET hit(j) == /\ n + j * BlockSize <= Len(p)
                /\ SubSeq(p, 1, n + j * BlockSize) \in DOMAIN byHash
  IN  IF n % BlockSize = 0 /\ Len(t) = n \div BlockSize
      THEN (\A j \in 1 .. k : hit(j)) /\ ~hit(k + 1)
      ELSE k = 0

(* prompt_suffix: rewind to the longest common prefix, bind interned blocks
   after it, and hand back what is left to prefill (at most max tokens of it).
   When everything was found the last token is given up and recomputed. *)
PromptSuffix(s, p, max) ==
  /\ phase = "idle" /\ s \in live
  /\ \E n \in 0 .. Len(ids[s]), k \in 0 .. Len(p) :
       LET kept    == Take(table[s], BlocksFor(n))
           bound   == [j \in 1 .. k |-> byHash[SubSeq(p, 1, n + j * BlockSize)]]
           covered == n + k * BlockSize
           hit     == IF covered = Len(p) THEN covered - 1 ELSE covered
           left    == SubSeq(p, hit + 1, Len(p))
       IN  /\ IsLcp(n, ids[s], p)
           /\ Binds(k, p, n, kept)
           /\ Retable(s, Take(kept \o bound, BlocksFor(hit)))
           /\ ids' = [ids EXCEPT ![s] = SubSeq(p, 1, hit)]
           /\ suffix' = [suffix EXCEPT ![s] = IF max = 0 THEN left ELSE Take(left, max)]
  /\ prepared' = [prepared EXCEPT ![s] = 0]
  /\ result' = "ok"
  /\ UNCHANGED <<byHash, live, callVars>>

-----------------------------------------------------------------------------
(* Calls that append: prepare_append, and prefill of one cache or a batch. *)

Start(what, js) ==
  /\ phase = "idle"
  /\ phase' = "reserve" /\ op' = what /\ jobs' = js
  /\ at' = 1 /\ pos' = Len(ids[js[1].seq])
  /\ result' = "ok"
  /\ UNCHANGED <<poolVars, cacheVars>>

(* Only the number of tokens matters to prepare_append. *)
StartPrepare(s, extra) ==
  LET filler == [i \in 1 .. extra |-> CHOOSE t \in Token : TRUE] IN
  s \in live /\ Start("prepare", <<[seq |-> s, toks |-> filler]>>)

(* Token groups a caller passes for cache s: the outstanding suffix of its
   prompt or, when decoding, one sampled token. *)
Groups(s) == IF suffix[s] # <<>> THEN {suffix[s]} ELSE {<<t>> : t \in Sampled}

(* A batch names distinct live caches. *)
IsBatch(js) ==
  /\ \A i \in DOMAIN js : js[i].seq \in live /\ js[i].toks \in Groups(js[i].seq)
  /\ \A i, j \in DOMAIN js : js[i].seq = js[j].seq => i = j

StartPrefill(js) == IsBatch(js) /\ Start("prefill", js)

(* Mutant: the last position of the group is not counted. *)
EndShort(j) == Len(ids[jobs[j].seq]) + Len(jobs[j].toks) - 1

Cur    == jobs[at].seq
End(j) == Len(ids[jobs[j].seq]) + Len(jobs[j].toks)
Fits   == End(at) <= MaxSeq
Index  == pos \div BlockSize + 1

Finish(outcome) ==
  /\ phase' = "idle" /\ result' = outcome
  /\ op' = "prefill" /\ jobs' = <<>> /\ at' = 0 /\ pos' = 0

(* "kv cache full": checked before the job reserves anything. *)
FullError ==
  /\ phase = "reserve" /\ ~Fits
  /\ Finish("kv cache full")
  /\ UNCHANGED <<poolVars, cacheVars>>

NeedsBlock == Len(table[Cur]) < Index
(* Mutant: sharing with the intern table alone is not sharing. *)
NeedsCopyLate == ~NeedsBlock /\ refs[table[Cur][Index]] > 2

NeedsCopy  == ~NeedsBlock /\ refs[table[Cur][Index]] > 1

(* ensure_write: extend the table by one fresh block. *)
Fault ==
  /\ phase = "reserve" /\ Fits /\ pos < End(at) /\ NeedsBlock
  /\ \E b \in Block :
       /\ Alloc(b)
       /\ refs' = [refs EXCEPT ![b] = 1]
       /\ content' = [content EXCEPT ![b] = Stale]
       /\ table' = [table EXCEPT ![Cur] = Append(@, b)]
  /\ UNCHANGED <<live, ids, suffix, prepared, callVars, result>>

(* ensure_write: the block is shared, so move this table to a private copy. *)
Cow ==
  /\ phase = "reserve" /\ Fits /\ pos < End(at) /\ NeedsCopy
  /\ LET old == table[Cur][Index] IN
     \E b \in Block :
       /\ Alloc(b)
       /\ content' = [content EXCEPT ![b] = content[old]]
       /\ refs' = [refs EXCEPT ![b] = 1, ![old] = @ - 1]
       /\ table' = [table EXCEPT ![Cur] = [@ EXCEPT ![Index] = b]]
  /\ UNCHANGED <<live, ids, suffix, prepared, callVars, result>>

(* "kv page cap": no block is free and none can be evicted. *)
CapError ==
  /\ phase = "reserve" /\ Fits /\ pos < End(at)
  /\ NeedsBlock \/ NeedsCopy
  /\ Free = {} /\ Evictable = {}
  /\ Finish("kv page cap")
  /\ UNCHANGED <<poolVars, cacheVars>>

(* ensure_write: the position is covered by a block only this table names. *)
Reserved ==
  /\ phase = "reserve" /\ Fits /\ pos < End(at)
  /\ ~NeedsBlock /\ ~NeedsCopy
  /\ pos' = pos + 1
  /\ UNCHANGED <<poolVars, cacheVars, phase, op, jobs, at, result>>

(* All positions of the job are reserved: go to the next job, or to the
   forward pass, or return from prepare_append. *)
NextJob ==
  /\ phase = "reserve" /\ Fits /\ pos = End(at)
  /\ \/ /\ at < Len(jobs)
        /\ at' = at + 1 /\ pos' = Len(ids[jobs[at + 1].seq])
        /\ UNCHANGED <<phase, op, jobs, prepared, result>>
     \/ /\ at = Len(jobs) /\ op = "prefill"
        /\ phase' = "compute" /\ at' = 1
        /\ UNCHANGED <<op, jobs, pos, prepared, result>>
     \/ /\ at = Len(jobs) /\ op = "prepare"
        /\ prepared' = [prepared EXCEPT ![Cur] = Len(jobs[at].toks)]
        /\ Finish("ok")
  /\ UNCHANGED <<poolVars, live, table, ids, suffix>>

-----------------------------------------------------------------------------
(* The forward pass and what follows it. *)

(* What the attention of cache s sees below n_past: the tokens the stored
   vectors were computed from, when those agree with each other. *)
Context(s) ==
  LET n == Len(ids[s]) IN
  IF n = 0 THEN <<>>
  ELSE IF \A p \in 0 .. n - 1 : /\ Read(s, p) # Garbage
                                /\ Len(Read(s, n - 1)) >= p + 1
                                /\ Read(s, p) = SubSeq(Read(s, n - 1), 1, p + 1)
       THEN Read(s, n - 1)
       ELSE Garbage

(* Job j writes offset o of block b; p is the position it stands for. *)
WritesAt(j, b, o, p) ==
  /\ Len(ids[jobs[j].seq]) <= p /\ p < End(j) /\ p % BlockSize = o
  /\ table[jobs[j].seq][p \div BlockSize + 1] = b

(* The vector job j computes for position p. *)
NewKv(j, p) ==
  LET s == jobs[j].seq IN
  IF Context(s) = Garbage THEN Garbage
  ELSE Context(s) \o SubSeq(jobs[j].toks, 1, p + 1 - Len(ids[s]))

(* Every position a job can write. *)
Written == {jp \in (DOMAIN jobs) \X (0 .. MaxSeq - 1) :
              Len(ids[jobs[jp[1]].seq]) <= jp[2] /\ jp[2] < End(jp[1])}

Writers(b, o) == {jp \in Written : WritesAt(jp[1], b, o, jp[2])}

(* The forward pass fills every reserved position of every job. *)
Transformer ==
  /\ phase = "compute"
  /\ content' = [b \in Block |-> [o \in Offset |->
        IF Writers(b, o) = {} THEN content[b][o]
        ELSE LET w == CHOOSE jp \in Writers(b, o) : TRUE IN NewKv(w[1], w[2])]]
  /\ phase' = "commit"
  /\ UNCHANGED <<refs, byHash, cacheVars, op, jobs, at, pos, result>>

(* An expert or shape error inside the forward pass: some vectors are already
   overwritten, no n_past has moved. *)
TransformerError ==
  /\ phase = "compute" /\ MayFail
  /\ content' = [b \in Block |-> [o \in Offset |->
        IF Writers(b, o) = {} THEN content[b][o] ELSE Garbage]]
  /\ Finish("transformer")
  /\ UNCHANGED <<refs, byHash, cacheVars>>

(* intern_full: every full prefix of t not interned yet gets the block that
   cache s holds for it. *)
NewPrefixes(t) ==
  {k \in 1 .. Len(t) \div BlockSize : SubSeq(t, 1, k * BlockSize) \notin DOMAIN byHash}

(* Mutant: the intern entry does not count as a reference. *)
InternFullUncounted(s, t) ==
  LET new    == NewPrefixes(t)
      pre(k) == SubSeq(t, 1, k * BlockSize)
  IN  /\ byHash' = [q \in DOMAIN byHash \cup {pre(k) : k \in new} |->
                      IF q \in DOMAIN byHash THEN byHash[q]
                      ELSE table[s][Len(q) \div BlockSize]]
      /\ UNCHANGED refs

InternFull(s, t) ==
  LET new    == NewPrefixes(t)
      pre(k) == SubSeq(t, 1, k * BlockSize)
  IN  /\ byHash' = [q \in DOMAIN byHash \cup {pre(k) : k \in new} |->
                      IF q \in DOMAIN byHash THEN byHash[q]
                      ELSE table[s][Len(q) \div BlockSize]]
      /\ refs' = [b \in Block |->
                    refs[b] + Cardinality({k \in new : table[s][k] = b})]

(* n_past and the cached ids of the job advance, then its prefixes are
   interned. *)
Commit ==
  /\ phase = "commit"
  /\ LET t == ids[Cur] \o jobs[at].toks IN
     /\ ids' = [ids EXCEPT ![Cur] = t]
     /\ InternFull(Cur, t)
  /\ suffix' = [suffix EXCEPT ![Cur] = <<>>]
  /\ prepared' = [prepared EXCEPT ![Cur] = 0]
  /\ IF at < Len(jobs)
     THEN at' = at + 1 /\ UNCHANGED <<phase, op, jobs, pos, result>>
     ELSE Finish("ok")
  /\ UNCHANGED <<content, live, table>>

-----------------------------------------------------------------------------
Init ==
  /\ refs = [b \in Block |-> 0]
  /\ byHash = <<>>
  /\ content = [b \in Block |-> Stale]
  /\ live = {}
  /\ table = [s \in Seqs |-> <<>>]
  /\ ids = [s \in Seqs |-> <<>>]
  /\ suffix = [s \in Seqs |-> <<>>]
  /\ prepared = [s \in Seqs |-> 0]
  /\ phase = "idle" /\ op = "prefill" /\ jobs = <<>> /\ at = 0 /\ pos = 0
  /\ result = "ok"

(* A call in progress runs to its end before the next one starts. *)
CallStep ==
  \/ FullError \/ Fault \/ Cow \/ CapError \/ Reserved \/ NextJob
  \/ Transformer \/ TransformerError \/ Commit

Batches ==
  UNION {[1 .. n -> [seq : live, toks : UNION {Groups(s) : s \in live}]] : n \in 1 .. MaxBatch}

Next ==
  \/ \E s \in Seqs : NewCache(s) \/ Preempt(s) \/ DropCache(s)
  \/ \E s \in Seqs, p \in Prompts, max \in Chunks : PromptSuffix(s, p, max)
  \/ \E s \in Seqs, extra \in Extras : StartPrepare(s, extra)
  \/ \E js \in Batches : StartPrefill(js)
  \/ CallStep

Spec == Init /\ [][Next]_vars

-----------------------------------------------------------------------------
(* Properties. *)

TableRefs(b) == UNION {{s} \X Occ(table[s], b) : s \in Seqs}

HashRefs(b) == {p \in DOMAIN byHash : byHash[p] = b}

(* A block's reference count is exactly the number of block-table entries plus
   intern entries that name it (retain and release in kv_page.rs): a missing
   release leaks the block for ever, an extra one lets it be handed out while a
   cache still reads it. *)
RefsExact ==
  \A b \in Block : refs[b] = Cardinality(TableRefs(b)) + Cardinality(HashRefs(b))

(* Job j has its last position covered by the table of its cache. *)
Secured(j) == End(j) <= Len(table[jobs[j].seq]) * BlockSize

(* Every position below n_past has a block and, while a call runs, so has every
   position reserved so far: neither a copy-on-write nor the reservation of a
   later job of the batch takes one away, so the forward pass and intern_full
   never index past a table. *)
Covered ==
  /\ \A s \in Seqs : Len(ids[s]) <= Len(table[s]) * BlockSize
  /\ phase = "reserve" => /\ pos <= End(at)
                          /\ pos <= Len(table[Cur]) * BlockSize
                          /\ \A j \in 1 .. at - 1 : Secured(j)
  /\ phase \in {"compute", "commit"} => \A j \in at .. Len(jobs) : Secured(j)

(* "Logits must bit-match dense decode" (kv_page.rs): at every position below
   n_past a cache reads K/V computed from exactly its own ids, whatever the
   other caches on the pool bound, copied, evicted, freed or overwrote. *)
KvMatchesDense ==
  \A s \in live : \A p \in 0 .. Len(ids[s]) - 1 :
    Read(s, p) = SubSeq(ids[s], 1, p + 1)

(* An interned block keeps the K/V of the prefix it is interned under for as
   long as the entry exists, so that a later bind may trust it. *)
InternedExact ==
  \A q \in DOMAIN byHash : \A o \in Offset :
    content[byHash[q]][o] = SubSeq(q, 1, Len(q) - BlockSize + o + 1)

(* When the forward pass starts, every block it will write is named by one
   table entry only, for the whole batch: reserving a later job must not share,
   evict or free what an earlier job reserved. *)
WritesExclusive ==
  phase = "compute" =>
    \A jp \in Written :
      LET t == table[jobs[jp[1]].seq]
          i == jp[2] \div BlockSize + 1
      IN  /\ i <= Len(t)
          /\ TableRefs(t[i]) = {<<jobs[jp[1]].seq, i>>}
          /\ HashRefs(t[i]) = {}

(* prepare_append: "Ensure n_past + extra KV positions exist so a later write
   cannot fail the page cap", whatever other caches do in between. *)
PreparedHolds ==
  \A s \in Seqs : \A p \in Len(ids[s]) .. Len(ids[s]) + prepared[s] - 1 :
    LET i == p \div BlockSize + 1 IN
    i <= Len(table[s]) /\ refs[table[s][i]] = 1

(* The paged caches implement the dense ones: what cache s reads at each of its
   positions is what a dense cache would hold there. *)
Dense == INSTANCE DenseKv WITH
  kv <- [s \in Seqs |-> [i \in 1 .. Len(ids[s]) |-> Read(s, i - 1)]]

PagedIsDense == Dense!Spec
=============================================================================
