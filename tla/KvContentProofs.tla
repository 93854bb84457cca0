--------------------------- MODULE KvContentProofs --------------------------
(***************************************************************************)
(* For every pool size, block size, number of caches and prompt: what a     *)
(* forward pass writes is named by nobody else, and every cache reads K/V   *)
(* that was computed from its own tokens.                                   *)
(*                                                                         *)
(* The inductive invariant is KvInv.  It adds two parts to the counts of    *)
(* KvPoolProofs: which blocks a cache has to itself (Exclusive), and what   *)
(* the blocks in use hold (Exact).  WritesExclusive speaks of the forward   *)
(* pass only; Exclusive says it position by position while the reservation  *)
(* runs.  Exact needs Exclusive for the one step that writes vectors.       *)
(* On it rests the second result: the paged cache implements the dense one, *)
(* every step of KvPool being, seen through what its caches read, a step of *)
(* DenseKv or none.                                                         *)
(***************************************************************************)
EXTENDS KvPoolProofs

(* Entry i of the table of cache s is the only name its block has. *)
Sole(s, i) == i \in 1 .. Len(table[s]) /\ refs[table[s][i]] = 1

(* Cache s may write every position from n_past up to n. *)
Owns(s, n) == \A p \in Len(ids[s]) .. n - 1 : Sole(s, p \div BlockSize + 1)

JobReady(j) == Owns(jobs[j].seq, End(j)) /\ End(j) <= MaxSeq

(* A position reserved is a position owned, until it is written. *)
Exclusive ==
  /\ \A s \in Seqs : Owns(s, Len(ids[s]) + prepared[s])
  /\ phase = "reserve" => Owns(Cur, pos) /\ \A j \in 1 .. at - 1 : JobReady(j)
  /\ phase = "compute" => \A j \in 1 .. Len(jobs) : JobReady(j)

(* The first n positions of cache s hold what the tokens t give. *)
Holds(s, n, t) == \A p \in 0 .. n - 1 : Read(s, p) = SubSeq(t, 1, p + 1)

(* Only prefixes of whole blocks are interned. *)
InternShape ==
  \A q \in DOMAIN byHash : \E k \in 1 .. Len(q) : Len(q) = k * BlockSize

Exact ==
  /\ \A s \in Seqs : Holds(s, Len(ids[s]), ids[s])
  /\ InternShape /\ InternedExact
  /\ phase = "commit" => \A j \in at .. Len(jobs) :
       Holds(jobs[j].seq, End(j), ids[jobs[j].seq] \o jobs[j].toks)

KvInv == IInv /\ Exclusive /\ Exact

-----------------------------------------------------------------------------
(* Blocks with one name. *)

(* The name a sole entry gives its block is the only one. *)
LEMMA SoleRefs ==
  ASSUME Counted, NEW s \in Seqs, NEW i, Sole(s, i)
  PROVE  /\ table[s][i] \in Block
         /\ TableRefs(table[s][i]) = {<<s, i>>} /\ HashRefs(table[s][i]) = {}
<1> USE DEF Counted
<1> DEFINE b == table[s][i]
           T == TableRefs(b)
           H == HashRefs(b)
<1>1. table[s] \in Seq(Block) /\ i \in 1 .. Len(table[s]) /\ refs[b] = 1
  BY DEF Sole, TypeOK
<1>2. b \in Block /\ i \in DOMAIN table[s]
  BY <1>1, ElementOfSeq, LenProperties
<1>3. <<s, i>> \in T
  BY <1>2 DEF TableRefs, Occ
<1>4. /\ IsFiniteSet(T) /\ IsFiniteSet(H)
      /\ Cardinality(T) \in Nat /\ Cardinality(H) \in Nat
      /\ 1 = Cardinality(T) + Cardinality(H)
  BY <1>1, <1>2, HashRefsFinite, FS_CardinalityType DEF RefsFinite, RefsExact
<1> HIDE DEF T, H
<1>5. Cardinality(T) # 0
  BY <1>3, <1>4, FS_EmptySet
<1>6. Cardinality(T) = 1 /\ Cardinality(H) = 0
  BY <1>4, <1>5
<1>7. H = {}
  BY <1>4, <1>6, FS_EmptySet
<1>8. PICK x : T = {x}
  BY <1>4, <1>6, FS_Singleton
<1> QED BY <1>2, <1>3, <1>7, <1>8 DEF T, H

(* A rebind of one cache to blocks it had and blocks that are interned leaves
   the sole entries of the others alone. *)
LEMMA RetableSole ==
  ASSUME Counted, NEW s \in Seqs, NEW t \in Seq(Block), Retable(s, t),
         \A j \in DOMAIN t : (\E k \in DOMAIN table[s] : t[j] = table[s][k])
                             \/ (\E q \in DOMAIN byHash : t[j] = byHash[q]),
         NEW r \in Seqs, r # s, NEW i, Sole(r, i)
  PROVE  Sole(r, i)'
<1> DEFINE b == table[r][i]
<1>1. /\ b \in Block /\ TableRefs(b) = {<<r, i>>} /\ HashRefs(b) = {}
      /\ i \in 1 .. Len(table[r]) /\ refs[b] = 1
  BY SoleRefs DEF Sole
<1>2. table \in [Seqs -> Seq(Block)] /\ table' = [table EXCEPT ![s] = t]
  BY DEF Counted, TypeOK, Retable
<1> HIDE DEF b
<1>3. \A k \in DOMAIN table[s] : table[s][k] # b
  <2>1. SUFFICES ASSUME NEW k \in DOMAIN table[s], table[s][k] = b PROVE FALSE
    OBVIOUS
  <2>2. <<s, k>> \in TableRefs(b)
    BY <2>1 DEF TableRefs, Occ
  <2> QED BY <1>1, <2>2
<1>4. \A q \in DOMAIN byHash : byHash[q] # b
  BY <1>1 DEF HashRefs
<1>5. Occ(table[s], b) = {} /\ Occ(t, b) = {}
  BY <1>3, <1>4 DEF Occ
<1>6. refs'[b] = 1
  <2>1. refs'[b] = refs[b] - Cardinality(Occ(table[s], b)) + Cardinality(Occ(t, b))
    BY <1>1 DEF Retable
  <2> QED BY <1>1, <1>5, <2>1, FS_EmptySet
<1>7. table'[r] = table[r]
  BY <1>2
<1> QED BY <1>1, <1>6, <1>7 DEF Sole, b

(* ensure_write takes no sole entry away, by a new block or by a copy. *)
LEMMA FaultSole ==
  ASSUME Counted, NEW s \in Seqs, NEW b \in Block,
         refs' = [refs EXCEPT ![b] = 1],
         table' = [table EXCEPT ![s] = Append(@, b)],
         NEW r \in Seqs, NEW i, Sole(r, i)
  PROVE  Sole(r, i)'
<1>1. /\ table[r] \in Seq(Block) /\ table[s] \in Seq(Block) /\ refs \in [Block -> Nat]
      /\ table \in [Seqs -> Seq(Block)] /\ i \in 1 .. Len(table[r]) /\ refs[table[r][i]] = 1
  BY DEF Counted, TypeOK, Sole
<1>2. Len(table[r]) \in Nat
  BY <1>1, LenProperties
<1>3. Len(table'[r]) >= Len(table[r]) /\ table'[r][i] = table[r][i]
  <2>1. CASE r # s
    BY <1>1, <1>2, <2>1
  <2>2. CASE r = s
    <3> DEFINE u == Append(table[s], b)
    <3>1. Len(u) = Len(table[s]) + 1 /\ u[i] = table[s][i]
      BY <1>1, <2>2, AppendProperties
    <3>2. table'[s] = u
      BY <1>1
    <3> HIDE DEF u
    <3>3. Len(table'[r]) = Len(u) /\ table'[r][i] = u[i]
      BY <2>2, <3>2
    <3>4. Len(table'[r]) = Len(table[r]) + 1 /\ table'[r][i] = table[r][i]
      BY <2>2, <3>1, <3>3, Zenon
    <3>5. Len(table'[r]) >= Len(table[r])
      <4> DEFINE m == Len(table[r])
                 m2 == Len(table'[r])
      <4>1. m \in Nat /\ m2 = m + 1
        BY <1>2, <3>4, Zenon
      <4> HIDE DEF m, m2
      <4>2. m2 >= m
        BY <4>1
      <4> QED BY <4>2 DEF m, m2
    <3> QED BY <3>4, <3>5, Zenon
  <2> QED BY <2>1, <2>2
<1>4. Len(table'[r]) \in Nat
  <2>1. table'[r] \in Seq(Block)
    BY <1>1, AppendProperties
  <2> QED BY <2>1, LenProperties
<1>5. i \in 1 .. Len(table'[r])
  BY <1>1, <1>2, <1>3, <1>4
<1>6. refs'[table[r][i]] = 1
  BY <1>1
<1> QED BY <1>3, <1>5, <1>6 DEF Sole

LEMMA CowSole ==
  ASSUME Counted, NEW s \in Seqs, NEW b \in Block, NEW k \in DOMAIN table[s],
         refs[table[s][k]] > 1, refs[b] <= 1,
         refs' = [refs EXCEPT ![b] = 1, ![table[s][k]] = @ - 1],
         table' = [table EXCEPT ![s] = [@ EXCEPT ![k] = b]],
         NEW r \in Seqs, NEW i, Sole(r, i)
  PROVE  Sole(r, i)'
<1>1. /\ table[r] \in Seq(Block) /\ table[s] \in Seq(Block) /\ refs \in [Block -> Nat]
      /\ table \in [Seqs -> Seq(Block)] /\ i \in 1 .. Len(table[r]) /\ refs[table[r][i]] = 1
  BY DEF Counted, TypeOK, Sole
<1> DEFINE old == table[s][k]
<1>2. old \in Block /\ old # b /\ table[r][i] # old /\ table[r][i] \in Block
  <2>1. k \in 1 .. Len(table[s])
    BY <1>1, LenProperties
  <2>2. old \in Block /\ table[r][i] \in Block
    BY <1>1, <2>1, ElementOfSeq
  <2>3. refs[old] \in Nat /\ refs[b] \in Nat
    BY <1>1, <2>2
  <2> QED BY <1>1, <2>2, <2>3
<1> HIDE DEF old
<1>3. refs'[table[r][i]] = 1
  <2>1. refs' = [refs EXCEPT ![b] = 1, ![old] = @ - 1]
    BY DEF old
  <2> QED BY <1>1, <1>2, <2>1
<1>4. r = s => k # i
  BY <1>2 DEF old
<1>5. table'[r][i] = table[r][i] /\ Len(table'[r]) = Len(table[r])
  <2>1. CASE r # s
    BY <1>1, <2>1
  <2>2. CASE r = s
    <3> DEFINE t == [table[s] EXCEPT ![k] = b]
    <3>1. k \in 1 .. Len(table[s]) /\ i \in 1 .. Len(table[s])
      BY <1>1, <2>2, LenProperties
    <3>2. Len(t) = Len(table[s])
      BY <1>1, <3>1, ExceptSeq
    <3>3. t[i] = table[s][i]
      BY <1>1, <1>4, <2>2, <3>1, LenProperties
    <3>4. table'[s] = t
      BY <1>1
    <3> QED BY <2>2, <3>2, <3>3, <3>4
  <2> QED BY <2>1, <2>2
<1> QED BY <1>1, <1>3, <1>5 DEF Sole

(* intern_full only counts blocks of its own cache. *)
LEMMA InternSole ==
  ASSUME Counted, NEW s \in Seqs, NEW t \in Seq(Token),
         Len(t) <= Len(table[s]) * BlockSize, InternFull(s, t), UNCHANGED table,
         NEW r \in Seqs, r # s, NEW i, Sole(r, i)
  PROVE  Sole(r, i)'
<1> DEFINE b == table[r][i]
<1>1. /\ b \in Block /\ TableRefs(b) = {<<r, i>>}
      /\ i \in 1 .. Len(table[r]) /\ refs[b] = 1
  BY SoleRefs DEF Sole
<1> HIDE DEF b
<1>2. \A k \in NewPrefixes(t) : table[s][k] # b
  <2>1. SUFFICES ASSUME NEW k \in NewPrefixes(t), table[s][k] = b PROVE FALSE
    OBVIOUS
  <2>2. k \in DOMAIN table[s]
    <3>1. /\ table[s] \in Seq(Block) /\ Len(table[s]) \in Nat /\ Len(t) \in Nat
          /\ DOMAIN table[s] = 1 .. Len(table[s])
      BY LenProperties DEF Counted, TypeOK
    <3>2. Len(t) \div BlockSize <= Len(table[s]) /\ Len(t) \div BlockSize \in Nat
      BY <3>1, BlockOf, BlockBelow
    <3> QED BY <3>1, <3>2 DEF NewPrefixes
  <2>3. <<s, k>> \in TableRefs(b)
    BY <2>1, <2>2 DEF TableRefs, Occ
  <2> QED BY <1>1, <2>3
<1> DEFINE N == {k \in NewPrefixes(t) : table[s][k] = b}
<1>3. refs'[b] = refs[b] + Cardinality(N)
  BY <1>1 DEF InternFull
<1>4. N = {}
  BY <1>2
<1> HIDE DEF N
<1>5. Cardinality(N) = 0
  BY <1>4, FS_EmptySet
<1>6. refs'[b] = 1
  BY <1>1, <1>3, <1>5
<1> QED BY <1>1, <1>6 DEF Sole, b

-----------------------------------------------------------------------------
(* Exclusive is kept. *)

(* Nothing at all, or nothing more than before, has to be owned. *)
LEMMA OwnsNothing ==
  ASSUME NEW s, Len(ids[s]) \in Nat
  PROVE  Owns(s, Len(ids[s])) /\ Owns(s, Len(ids[s]) + 0)
<1> DEFINE n == Len(ids[s])
<1>1. n .. n - 1 = {} /\ n + 0 = n
  <2>1. n \in Nat
    OBVIOUS
  <2> HIDE DEF n
  <2> QED BY <2>1
<1> QED BY <1>1 DEF Owns

LEMMA OwnsKept ==
  ASSUME NEW s, ids'[s] = ids[s], \A i : Sole(s, i) => Sole(s, i)',
         NEW n, Owns(s, n)
  PROVE  Owns(s, n)'
BY DEF Owns

(* While positions are reserved, sole entries stay sole. *)
LEMMA ReservedExclusive ==
  ASSUME TypeOK, CallShape, Exclusive, phase = "reserve",
         \A r \in Seqs : \A i : Sole(r, i) => Sole(r, i)',
         UNCHANGED <<ids, prepared, callVars>>
  PROVE  Exclusive'
<1>1. /\ \A s \in Seqs : Owns(s, Len(ids[s]) + prepared[s])
      /\ Owns(Cur, pos) /\ \A j \in 1 .. at - 1 : JobReady(j)
  BY DEF Exclusive
<1>2. /\ Cur \in Seqs /\ at \in 1 .. Len(jobs) /\ Len(jobs) \in Nat
      /\ \A j \in 1 .. Len(jobs) : jobs[j].seq \in Seqs
  BY CurrentJob
<1>3. /\ ids' = ids /\ prepared' = prepared /\ phase' = phase /\ op' = op /\ jobs' = jobs
      /\ at' = at /\ pos' = pos
  BY DEF callVars
<1>4. \A s \in Seqs : Owns(s, Len(ids[s]) + prepared[s])'
  <2>1. TAKE s \in Seqs
  <2>2. PICK n : n = Len(ids[s]) + prepared[s]
    OBVIOUS
  <2>3. Owns(s, n)'
    BY <1>1, <1>3, <2>2, OwnsKept
  <2> QED BY <1>3, <2>2, <2>3
<1>5. Owns(Cur, pos)'
  <2>1. PICK s, n : s \in Seqs /\ s = Cur /\ n = pos
    BY <1>2
  <2>2. Owns(s, n)'
    BY <1>1, <1>3, <2>1, OwnsKept
  <2> QED BY <1>3, <2>1, <2>2 DEF Cur
<1>6. ASSUME NEW j \in 1 .. at - 1 PROVE JobReady(j)'
  <2>1. j \in 1 .. Len(jobs)
    BY <1>2
  <2>2. PICK s, n : s \in Seqs /\ s = jobs[j].seq /\ n = End(j)
    BY <1>2, <2>1
  <2>3. Owns(s, n) /\ n <= MaxSeq
    BY <1>1, <2>2 DEF JobReady
  <2>4. Owns(s, n)'
    BY <1>3, <2>2, <2>3, OwnsKept
  <2>5. End(j)' = n /\ jobs'[j].seq = s
    BY <1>3, <2>2 DEF End
  <2> QED BY <2>3, <2>4, <2>5 DEF JobReady
<1> QED BY <1>3, <1>4, <1>5, <1>6 DEF Exclusive

LEMMA FaultExclusive == ASSUME IInv, Exclusive, Fault PROVE Exclusive'
<1> USE DEF IInv, Counted
<1>1. PICK b \in Block : /\ refs' = [refs EXCEPT ![b] = 1]
                         /\ table' = [table EXCEPT ![Cur] = Append(@, b)]
  BY DEF Fault
<1>2. phase = "reserve" /\ Cur \in Seqs /\ UNCHANGED <<ids, prepared, callVars>>
  BY CurrentJob DEF Fault
<1>3. \A r \in Seqs : \A i : Sole(r, i) => Sole(r, i)'
  BY <1>1, <1>2, FaultSole
<1> QED BY <1>2, <1>3, ReservedExclusive

(* The block of the position being reserved. *)
LEMMA IndexCovered ==
  ASSUME TypeOK, CallShape, phase = "reserve", ~NeedsBlock
  PROVE  Index \in DOMAIN table[Cur] /\ Index \in 1 .. Len(table[Cur])
<1>1. Cur \in Seqs /\ table[Cur] \in Seq(Block) /\ pos \in Nat
  BY CurrentJob
<1>2. pos \div BlockSize \in Nat
  BY <1>1, BlockOf
<1>3. Len(table[Cur]) \in Nat /\ DOMAIN table[Cur] = 1 .. Len(table[Cur])
  BY <1>1, LenProperties
<1> QED BY <1>2, <1>3 DEF NeedsBlock, Index

LEMMA CowExclusive == ASSUME IInv, Exclusive, Cow PROVE Exclusive'
<1> USE DEF IInv, Counted
<1>1. /\ phase = "reserve" /\ Cur \in Seqs /\ ~NeedsBlock
      /\ UNCHANGED <<ids, prepared, callVars>>
  BY CurrentJob DEF Cow, NeedsCopy
<1>2. PICK b \in Block :
        /\ Alloc(b)
        /\ refs' = [refs EXCEPT ![b] = 1, ![table[Cur][Index]] = @ - 1]
        /\ table' = [table EXCEPT ![Cur] = [@ EXCEPT ![Index] = b]]
  BY DEF Cow
<1>3. Index \in DOMAIN table[Cur] /\ refs[table[Cur][Index]] > 1
  BY <1>1, IndexCovered DEF Cow, NeedsCopy
<1>4. refs[b] <= 1
  BY <1>2, AllocUnnamed
<1>5. \A r \in Seqs : \A i : Sole(r, i) => Sole(r, i)'
  BY <1>1, <1>2, <1>3, <1>4, CowSole
<1> QED BY <1>1, <1>5, ReservedExclusive

(* A block in a table is counted. *)
LEMMA RefsPositive ==
  ASSUME Counted, NEW s \in Seqs, NEW i \in 1 .. Len(table[s])
  PROVE  /\ table[s][i] \in Block /\ refs[table[s][i]] \in Nat
         /\ refs[table[s][i]] >= 1
<1> USE DEF Counted
<1> DEFINE b == table[s][i]
           T == TableRefs(b)
           H == HashRefs(b)
<1>1. table[s] \in Seq(Block)
  BY DEF TypeOK
<1>2. b \in Block /\ i \in DOMAIN table[s]
  BY <1>1, ElementOfSeq, LenProperties
<1>3. <<s, i>> \in T
  BY <1>2 DEF TableRefs, Occ
<1>4. /\ IsFiniteSet(T) /\ Cardinality(T) \in Nat /\ Cardinality(H) \in Nat
      /\ refs[b] = Cardinality(T) + Cardinality(H) /\ refs[b] \in Nat
  BY <1>2, HashRefsFinite, FS_CardinalityType DEF RefsFinite, RefsExact, TypeOK
<1> HIDE DEF T, H, b
<1>5. Cardinality(T) # 0
  BY <1>3, <1>4, FS_EmptySet
<1>6. refs[b] >= 1
  BY <1>4, <1>5
<1> QED BY <1>2, <1>4, <1>6 DEF b

LEMMA ReservedPosExclusive == ASSUME IInv, Exclusive, Reserved PROVE Exclusive'
<1> USE DEF IInv, Counted
<1>1. /\ phase = "reserve" /\ ~NeedsBlock /\ ~NeedsCopy /\ pos' = pos + 1
      /\ UNCHANGED <<poolVars, cacheVars, phase, op, jobs, at, result>>
  BY DEF Reserved
<1>2. /\ Cur \in Seqs /\ pos \in Nat /\ Len(ids[Cur]) \in Nat
      /\ at \in 1 .. Len(jobs) /\ Len(jobs) \in Nat
  BY <1>1, CurrentJob DEF Cur
<1>3. Sole(Cur, Index)
  <2>1. Index \in 1 .. Len(table[Cur])
    BY <1>1, IndexCovered
  <2>2. /\ refs[table[Cur][Index]] \in Nat /\ refs[table[Cur][Index]] >= 1
        /\ ~(refs[table[Cur][Index]] > 1)
    BY <1>1, <1>2, <2>1, RefsPositive DEF NeedsCopy
  <2>3. refs[table[Cur][Index]] = 1
    BY <2>2
  <2> QED BY <2>1, <2>3 DEF Sole
<1>4. Owns(Cur, pos + 1)
  <2>1. Owns(Cur, pos)
    BY <1>1 DEF Exclusive
  <2>2. SUFFICES ASSUME NEW p \in Len(ids[Cur]) .. (pos + 1) - 1
                 PROVE  Sole(Cur, p \div BlockSize + 1)
    BY DEF Owns
  <2>3. p \in Len(ids[Cur]) .. pos - 1 \/ p = pos
    BY <1>2
  <2> QED BY <1>3, <2>1, <2>3 DEF Owns, Index
<1>5. /\ ids' = ids /\ table' = table /\ refs' = refs /\ prepared' = prepared
      /\ jobs' = jobs /\ at' = at /\ phase' = phase /\ Cur' = Cur
  BY <1>1 DEF poolVars, cacheVars, Cur
<1>6. \A s, n, m : Owns(s, n) /\ n = m => Owns(s, m)'
  BY <1>5 DEF Owns, Sole
<1>7. Owns(Cur, pos)'
  BY <1>1, <1>4, <1>5, <1>6
<1>8. \A j \in 1 .. at - 1 : JobReady(j)'
  BY <1>1, <1>5, <1>6 DEF JobReady, End, Exclusive
<1>9. \A s \in Seqs : Owns(s, Len(ids[s]) + prepared[s])'
  BY <1>1, <1>5, <1>6 DEF Exclusive
<1> QED BY <1>1, <1>5, <1>7, <1>8, <1>9 DEF Exclusive

LEMMA NextJobExclusive == ASSUME IInv, Exclusive, NextJob PROVE Exclusive'
<1> USE DEF IInv, Counted
<1>1. /\ phase = "reserve" /\ pos = End(at) /\ Fits
      /\ UNCHANGED <<poolVars, live, table, ids, suffix>>
  BY DEF NextJob
<1>2. /\ Len(jobs) \in Nat /\ at \in 1 .. Len(jobs) /\ Cur \in Seqs
      /\ \A j \in 1 .. Len(jobs) : jobs[j].seq \in Seqs /\ Len(ids[jobs[j].seq]) \in Nat
  BY <1>1, CurrentJob
<1>3. /\ \A s \in Seqs : Owns(s, Len(ids[s]) + prepared[s])
      /\ \A j \in 1 .. at : JobReady(j)
  <2>1. JobReady(at)
    BY <1>1 DEF Exclusive, JobReady, Fits, Cur
  <2> QED BY <1>1, <1>2, <2>1 DEF Exclusive
<1>4. \A s, n, m : Owns(s, n) /\ n = m => Owns(s, m)'
  BY <1>1 DEF Owns, Sole, poolVars
<1>5. CASE /\ at < Len(jobs)
           /\ at' = at + 1 /\ pos' = Len(ids[jobs[at + 1].seq])
           /\ UNCHANGED <<phase, op, jobs, prepared, result>>
  <2>1. Owns(Cur, pos)'
    <3>1. PICK s \in Seqs : s = jobs[at + 1].seq /\ Len(ids[s]) \in Nat
      BY <1>2, <1>5
    <3>2. Owns(s, Len(ids[s]))
      BY <3>1, OwnsNothing
    <3>3. Cur' = s /\ pos' = Len(ids[s])
      BY <1>5, <3>1 DEF Cur
    <3> QED BY <1>4, <3>2, <3>3
  <2>2. \A j \in 1 .. at' - 1 : JobReady(j)'
    <3>1. SUFFICES ASSUME NEW j \in 1 .. at PROVE JobReady(j)'
      BY <1>2, <1>5
    <3> QED BY <1>1, <1>3, <1>4, <1>5 DEF JobReady, End
  <2>3. \A s \in Seqs : Owns(s, Len(ids[s]) + prepared[s])'
    BY <1>1, <1>3, <1>4, <1>5
  <2> QED BY <1>1, <1>5, <2>1, <2>2, <2>3 DEF Exclusive
<1>6. CASE /\ at = Len(jobs) /\ op = "prefill"
           /\ phase' = "compute" /\ at' = 1
           /\ UNCHANGED <<op, jobs, pos, prepared, result>>
  <2>1. \A j \in 1 .. Len(jobs') : JobReady(j)'
    BY <1>1, <1>3, <1>4, <1>6 DEF JobReady, End
  <2>2. \A s \in Seqs : Owns(s, Len(ids[s]) + prepared[s])'
    BY <1>1, <1>3, <1>4, <1>6
  <2> QED BY <1>6, <2>1, <2>2 DEF Exclusive
<1>7. CASE /\ at = Len(jobs) /\ op = "prepare"
           /\ prepared' = [prepared EXCEPT ![Cur] = Len(jobs[at].toks)]
           /\ Finish("ok")
  <2>1. ASSUME NEW s \in Seqs PROVE Owns(s, Len(ids[s]) + prepared[s])'
    <3>1. CASE s # Cur
      <4>1. prepared'[s] = prepared[s]
        BY <1>7, <3>1 DEF TypeOK
      <4> QED BY <1>1, <1>3, <1>4, <4>1
    <3>2. CASE s = Cur
      <4>1. Len(ids[s]) + prepared'[s] = End(at)
        BY <1>7, <3>2 DEF TypeOK, End, Cur
      <4>2. Owns(s, End(at))
        BY <1>1, <3>2 DEF Exclusive
      <4> QED BY <1>1, <1>4, <4>1, <4>2
    <3> QED BY <3>1, <3>2
  <2> QED BY <1>7, <2>1 DEF Exclusive, Finish
<1> QED BY <1>5, <1>6, <1>7 DEF NextJob

(* Where nothing is reserved, only the reservations of prepare_append count. *)
LEMMA IdleExclusive ==
  ASSUME phase' \notin {"reserve", "compute"},
         \A s \in Seqs : Owns(s, Len(ids[s]) + prepared[s])'
  PROVE  Exclusive'
BY DEF Exclusive

LEMMA ErrorExclusive ==
  ASSUME Exclusive, FullError \/ CapError \/ TransformerError \/ Transformer
  PROVE  Exclusive'
<1>1. /\ UNCHANGED <<refs, cacheVars>> /\ phase' \notin {"reserve", "compute"}
  BY DEF FullError, CapError, TransformerError, Transformer, Finish, poolVars
<1>2. \A s, n, m : Owns(s, n) /\ n = m => Owns(s, m)'
  BY <1>1 DEF Owns, Sole, cacheVars
<1>3. \A s \in Seqs : Owns(s, Len(ids[s]) + prepared[s])'
  BY <1>1, <1>2 DEF Exclusive, cacheVars
<1> QED BY <1>1, <1>3, IdleExclusive

LEMMA CommitExclusive == ASSUME IInv, Exclusive, Commit PROVE Exclusive'
<1> USE DEF IInv, Counted
<1> DEFINE t == ids[Cur] \o jobs[at].toks
<1>1. /\ phase = "commit" /\ ids' = [ids EXCEPT ![Cur] = t] /\ InternFull(Cur, t)
      /\ prepared' = [prepared EXCEPT ![Cur] = 0]
      /\ UNCHANGED <<content, live, table>>
  BY DEF Commit
<1>2. /\ at \in 1 .. Len(jobs) /\ Cur \in Seqs
      /\ ids[Cur] \in Seq(Token) /\ jobs[at].toks \in Seq(Token)
  BY <1>1, CurrentJob DEF TypeOK
<1>3. t \in Seq(Token) /\ Len(t) \in Nat /\ Len(t) <= Len(table[Cur]) * BlockSize
  <2>1. t \in Seq(Token) /\ Len(t) = End(at)
    BY <1>2, ConcatProperties DEF End, Cur
  <2>2. Secured(at)
    BY <1>1, <1>2 DEF Covered
  <2> QED BY <2>1, <2>2, LenProperties DEF Secured, Cur
<1>4. phase' \notin {"reserve", "compute"}
  BY <1>1 DEF Commit, Finish
<1> HIDE DEF t
<1>5. ASSUME NEW s \in Seqs PROVE Owns(s, Len(ids[s]) + prepared[s])'
  <2>1. CASE s = Cur
    <3>1. ids'[s] = t /\ prepared'[s] = 0
      BY <1>1, <1>2, <2>1 DEF TypeOK
    <3>2. Len(t) .. (Len(t) + 0) - 1 = {}
      <4> DEFINE n == Len(t)
      <4>1. n \in Nat
        BY <1>3
      <4> HIDE DEF n
      <4>2. n .. (n + 0) - 1 = {}
        BY <4>1
      <4> QED BY <4>2 DEF n
    <3> QED BY <3>1, <3>2 DEF Owns
  <2>2. CASE s # Cur
    <3>1. ids'[s] = ids[s] /\ prepared'[s] = prepared[s]
      BY <1>1, <1>2, <2>2 DEF TypeOK
    <3>2. \A i : Sole(s, i) => Sole(s, i)'
      BY <1>1, <1>2, <1>3, <2>2, InternSole
    <3>3. PICK n : n = Len(ids[s]) + prepared[s]
      OBVIOUS
    <3>4. Owns(s, n)'
      BY <3>1, <3>2, <3>3, OwnsKept DEF Exclusive
    <3> QED BY <3>1, <3>3, <3>4
  <2> QED BY <2>1, <2>2
<1> QED BY <1>4, <1>5, IdleExclusive

(* Rewinding one cache, to nothing or into a prompt. *)
LEMMA RetableExclusive ==
  ASSUME Counted, Exclusive, NEW s \in Seqs, NEW t \in Seq(Block), Retable(s, t),
         \A j \in DOMAIN t : (\E k \in DOMAIN table[s] : t[j] = table[s][k])
                             \/ (\E q \in DOMAIN byHash : t[j] = byHash[q]),
         NEW u \in Seq(Token), ids' = [ids EXCEPT ![s] = u],
         prepared' = [prepared EXCEPT ![s] = 0], phase' = "idle"
  PROVE  Exclusive'
<1>1. ASSUME NEW r \in Seqs PROVE Owns(r, Len(ids[r]) + prepared[r])'
  <2>1. CASE r = s
    <3>1. ids'[r] = u /\ prepared'[r] = 0
      BY <2>1 DEF Counted, TypeOK
    <3>2. Len(u) .. (Len(u) + 0) - 1 = {}
      <4> DEFINE n == Len(u)
      <4>1. n \in Nat
        BY LenProperties
      <4> HIDE DEF n
      <4>2. n .. (n + 0) - 1 = {}
        BY <4>1
      <4> QED BY <4>2 DEF n
    <3> QED BY <3>1, <3>2 DEF Owns
  <2>2. CASE r # s
    <3>1. ids'[r] = ids[r] /\ prepared'[r] = prepared[r]
      BY <2>2 DEF Counted, TypeOK
    <3>2. \A i : Sole(r, i) => Sole(r, i)'
      BY <2>2, RetableSole
    <3>3. PICK n : n = Len(ids[r]) + prepared[r]
      OBVIOUS
    <3>4. Owns(r, n)'
      BY <3>1, <3>2, <3>3, OwnsKept DEF Exclusive
    <3> QED BY <3>1, <3>3, <3>4
  <2> QED BY <2>1, <2>2
<1> QED BY <1>1, IdleExclusive

LEMMA ClearExclusive ==
  ASSUME Counted, Exclusive, NEW s \in Seqs, Clear(s) PROVE Exclusive'
<1>1. /\ Retable(s, <<>>) /\ ids' = [ids EXCEPT ![s] = <<>>]
      /\ prepared' = [prepared EXCEPT ![s] = 0] /\ phase' = "idle"
  BY DEF Clear, callVars
<1>2. <<>> \in Seq(Block) /\ <<>> \in Seq(Token) /\ DOMAIN <<>> = {}
  BY EmptySeq
<1> QED BY <1>1, <1>2, RetableExclusive

-----------------------------------------------------------------------------
(* Addresses and prefixes. *)

(* Offset o of block a is position a * BlockSize + o, and no other. *)
LEMMA AddressOf ==
  ASSUME NEW a \in Nat, NEW o \in Offset
  PROVE  /\ a * BlockSize + o \in Nat
         /\ (a * BlockSize + o) \div BlockSize = a
         /\ (a * BlockSize + o) % BlockSize = o
<1> DEFINE n == a * BlockSize + o
           q == n \div BlockSize
           r == n % BlockSize
<1>1. /\ BlockSize \in Nat /\ BlockSize > 0 /\ o \in 0 .. BlockSize - 1
      /\ a * BlockSize \in Nat /\ n \in Nat
  BY KvAssumption DEF Offset
<1>2. q \in Nat /\ r \in 0 .. BlockSize - 1 /\ n = q * BlockSize + r
  BY <1>1, BlockOf DEF Offset
<1> HIDE DEF q, r
<1>3. ASSUME NEW i \in Nat, NEW j \in Nat, i + 1 <= j
      PROVE  i * BlockSize + BlockSize <= j * BlockSize /\ i * BlockSize \in Nat
                /\ j * BlockSize \in Nat
  <2>1. (i + 1) * BlockSize <= j * BlockSize
    BY <1>1, <1>3
  <2>2. (i + 1) * BlockSize = i * BlockSize + BlockSize
    BY <1>1
  <2> QED BY <1>1, <2>1, <2>2
<1>4. ~(q + 1 <= a) /\ ~(a + 1 <= q)
  <2>1. ASSUME q + 1 <= a PROVE FALSE
    <3>1. q * BlockSize + BlockSize <= a * BlockSize /\ q * BlockSize \in Nat
      BY <1>2, <1>3, <2>1
    <3> QED BY <1>1, <1>2, <3>1
  <2>2. ASSUME a + 1 <= q PROVE FALSE
    <3>1. a * BlockSize + BlockSize <= q * BlockSize /\ q * BlockSize \in Nat
      BY <1>2, <1>3, <2>2
    <3> QED BY <1>1, <1>2, <3>1
  <2> QED BY <2>1, <2>2
<1>5. q = a
  BY <1>2, <1>4
<1>6. r = o
  BY <1>1, <1>2, <1>5
<1> QED BY <1>1, <1>5, <1>6 DEF q, r

LEMMA SamePosition ==
  ASSUME NEW p \in Nat, NEW x \in Nat,
         p \div BlockSize = x \div BlockSize, p % BlockSize = x % BlockSize
  PROVE  p = x
<1> DEFINE q == p \div BlockSize
           r == p % BlockSize
<1>1. p = q * BlockSize + r /\ x = q * BlockSize + r
  BY BlockOf
<1> HIDE DEF q, r
<1> QED BY <1>1

(* The prefix of a text. *)
LEMMA Prefix ==
  ASSUME NEW t \in Seq(Token), NEW m \in 0 .. Len(t)
  PROVE  /\ SubSeq(t, 1, m) \in Seq(Token) /\ Len(SubSeq(t, 1, m)) = m
         /\ \A i \in 1 .. m : SubSeq(t, 1, m)[i] = t[i]
<1>1. Len(t) \in Nat /\ m \in Nat /\ \A i \in 1 .. m : t[i] \in Token
  BY LenProperties, ElementOfSeq
<1> QED BY <1>1, SubSeqProperties

(* Texts that agree on m tokens have the same prefix of m tokens. *)
LEMMA PrefixEqual ==
  ASSUME NEW t \in Seq(Token), NEW u \in Seq(Token),
         NEW m \in Nat, m <= Len(t), m <= Len(u), \A i \in 1 .. m : t[i] = u[i]
  PROVE  SubSeq(t, 1, m) = SubSeq(u, 1, m)
<1>1. m \in 0 .. Len(t) /\ m \in 0 .. Len(u)
  BY LenProperties
<1>2. PICK v, w : v = SubSeq(t, 1, m) /\ w = SubSeq(u, 1, m)
  OBVIOUS
<1>3. /\ v \in Seq(Token) /\ Len(v) = m /\ w \in Seq(Token) /\ Len(w) = m
      /\ \A i \in 1 .. m : v[i] = w[i]
  BY <1>1, <1>2, Prefix
<1>4. v = w
  BY <1>3, SeqEqual
<1> QED BY <1>2, <1>4

LEMMA PrefixOfPrefix ==
  ASSUME NEW t \in Seq(Token), NEW n \in 0 .. Len(t), NEW m \in 0 .. n
  PROVE  SubSeq(SubSeq(t, 1, n), 1, m) = SubSeq(t, 1, m)
<1>1. PICK v : v = SubSeq(t, 1, n)
  OBVIOUS
<1>2. v \in Seq(Token) /\ Len(v) = n /\ \A i \in 1 .. n : v[i] = t[i]
  BY <1>1, Prefix
<1>3. Len(t) \in Nat /\ m \in Nat /\ m <= Len(t) /\ m <= n
  BY LenProperties
<1>4. SubSeq(v, 1, m) = SubSeq(t, 1, m)
  BY <1>2, <1>3, PrefixEqual
<1> QED BY <1>1, <1>4

(* A text and what is appended to it. *)
LEMMA PrefixOfConcat ==
  ASSUME NEW t \in Seq(Token), NEW u \in Seq(Token)
  PROVE  /\ t \o u \in Seq(Token) /\ Len(t \o u) = Len(t) + Len(u)
         /\ \A m \in 0 .. Len(t) : SubSeq(t \o u, 1, m) = SubSeq(t, 1, m)
         /\ \A d \in 0 .. Len(u) : t \o SubSeq(u, 1, d) = SubSeq(t \o u, 1, Len(t) + d)
<1> DEFINE v == t \o u
<1>1. /\ v \in Seq(Token) /\ Len(v) = Len(t) + Len(u)
      /\ Len(t) \in Nat /\ Len(u) \in Nat
      /\ \A i \in 1 .. Len(t) + Len(u) : v[i] = IF i <= Len(t) THEN t[i] ELSE u[i - Len(t)]
  BY ConcatProperties, LenProperties
<1> HIDE DEF v
<1>2. ASSUME NEW m \in 0 .. Len(t) PROVE SubSeq(v, 1, m) = SubSeq(t, 1, m)
  BY <1>1, PrefixEqual
<1>3. ASSUME NEW d \in 0 .. Len(u) PROVE t \o SubSeq(u, 1, d) = SubSeq(v, 1, Len(t) + d)
  <2>1. PICK a, b : a = SubSeq(u, 1, d) /\ b = SubSeq(v, 1, Len(t) + d)
    OBVIOUS
  <2>2. a \in Seq(Token) /\ Len(a) = d /\ \A i \in 1 .. d : a[i] = u[i]
    BY <2>1, Prefix
  <2>3. Len(t) + d \in 0 .. Len(v) /\ d \in Nat
    BY <1>1
  <2>4. b \in Seq(Token) /\ Len(b) = Len(t) + d /\ \A i \in 1 .. Len(t) + d : b[i] = v[i]
    BY <1>1, <2>1, <2>3, Prefix
  <2> DEFINE c == t \o a
  <2>5. /\ c \in Seq(Token) /\ Len(c) = Len(t) + d
        /\ \A i \in 1 .. Len(t) + d : c[i] = IF i <= Len(t) THEN t[i] ELSE a[i - Len(t)]
    BY <2>2, ConcatProperties
  <2> HIDE DEF c
  <2>6. ASSUME NEW i \in 1 .. Len(t) + d PROVE c[i] = b[i]
    <3>1. v[i] = IF i <= Len(t) THEN t[i] ELSE u[i - Len(t)]
      BY <1>1, <2>3
    <3>2. i > Len(t) => i - Len(t) \in 1 .. d
      BY <1>1, <2>3
    <3>3. b[i] = v[i] /\ c[i] = IF i <= Len(t) THEN t[i] ELSE a[i - Len(t)]
      BY <2>4, <2>5
    <3>4. CASE i <= Len(t)
      BY <3>1, <3>3, <3>4
    <3>5. CASE i > Len(t)
      <4>1. a[i - Len(t)] = u[i - Len(t)]
        BY <2>2, <3>2, <3>5
      <4>2. ~(i <= Len(t))
        BY <1>1, <2>3, <3>5
      <4> QED BY <3>1, <3>3, <4>1, <4>2
    <3> QED BY <1>1, <2>3, <3>4, <3>5
  <2>7. c = b
    BY <2>4, <2>5, <2>6, SeqEqual
  <2> QED BY <2>1, <2>7 DEF c
<1> QED BY <1>1, <1>2, <1>3 DEF v

-----------------------------------------------------------------------------
(* prompt_suffix: where the entries of the new table come from. *)

LEMMA TakeElements ==
  ASSUME NEW S, NEW t \in Seq(S), NEW n \in Nat
  PROVE  /\ Take(t, n) \in Seq(S) /\ Len(Take(t, n)) \in Nat
         /\ Len(Take(t, n)) <= Len(t) /\ Len(Take(t, n)) <= n
         /\ \A i \in 1 .. Len(Take(t, n)) : Take(t, n)[i] = t[i]
<1> DEFINE m == IF n < Len(t) THEN n ELSE Len(t)
           u == SubSeq(t, 1, m)
<1>1. Len(t) \in Nat
  BY LenProperties
<1>2. m \in Nat /\ m <= Len(t) /\ m <= n
  BY <1>1
<1>3. \A i \in 1 .. m : t[i] \in S
  BY <1>1, <1>2, ElementOfSeq
<1>4. Take(t, n) = u
  BY DEF Take
<1> HIDE DEF m
<1>5. u \in Seq(S) /\ Len(u) = m /\ \A i \in 1 .. m : u[i] = t[i]
  BY <1>2, <1>3, SubSeqProperties
<1> HIDE DEF u
<1> QED BY <1>2, <1>4, <1>5

LEMMA RebindEntries ==
  ASSUME TypeOK, NEW s \in Seqs, NEW p \in Seq(Token),
         NEW n \in 0 .. Len(ids[s]), NEW k \in 0 .. Len(p),
         Binds(k, p, n, Take(table[s], BlocksFor(n))), NEW h \in Nat
  PROVE  LET kept  == Take(table[s], BlocksFor(n))
             bound == [j \in 1 .. k |-> byHash[SubSeq(p, 1, n + j * BlockSize)]]
             new   == Take(kept \o bound, BlocksFor(h))
         IN  /\ new \in Seq(Block)
             /\ \A i \in 1 .. Len(new) :
                  \/ /\ i \in 1 .. Len(table[s]) /\ new[i] = table[s][i]
                     /\ k > 0 => i * BlockSize <= n
                  \/ /\ i * BlockSize \in 0 .. Len(p)
                     /\ SubSeq(p, 1, i * BlockSize) \in DOMAIN byHash
                     /\ new[i] = byHash[SubSeq(p, 1, i * BlockSize)]
<1> DEFINE kept  == Take(table[s], BlocksFor(n))
           bound == [j \in 1 .. k |-> byHash[SubSeq(p, 1, n + j * BlockSize)]]
           new   == Take(kept \o bound, BlocksFor(h))
<1>1. /\ table[s] \in Seq(Block) /\ Len(table[s]) \in Nat /\ Len(p) \in Nat
      /\ n \in Nat /\ k \in Nat /\ BlockSize \in Nat /\ BlockSize > 0
      /\ byHash \in [DOMAIN byHash -> Block]
  <2>1. table[s] \in Seq(Block) /\ ids[s] \in Seq(Token) /\ byHash \in [DOMAIN byHash -> Block]
    BY DEF TypeOK
  <2> QED BY <2>1, LenProperties, KvAssumption
<1>2. BlocksFor(n) \in Nat /\ BlocksFor(h) \in Nat
  BY <1>1, BlocksForCovers
<1>3. /\ kept \in Seq(Block) /\ Len(kept) \in Nat /\ Len(kept) <= Len(table[s])
      /\ \A i \in 1 .. Len(kept) : kept[i] = table[s][i]
  BY <1>1, <1>2, TakeElements
<1>4. \A j \in 1 .. k : /\ n + j * BlockSize <= Len(p)
                        /\ SubSeq(p, 1, n + j * BlockSize) \in DOMAIN byHash
  BY <1>1 DEF Binds
<1>5. bound \in Seq(Block) /\ Len(bound) = k
  <2>1. \A j \in 1 .. k : byHash[SubSeq(p, 1, n + j * BlockSize)] \in Block
    <3>1. TAKE j \in 1 .. k
    <3>2. SubSeq(p, 1, n + j * BlockSize) \in DOMAIN byHash
      BY <1>4
    <3> QED BY <1>1, <3>2
  <2>2. bound \in [1 .. k -> Block]
    BY ONLY <2>1
  <2> HIDE DEF bound
  <2> QED BY <1>1, <2>2
<1>6. k > 0 => n = Len(kept) * BlockSize
  <2>1. SUFFICES ASSUME k > 0 PROVE n = Len(kept) * BlockSize
    OBVIOUS
  <2>2. n % BlockSize = 0 /\ Len(kept) = n \div BlockSize
    BY <1>1, <2>1 DEF Binds
  <2> QED BY <1>1, <2>2, BlockOf
<1>7. \A j \in 1 .. k : bound[j] = byHash[SubSeq(p, 1, n + j * BlockSize)]
  OBVIOUS
<1> HIDE DEF kept, bound
<1> DEFINE all == kept \o bound
<1>8. /\ all \in Seq(Block) /\ Len(all) = Len(kept) + k
      /\ \A i \in 1 .. Len(kept) + k :
           all[i] = IF i <= Len(kept) THEN kept[i] ELSE bound[i - Len(kept)]
  BY <1>3, <1>5, ConcatProperties
<1> HIDE DEF all
<1>9. /\ new \in Seq(Block) /\ Len(new) \in Nat /\ Len(new) <= Len(all)
      /\ \A i \in 1 .. Len(new) : new[i] = all[i]
  BY <1>2, <1>8, TakeElements DEF all
<1> HIDE DEF new
<1>10. ASSUME NEW i \in 1 .. Len(new)
       PROVE  \/ /\ i \in 1 .. Len(table[s]) /\ new[i] = table[s][i]
                 /\ k > 0 => i * BlockSize <= n
              \/ /\ i * BlockSize \in 0 .. Len(p)
                 /\ SubSeq(p, 1, i * BlockSize) \in DOMAIN byHash
                 /\ new[i] = byHash[SubSeq(p, 1, i * BlockSize)]
  <2>1. i \in 1 .. Len(kept) + k /\ new[i] = all[i] /\ i \in Nat
    BY <1>1, <1>3, <1>8, <1>9
  <2>2. CASE i <= Len(kept)
    <3>1. i \in 1 .. Len(kept) /\ i \in 1 .. Len(table[s])
      BY <1>1, <1>3, <2>1, <2>2
    <3>2. new[i] = table[s][i]
      BY <1>3, <1>8, <2>1, <2>2, <3>1
    <3>3. i * BlockSize <= Len(kept) * BlockSize
      BY <1>1, <1>3, <2>1, <2>2
    <3> QED BY <1>6, <3>1, <3>2, <3>3
  <2>3. CASE ~(i <= Len(kept))
    <3> DEFINE j == i - Len(kept)
    <3>1. j \in 1 .. k /\ i = Len(kept) + j /\ j \in Nat
      BY <1>1, <1>3, <2>1, <2>3
    <3> HIDE DEF j
    <3>2. i * BlockSize = Len(kept) * BlockSize + j * BlockSize
      BY <1>1, <1>3, <3>1
    <3>3. k > 0
      BY <1>1, <3>1
    <3>4. i * BlockSize = n + j * BlockSize
      BY <1>6, <3>2, <3>3
    <3>5. new[i] = bound[j]
      BY <1>8, <2>1, <2>3 DEF j
    <3>6. i * BlockSize \in Nat
      BY <1>1, <2>1
    <3>7. i * BlockSize <= Len(p)
      BY <1>4, <3>1, <3>4
    <3> QED BY <1>1, <1>4, <1>7, <3>1, <3>4, <3>5, <3>6, <3>7
  <2> QED BY <2>2, <2>3
<1> QED BY <1>9, <1>10 DEF kept, bound, all, new

-----------------------------------------------------------------------------
(* Exact is kept by the steps that write no vector. *)

(* Whatever a table or the intern table names is counted. *)
NamesCounted ==
  /\ \A s \in Seqs : \A i \in 1 .. Len(table[s]) :
       table[s][i] \in Block /\ refs[table[s][i]] # 0
  /\ \A q \in DOMAIN byHash : byHash[q] \in Block /\ refs[byHash[q]] # 0

LEMMA CountedNames == Counted => NamesCounted
<1> SUFFICES ASSUME Counted PROVE NamesCounted
  OBVIOUS
<1>1. ASSUME NEW s \in Seqs, NEW i \in 1 .. Len(table[s])
      PROVE  table[s][i] \in Block /\ refs[table[s][i]] # 0
  <2>1. PICK c : c = refs[table[s][i]]
    OBVIOUS
  <2>2. table[s][i] \in Block /\ c \in Nat /\ c >= 1
    BY <2>1, RefsPositive
  <2>3. c # 0
    BY <2>2
  <2> QED BY <2>1, <2>2, <2>3
<1>2. ASSUME NEW q \in DOMAIN byHash PROVE byHash[q] \in Block /\ refs[byHash[q]] # 0
  <2> DEFINE b == byHash[q]
             T == TableRefs(b)
             H == HashRefs(b)
  <2>1. b \in Block /\ q \in H
    BY DEF Counted, TypeOK, HashRefs
  <2>2. /\ IsFiniteSet(H) /\ Cardinality(T) \in Nat /\ Cardinality(H) \in Nat
        /\ refs[b] = Cardinality(T) + Cardinality(H)
    BY <2>1, HashRefsFinite, FS_CardinalityType DEF Counted, RefsFinite, RefsExact
  <2> HIDE DEF T, H, b
  <2>3. Cardinality(H) # 0
    BY <2>1, <2>2, FS_EmptySet
  <2>4. refs[b] # 0
    BY <2>2, <2>3
  <2> QED BY <2>1, <2>4 DEF b
<1> QED BY <1>1, <1>2 DEF NamesCounted

(* The block of a position a cache has filled. *)
LEMMA PosCovered ==
  ASSUME TypeOK, Covered, NEW s \in Seqs, NEW p \in 0 .. Len(ids[s]) - 1
  PROVE  /\ p \in Nat /\ p \div BlockSize \in Nat /\ p % BlockSize \in Offset
         /\ p \div BlockSize + 1 \in 1 .. Len(table[s])
         /\ table[s][p \div BlockSize + 1] \in Block
<1>1. /\ table[s] \in Seq(Block) /\ Len(table[s]) \in Nat /\ Len(ids[s]) \in Nat
      /\ Len(ids[s]) <= Len(table[s]) * BlockSize
  BY LenProperties DEF TypeOK, Covered
<1>2. p \in Nat /\ p < Len(ids[s])
  BY <1>1
<1>3. p \div BlockSize \in Nat /\ p % BlockSize \in Offset
  BY <1>2, BlockOf
<1>4. p < Len(table[s]) * BlockSize
  <2>1. PICK u : u = Len(table[s]) * BlockSize
    OBVIOUS
  <2>2. u \in Nat
    BY <1>1, <2>1, KvAssumption
  <2> QED BY <1>1, <1>2, <2>1, <2>2
<1>5. p \div BlockSize + 1 <= Len(table[s])
  BY <1>1, <1>2, <1>4, BlockBelow
<1>6. p \div BlockSize + 1 \in 1 .. Len(table[s])
  BY <1>1, <1>3, <1>5
<1> QED BY <1>1, <1>2, <1>3, <1>6, ElementOfSeq

(* Every entry leads to the vectors it led to before. *)
LEMMA ContentKept ==
  ASSUME TypeOK, Covered, Exact, ids' = ids, phase' # "commit",
         \A r \in Seqs : \A i \in 1 .. Len(table[r]) :
           content'[table'[r][i]] = content[table[r][i]],
         \A q \in DOMAIN byHash' :
           q \in DOMAIN byHash /\ content'[byHash'[q]] = content[byHash[q]]
  PROVE  Exact'
<1>1. ASSUME NEW s \in Seqs PROVE Holds(s, Len(ids[s]), ids[s])'
  <2>1. SUFFICES ASSUME NEW p \in 0 .. Len(ids[s]) - 1
                 PROVE  Read(s, p)' = SubSeq(ids[s], 1, p + 1)
    BY DEF Holds
  <2>2. Read(s, p) = SubSeq(ids[s], 1, p + 1)
    BY DEF Exact, Holds
  <2>3. Read(s, p)' = Read(s, p)
    BY PosCovered DEF Read
  <2> QED BY <2>2, <2>3
<1>2. InternShape'
  BY DEF Exact, InternShape
<1>3. InternedExact'
  BY DEF Exact, InternedExact
<1> QED BY <1>1, <1>2, <1>3 DEF Exact

(* One cache is rebound to blocks that hold what its new ids give. *)
LEMMA RetableExact ==
  ASSUME IInv, Counted', Exact, NEW s \in Seqs, NEW t \in Seq(Block), Retable(s, t),
         UNCHANGED byHash, phase' # "commit",
         NEW u \in Seq(Token), ids' = [ids EXCEPT ![s] = u],
         \A x \in 0 .. Len(u) - 1 :
           /\ x \div BlockSize + 1 \in 1 .. Len(t)
           /\ content[t[x \div BlockSize + 1]][x % BlockSize] = SubSeq(u, 1, x + 1)
  PROVE  Exact'
<1> USE DEF IInv, Counted
<1>1. NamesCounted'
  BY CountedNames, PTL
<1>2. /\ table' = [table EXCEPT ![s] = t]
      /\ table \in [Seqs -> Seq(Block)] /\ ids \in [Seqs -> Seq(Token)]
      /\ \A b \in Block : refs'[b] # 0 => content'[b] = content[b]
  BY DEF Retable, TypeOK
<1>3. ASSUME NEW r \in Seqs PROVE Holds(r, Len(ids[r]), ids[r])'
  <2>1. SUFFICES ASSUME NEW p \in 0 .. Len(ids'[r]) - 1
                 PROVE  Read(r, p)' = SubSeq(ids'[r], 1, p + 1)
    BY DEF Holds
  <2> DEFINE i == p \div BlockSize + 1
  <2>2. CASE r # s
    <3>1. ids'[r] = ids[r] /\ table'[r] = table[r]
      BY <1>2, <2>2
    <3>2. i \in 1 .. Len(table[r])
      BY <2>1, <3>1, PosCovered
    <3>3. content'[table[r][i]] = content[table[r][i]]
      BY <1>1, <1>2, <3>1, <3>2 DEF NamesCounted
    <3>4. Read(r, p) = SubSeq(ids[r], 1, p + 1)
      BY <2>1, <3>1 DEF Exact, Holds
    <3> QED BY <3>1, <3>3, <3>4 DEF Read
  <2>3. CASE r = s
    <3>1. ids'[s] = u /\ table'[s] = t
      BY <1>2
    <3>2. /\ i \in 1 .. Len(t)
          /\ content[t[i]][p % BlockSize] = SubSeq(u, 1, p + 1)
      BY <2>1, <2>3, <3>1
    <3>3. content'[t[i]] = content[t[i]]
      BY <1>1, <1>2, <3>1, <3>2 DEF NamesCounted
    <3> QED BY <2>3, <3>1, <3>2, <3>3 DEF Read
  <2> QED BY <2>2, <2>3
<1>4. InternShape'
  BY DEF Exact, InternShape
<1>5. \A q \in DOMAIN byHash : content'[byHash[q]] = content[byHash[q]]
  BY <1>1, <1>2 DEF NamesCounted
<1>6. InternedExact'
  BY <1>5 DEF Exact, InternedExact
<1> QED BY <1>3, <1>4, <1>6 DEF Exact

(* The block handed out was named by nobody, so nobody misses its vectors. *)
LEMMA AllocContent ==
  ASSUME Counted, NEW b \in Block, Alloc(b)
  PROVE  /\ \A r \in Seqs : \A i \in 1 .. Len(table[r]) : table[r][i] # b
         /\ \A q \in DOMAIN byHash' : q \in DOMAIN byHash /\ byHash'[q] = byHash[q]
                                      /\ byHash[q] # b
<1> USE DEF Counted
<1>1. /\ TableRefs(b) = {} /\ HashRefs(b)' = {}
      /\ \A c \in Block \ {b} : HashRefs(c)' = HashRefs(c)
      /\ byHash' \in [DOMAIN byHash' -> Block]
  BY AllocUnnamed
<1>2. ASSUME NEW r \in Seqs, NEW i \in 1 .. Len(table[r]), table[r][i] = b PROVE FALSE
  <2>1. i \in DOMAIN table[r]
    BY LenProperties DEF TypeOK
  <2>2. <<r, i>> \in TableRefs(b)
    BY <1>2, <2>1 DEF TableRefs, Occ
  <2> QED BY <1>1, <2>2
<1>3. ASSUME NEW q \in DOMAIN byHash'
      PROVE  q \in DOMAIN byHash /\ byHash'[q] = byHash[q] /\ byHash[q] # b
  <2>1. PICK c \in Block : c = byHash'[q]
    BY <1>1
  <2>2. q \in HashRefs(c)'
    BY <2>1 DEF HashRefs
  <2>3. c # b
    BY <1>1, <2>2
  <2>4. q \in HashRefs(c)
    BY <1>1, <2>2, <2>3
  <2> QED BY <2>1, <2>3, <2>4 DEF HashRefs
<1> QED BY <1>2, <1>3

LEMMA FaultExact == ASSUME IInv, Exact, Fault PROVE Exact'
<1> USE DEF IInv, Counted
<1>1. PICK b \in Block : /\ Alloc(b)
                         /\ content' = [content EXCEPT ![b] = Stale]
                         /\ table' = [table EXCEPT ![Cur] = Append(@, b)]
  BY DEF Fault
<1>2. phase = "reserve" /\ Cur \in Seqs /\ ids' = ids /\ phase' = phase
  BY CurrentJob DEF Fault, callVars
<1>3. /\ \A r \in Seqs : \A i \in 1 .. Len(table[r]) : table[r][i] # b
      /\ \A q \in DOMAIN byHash' : q \in DOMAIN byHash /\ byHash'[q] = byHash[q]
                                   /\ byHash[q] # b
  BY <1>1, AllocContent
<1>4. ASSUME NEW r \in Seqs, NEW i \in 1 .. Len(table[r])
      PROVE  content'[table'[r][i]] = content[table[r][i]]
  <2>1. /\ table[r] \in Seq(Block) /\ table[r][i] # b
        /\ table \in [Seqs -> Seq(Block)]
        /\ content \in [Block -> [Offset -> Seq(Token) \cup {Garbage}]]
    BY <1>3 DEF TypeOK
  <2>2. table[r][i] \in Block
    BY <2>1, ElementOfSeq
  <2>3. table'[r][i] = table[r][i]
    <3>1. CASE r # Cur
      BY <1>1, <2>1, <3>1
    <3>2. CASE r = Cur
      <4>1. Append(table[r], b)[i] = table[r][i]
        BY <2>1, AppendProperties
      <4>2. table'[r] = Append(table[r], b)
        BY <1>1, <1>2, <2>1, <3>2
      <4> QED BY <4>1, <4>2
    <3> QED BY <3>1, <3>2
  <2> QED BY <1>1, <2>1, <2>2, <2>3
<1>5. \A q \in DOMAIN byHash' :
        q \in DOMAIN byHash /\ content'[byHash'[q]] = content[byHash[q]]
  BY <1>1, <1>3 DEF TypeOK
<1> QED BY <1>2, <1>4, <1>5, ContentKept

LEMMA CowExact == ASSUME IInv, Exact, Cow PROVE Exact'
<1> USE DEF IInv, Counted
<1>1. /\ phase = "reserve" /\ Cur \in Seqs /\ ids' = ids /\ phase' = phase
      /\ Index \in 1 .. Len(table[Cur])
  BY CurrentJob, IndexCovered DEF Cow, NeedsCopy, callVars
<1> DEFINE old == table[Cur][Index]
<1>2. PICK b \in Block : /\ Alloc(b)
                         /\ content' = [content EXCEPT ![b] = content[old]]
                         /\ table' = [table EXCEPT ![Cur] = [@ EXCEPT ![Index] = b]]
  BY DEF Cow
<1> HIDE DEF old
<1>3. /\ \A r \in Seqs : \A i \in 1 .. Len(table[r]) : table[r][i] # b
      /\ \A q \in DOMAIN byHash' : q \in DOMAIN byHash /\ byHash'[q] = byHash[q]
                                   /\ byHash[q] # b
  BY <1>2, AllocContent
<1>4. ASSUME NEW r \in Seqs, NEW i \in 1 .. Len(table[r])
      PROVE  content'[table'[r][i]] = content[table[r][i]]
  <2>1. /\ table[r] \in Seq(Block) /\ table[r][i] # b
        /\ table \in [Seqs -> Seq(Block)]
        /\ content \in [Block -> [Offset -> Seq(Token) \cup {Garbage}]]
    BY <1>3 DEF TypeOK
  <2>2. table[r][i] \in Block
    BY <2>1, ElementOfSeq
  <2>3. content'[table[r][i]] = content[table[r][i]] /\ content'[b] = content[old]
    BY <1>2, <2>1, <2>2
  <2>4. CASE r # Cur
    BY <1>2, <2>1, <2>3, <2>4
  <2>5. CASE r = Cur
    <3>1. table'[r] = [table[r] EXCEPT ![Index] = b] /\ Index \in 1 .. Len(table[r])
      BY <1>1, <1>2, <2>1, <2>5
    <3>2. table'[r][i] = IF i = Index THEN b ELSE table[r][i]
      BY <2>1, <3>1, ExceptSeq
    <3> QED BY <2>3, <2>5, <3>2 DEF old
  <2> QED BY <2>4, <2>5
<1>5. \A q \in DOMAIN byHash' :
        q \in DOMAIN byHash /\ content'[byHash'[q]] = content[byHash[q]]
  BY <1>2, <1>3 DEF TypeOK
<1> QED BY <1>1, <1>4, <1>5, ContentKept

(* Steps that leave the tables, the intern table and the vectors alone. *)
LEMMA QuietExact ==
  ASSUME IInv, Exact, UNCHANGED <<byHash, content, table, ids>>, phase' # "commit"
  PROVE  Exact'
BY ContentKept DEF IInv, Counted

LEMMA ClearExact ==
  ASSUME IInv, Counted', Exact, NEW s \in Seqs, Clear(s) PROVE Exact'
<1> DEFINE e == <<>>
<1>1. /\ Retable(s, e) /\ ids' = [ids EXCEPT ![s] = e] /\ UNCHANGED byHash
      /\ phase' # "commit"
  BY DEF Clear, callVars
<1>2. e \in Seq(Block) /\ e \in Seq(Token) /\ Len(e) = 0
  BY EmptySeq
<1> HIDE DEF e
<1>3. 0 .. Len(e) - 1 = {}
  BY <1>2
<1> QED BY <1>1, <1>2, <1>3, RetableExact

(* The blocks a rebind keeps and the blocks it binds hold the prompt's vectors. *)
LEMMA RebindReads ==
  ASSUME TypeOK, Covered, Exact, NEW s \in Seqs, NEW p \in Seq(Token),
         NEW n \in 0 .. Len(ids[s]), NEW k \in 0 .. Len(p),
         IsLcp(n, ids[s], p), Binds(k, p, n, Take(table[s], BlocksFor(n))),
         NEW h \in Nat, h <= n + k * BlockSize, NEW x \in 0 .. h - 1
  PROVE  LET kept  == Take(table[s], BlocksFor(n))
             bound == [j \in 1 .. k |-> byHash[SubSeq(p, 1, n + j * BlockSize)]]
             new   == Take(kept \o bound, BlocksFor(h))
         IN  /\ x \div BlockSize + 1 \in 1 .. Len(new)
             /\ content[new[x \div BlockSize + 1]][x % BlockSize] = SubSeq(p, 1, x + 1)
<1> DEFINE kept  == Take(table[s], BlocksFor(n))
           bound == [j \in 1 .. k |-> byHash[SubSeq(p, 1, n + j * BlockSize)]]
           new   == Take(kept \o bound, BlocksFor(h))
           i     == x \div BlockSize + 1
           o     == x % BlockSize
<1>1. /\ new \in Seq(Block) /\ h <= Len(new) * BlockSize
  BY RebindCovers
<1>2. \A m \in 1 .. Len(new) :
        \/ /\ m \in 1 .. Len(table[s]) /\ new[m] = table[s][m]
           /\ k > 0 => m * BlockSize <= n
        \/ /\ m * BlockSize \in 0 .. Len(p)
           /\ SubSeq(p, 1, m * BlockSize) \in DOMAIN byHash
           /\ new[m] = byHash[SubSeq(p, 1, m * BlockSize)]
  BY RebindEntries
<1> HIDE DEF new
<1>3. /\ x \in Nat /\ x < h /\ k \in Nat /\ n \in Nat /\ Len(ids[s]) \in Nat
      /\ ids[s] \in Seq(Token) /\ Len(p) \in Nat /\ n <= Len(ids[s]) /\ n <= Len(p)
      /\ BlockSize \in Nat /\ BlockSize > 0
  <2>1. ids[s] \in Seq(Token) /\ n <= Len(ids[s]) /\ n <= Len(p)
    BY DEF TypeOK, IsLcp
  <2> QED BY <2>1, LenProperties, KvAssumption
<1>4. /\ x \div BlockSize \in Nat /\ o \in 0 .. BlockSize - 1 /\ o \in Offset
      /\ x = (x \div BlockSize) * BlockSize + o
  BY <1>3, BlockOf DEF Offset
<1> DEFINE a == x \div BlockSize
<1>5. i = a + 1 /\ i * BlockSize = a * BlockSize + BlockSize /\ a * BlockSize \in Nat
  <2>1. a \in Nat
    BY <1>4
  <2> HIDE DEF a
  <2>2. (a + 1) * BlockSize = a * BlockSize + BlockSize /\ a * BlockSize \in Nat
    BY <1>3, <2>1
  <2> QED BY <2>2 DEF a
<1>6. i \in 1 .. Len(new)
  <2>1. Len(new) \in Nat
    BY <1>1, LenProperties
  <2>2. x < Len(new) * BlockSize
    <3>1. PICK u : u = Len(new) * BlockSize
      OBVIOUS
    <3>2. u \in Nat
      BY <1>3, <2>1, <3>1
    <3> QED BY <1>1, <1>3, <3>1, <3>2
  <2>3. i <= Len(new)
    BY <1>3, <2>1, <2>2, BlockBelow
  <2> QED BY <1>4, <2>1, <2>3
<1> HIDE DEF a, i, o
<1>7. CASE i \in 1 .. Len(table[s]) /\ new[i] = table[s][i] /\ (k > 0 => i * BlockSize <= n)
  <2>1. x < n
    <3>1. CASE k = 0
      <4>1. k * BlockSize = 0
        BY <1>3, <3>1
      <4> QED BY <1>3, <3>1, <4>1
    <3>2. CASE k > 0
      BY <1>3, <1>4, <1>5, <1>7, <3>2 DEF a
    <3> QED BY <1>3, <3>1, <3>2
  <2>2. x \in 0 .. Len(ids[s]) - 1
    BY <1>3, <2>1
  <2>3. Read(s, x) = SubSeq(ids[s], 1, x + 1)
    BY <2>2 DEF Exact, Holds
  <2>4. SubSeq(ids[s], 1, x + 1) = SubSeq(p, 1, x + 1)
    <3>1. x + 1 \in Nat /\ x + 1 <= Len(ids[s]) /\ x + 1 <= Len(p)
      BY <1>3, <2>1
    <3>2. \A m \in 1 .. x + 1 : ids[s][m] = p[m]
      BY <1>3, <2>1 DEF IsLcp
    <3> QED BY <1>3, <3>1, <3>2, PrefixEqual
  <2>5. content[new[i]][o] = Read(s, x)
    BY <1>7 DEF Read, i, o
  <2> QED BY <1>6, <2>3, <2>4, <2>5 DEF kept, bound, new, i, o
<1>8. CASE /\ i * BlockSize \in 0 .. Len(p)
           /\ SubSeq(p, 1, i * BlockSize) \in DOMAIN byHash
           /\ new[i] = byHash[SubSeq(p, 1, i * BlockSize)]
  <2>1. PICK q : q = SubSeq(p, 1, i * BlockSize)
    OBVIOUS
  <2>2. PICK w \in 0 .. Len(p) : w = i * BlockSize
    BY <1>8
  <2>3. q \in DOMAIN byHash /\ Len(q) = w
    BY <1>8, <2>1, <2>2, Prefix
  <2>4. content[byHash[q]][o] = SubSeq(q, 1, Len(q) - BlockSize + o + 1)
    BY <1>4, <2>3 DEF Exact, InternedExact
  <2>5. w - BlockSize + o + 1 = x + 1 /\ x + 1 \in 0 .. w
    BY <1>3, <1>4, <1>5, <2>2 DEF a
  <2>6. SubSeq(q, 1, x + 1) = SubSeq(p, 1, x + 1)
    BY <2>1, <2>2, <2>5, PrefixOfPrefix
  <2>7. content[new[i]][o] = SubSeq(p, 1, x + 1)
    BY <1>8, <2>1, <2>3, <2>4, <2>5, <2>6
  <2> QED BY <1>6, <2>7 DEF kept, bound, new, i, o
<1> QED BY <1>2, <1>6, <1>7, <1>8

(* Cache s is bound to table t, which holds the first h tokens of prompt p. *)
Rebind(s, p, t, h) ==
  /\ p \in Seq(Token) /\ Retable(s, t)
  /\ ids' = [ids EXCEPT ![s] = SubSeq(p, 1, h)]
  /\ \A j \in DOMAIN t : (\E k \in DOMAIN table[s] : t[j] = table[s][k])
                         \/ (\E q \in DOMAIN byHash : t[j] = byHash[q])
  /\ \A x \in 0 .. h - 1 :
       /\ x \div BlockSize + 1 \in 1 .. Len(t)
       /\ content[t[x \div BlockSize + 1]][x % BlockSize] = SubSeq(p, 1, x + 1)
  /\ \A i \in 1 .. Len(ids[s]) :
       i < Len(p) /\ SubSeq(ids[s], 1, i) = SubSeq(p, 1, i) => i <= h

(* prompt_suffix, as a rebind of the cache to a prefix of the prompt. *)
LEMMA PromptSuffixRebinds ==
  ASSUME IInv, Exact, NEW s \in Seqs, NEW p \in Prompts, NEW max \in Chunks,
         PromptSuffix(s, p, max)
  PROVE  \E t \in Seq(Block), h \in 0 .. Len(p) - 1 :
           /\ Rebind(s, p, t, h)
           /\ \/ suffix' = [suffix EXCEPT ![s] = SubSeq(p, h + 1, Len(p))]
              \/ max > 0 /\ suffix' = [suffix EXCEPT ![s] = Take(SubSeq(p, h + 1, Len(p)), max)]
<1> USE DEF IInv, Counted
<1>1. /\ p \in Seq(Token) /\ Len(p) \in Nat /\ Len(p) > 0 /\ max \in Nat
      /\ BlockSize \in Nat /\ BlockSize > 0
  BY KvAssumption, EmptySeq
<1>2. PICK n \in 0 .. Len(ids[s]), k \in 0 .. Len(p) :
       LET kept    == Take(table[s], BlocksFor(n))
           bound   == [j \in 1 .. k |-> byHash[SubSeq(p, 1, n + j * BlockSize)]]
           covered == n + k * BlockSize
           hit     == IF covered = Len(p) THEN covered - 1 ELSE covered
           left    == SubSeq(p, hit + 1, Len(p))
       IN  /\ IsLcp(n, ids[s], p)
           /\ Binds(k, p, n, kept)
           /\ Retable(s, Take(kept \o bound, BlocksFor(hit)))
           /\ ids' = [ids EXCEPT ![s] = SubSeq(p, 1, hit)]
           /\ suffix' = [suffix EXCEPT ![s] = IF max = 0 THEN left ELSE Take(left, max)]
  BY DEF PromptSuffix
<1> DEFINE kept    == Take(table[s], BlocksFor(n))
           bound   == [j \in 1 .. k |-> byHash[SubSeq(p, 1, n + j * BlockSize)]]
           covered == n + k * BlockSize
           hit     == IF covered = Len(p) THEN covered - 1 ELSE covered
           left    == SubSeq(p, hit + 1, Len(p))
           new     == Take(kept \o bound, BlocksFor(hit))
<1>3. /\ ids[s] \in Seq(Token) /\ Len(ids[s]) \in Nat /\ n \in Nat /\ k \in Nat
      /\ n <= Len(p) /\ n <= Len(ids[s]) /\ table[s] \in Seq(Block)
      /\ k * BlockSize \in Nat /\ (k = 0 => k * BlockSize = 0)
  <2>1. ids[s] \in Seq(Token) /\ table[s] \in Seq(Block)
    BY DEF TypeOK
  <2>2. Len(ids[s]) \in Nat /\ n \in Nat /\ k \in Nat
    BY <1>1, <2>1, LenProperties
  <2>3. n <= Len(p) /\ n <= Len(ids[s])
    BY <1>2 DEF IsLcp
  <2>4. k * BlockSize \in Nat /\ (k = 0 => k * BlockSize = 0)
    BY <1>1, <2>2
  <2> QED BY <2>1, <2>2, <2>3, <2>4
<1>4. covered \in Nat /\ hit \in Nat /\ hit <= covered
  BY <1>1, <1>3
<1>5. k > 0 => covered <= Len(p)
  BY <1>1, <1>2, <1>4, RebindCovers
<1>6. /\ new \in Seq(Block)
      /\ \A i \in 1 .. Len(new) :
           \/ i \in 1 .. Len(table[s]) /\ new[i] = table[s][i]
           \/ /\ SubSeq(p, 1, i * BlockSize) \in DOMAIN byHash
              /\ new[i] = byHash[SubSeq(p, 1, i * BlockSize)]
  <2>1. /\ new \in Seq(Block)
        /\ \A i \in 1 .. Len(new) :
             \/ /\ i \in 1 .. Len(table[s]) /\ new[i] = table[s][i]
                /\ k > 0 => i * BlockSize <= n
             \/ /\ i * BlockSize \in 0 .. Len(p)
                /\ SubSeq(p, 1, i * BlockSize) \in DOMAIN byHash
                /\ new[i] = byHash[SubSeq(p, 1, i * BlockSize)]
    BY <1>1, <1>2, <1>4, RebindEntries
  <2> HIDE DEF new
  <2> QED BY <2>1
<1>7. \A x \in 0 .. hit - 1 :
        /\ x \div BlockSize + 1 \in 1 .. Len(new)
        /\ content[new[x \div BlockSize + 1]][x % BlockSize] = SubSeq(p, 1, x + 1)
  BY <1>1, <1>2, <1>4, RebindReads
<1>8. /\ Retable(s, new)
      /\ ids' = [ids EXCEPT ![s] = SubSeq(p, 1, hit)]
      /\ suffix' = [suffix EXCEPT ![s] = IF max = 0 THEN left ELSE Take(left, max)]
  BY <1>2
<1> HIDE DEF new
<1>9. hit \in 0 .. Len(p) - 1
  <2>1. covered <= Len(p)
    <3> HIDE DEF hit
    <3> QED BY <1>1, <1>3, <1>5
  <2> HIDE DEF covered
  <2> QED BY <1>1, <1>4, <2>1
<1>10. \A j \in DOMAIN new : (\E m \in DOMAIN table[s] : new[j] = table[s][m])
                             \/ (\E q \in DOMAIN byHash : new[j] = byHash[q])
  <2>1. DOMAIN new = 1 .. Len(new) /\ DOMAIN table[s] = 1 .. Len(table[s])
    BY <1>3, <1>6, LenProperties
  <2> QED BY <1>6, <2>1
<1>11. ASSUME NEW i \in 1 .. Len(ids[s]), i < Len(p), SubSeq(ids[s], 1, i) = SubSeq(p, 1, i)
       PROVE  i <= hit
  <2>1. i \in Nat /\ i >= 1 /\ i \in 0 .. Len(ids[s]) /\ i \in 0 .. Len(p)
    BY <1>1, <1>3, <1>11
  <2>2. i <= n
    <3>1. SUFFICES ASSUME n < i PROVE FALSE
      BY <1>3, <2>1
    <3>2. n + 1 \in 1 .. i /\ n < Len(ids[s]) /\ n < Len(p)
      BY <1>1, <1>3, <1>11, <2>1, <3>1
    <3>3. ids[s][n + 1] = SubSeq(ids[s], 1, i)[n + 1]
      BY <1>3, <2>1, <3>2, Prefix
    <3>4. p[n + 1] = SubSeq(p, 1, i)[n + 1]
      BY <1>1, <2>1, <3>2, Prefix
    <3>5. ids[s][n + 1] # p[n + 1]
      BY <1>2, <3>2 DEF IsLcp
    <3> QED BY <1>11, <3>3, <3>4, <3>5
  <2>3. n <= covered
    BY <1>3
  <2> HIDE DEF covered
  <2> QED BY <1>1, <1>3, <1>4, <1>11, <2>1, <2>2, <2>3
<1>12. \/ suffix' = [suffix EXCEPT ![s] = left]
       \/ max > 0 /\ suffix' = [suffix EXCEPT ![s] = Take(left, max)]
  <2> HIDE DEF left
  <2>1. CASE max = 0
    BY <1>8, <2>1
  <2>2. CASE max # 0
    BY <1>1, <1>8, <2>2
  <2> QED BY <2>1, <2>2
<1> HIDE DEF hit
<1>13. new \in Seq(Block)
  BY <1>6
<1> USE <1>9, <1>13
<1> WITNESS new \in Seq(Block), hit \in 0 .. Len(p) - 1
<1>14. Rebind(s, p, new, hit)
  BY <1>1, <1>7, <1>8, <1>10, <1>11, Zenon DEF Rebind
<1> QED BY <1>12, <1>14, Zenon

LEMMA PromptSuffixContent ==
  ASSUME IInv, Counted', Exclusive, Exact, NEW s \in Seqs, NEW p \in Prompts,
         NEW max \in Chunks, PromptSuffix(s, p, max)
  PROVE  Exclusive' /\ Exact'
<1>1. PICK t \in Seq(Block), h \in 0 .. Len(p) - 1 : Rebind(s, p, t, h)
  BY PromptSuffixRebinds
<1>2. /\ UNCHANGED byHash /\ phase' = "idle" /\ prepared' = [prepared EXCEPT ![s] = 0]
  BY DEF PromptSuffix, callVars
<1>3. PICK u : u = SubSeq(p, 1, h)
  OBVIOUS
<1>4. /\ Len(p) \in Nat /\ h \in Nat /\ h \in 0 .. Len(p)
  BY <1>1, LenProperties DEF Rebind
<1>5. u \in Seq(Token) /\ Len(u) = h /\ ids' = [ids EXCEPT ![s] = u]
  BY <1>1, <1>3, <1>4, Prefix DEF Rebind
<1>6. Exclusive'
  BY <1>1, <1>2, <1>5, RetableExclusive DEF IInv, Rebind
<1>7. ASSUME NEW x \in 0 .. Len(u) - 1
      PROVE  /\ x \div BlockSize + 1 \in 1 .. Len(t)
             /\ content[t[x \div BlockSize + 1]][x % BlockSize] = SubSeq(u, 1, x + 1)
  <2>1. x \in 0 .. h - 1 /\ x + 1 \in 0 .. h
    BY <1>4, <1>5
  <2>2. SubSeq(u, 1, x + 1) = SubSeq(p, 1, x + 1)
    BY <1>1, <1>3, <1>4, <2>1, PrefixOfPrefix DEF Rebind
  <2> QED BY <1>1, <2>1, <2>2 DEF Rebind
<1>8. Exact'
  BY <1>1, <1>2, <1>5, <1>7, RetableExact DEF Rebind
<1> QED BY <1>6, <1>8

-----------------------------------------------------------------------------
(* The forward pass. *)

(* The context a forward pass finds is what its cache was filled with. *)
LEMMA ContextExact ==
  ASSUME TypeOK, Exact, NEW s \in Seqs
  PROVE  Context(s) = ids[s] /\ Context(s) # Garbage
<1> DEFINE n == Len(ids[s])
<1>1. ids[s] \in Seq(Token) /\ n \in Nat /\ ids[s] # Garbage
  BY LenProperties, KvAssumption DEF TypeOK
<1>2. CASE n = 0
  <2>1. ids[s] = <<>>
    BY <1>1, <1>2, EmptySeq
  <2>2. Context(s) = <<>>
    BY <1>2 DEF Context
  <2> QED BY <1>1, <2>1, <2>2
<1>3. CASE n # 0
  <2>1. \A p \in 0 .. n - 1 : Read(s, p) = SubSeq(ids[s], 1, p + 1)
    BY DEF Exact, Holds
  <2>2. SubSeq(ids[s], 1, n) = ids[s]
    BY <1>1, SubSeqFull
  <2> HIDE DEF n
  <2>3. n - 1 \in 0 .. n - 1 /\ (n - 1) + 1 = n
    BY <1>1, <1>3
  <2>4. Read(s, n - 1) = ids[s]
    BY <2>1, <2>2, <2>3
  <2>5. ASSUME NEW p \in 0 .. n - 1
        PROVE  /\ Read(s, p) # Garbage
               /\ Len(Read(s, n - 1)) >= p + 1
               /\ Read(s, p) = SubSeq(Read(s, n - 1), 1, p + 1)
    <3>1. p + 1 \in 0 .. n /\ n >= p + 1
      BY <1>1
    <3>2. SubSeq(ids[s], 1, p + 1) \in Seq(Token)
      BY <1>1, <3>1, Prefix DEF n
    <3>3. Len(Read(s, n - 1)) = n
      BY <2>4 DEF n
    <3> QED BY <2>1, <2>4, <3>1, <3>2, <3>3, KvAssumption
  <2>6. Context(s) = Read(s, n - 1)
    BY <1>3, <2>5 DEF Context, n
  <2> QED BY <1>1, <2>4, <2>6
<1> QED BY <1>2, <1>3

(* A vector is written where only its own cache can read it. *)
LEMMA WriterSole ==
  ASSUME IInv, Exclusive, phase = "compute", NEW b, NEW o, NEW jp \in Writers(b, o)
  PROVE  LET s == jobs[jp[1]].seq
             i == jp[2] \div BlockSize + 1
         IN  /\ jp[1] \in 1 .. Len(jobs) /\ s \in Seqs /\ jp[2] \in Nat
             /\ Len(ids[s]) <= jp[2] /\ jp[2] < End(jp[1]) /\ jp[2] % BlockSize = o
             /\ i \in 1 .. Len(table[s]) /\ table[s][i] = b /\ b \in Block
             /\ TableRefs(b) = {<<s, i>>} /\ HashRefs(b) = {}
<1> USE DEF IInv, Counted
<1> DEFINE j == jp[1]
           p == jp[2]
           s == jobs[j].seq
           i == p \div BlockSize + 1
<1>1. /\ jp \in Written /\ j \in DOMAIN jobs /\ p \in 0 .. MaxSeq - 1
      /\ Len(ids[s]) <= p /\ p < End(j) /\ p % BlockSize = o /\ table[s][i] = b
  BY DEF Writers, Written, WritesAt
<1>2. j \in 1 .. Len(jobs) /\ s \in Seqs /\ p \in Nat /\ Len(ids[s]) \in Nat /\ End(j) \in Nat
  <2>1. j \in 1 .. Len(jobs)
    BY <1>1, LenProperties DEF TypeOK
  <2>2. p \in Nat
    BY <1>1, KvAssumption
  <2> QED BY <2>1, <2>2, CurrentJob
<1>3. Owns(s, End(j))
  BY <1>2 DEF Exclusive, JobReady
<1>4. p \in Len(ids[s]) .. End(j) - 1
  <2> HIDE DEF p, j, s
  <2> QED BY <1>1, <1>2
<1>5. Sole(s, i)
  BY <1>3, <1>4 DEF Owns
<1> HIDE DEF i, p, s, j
<1>6. i \in 1 .. Len(table[s])
  BY <1>5 DEF Sole
<1>7. b \in Block /\ TableRefs(b) = {<<s, i>>} /\ HashRefs(b) = {}
  BY <1>1, <1>2, <1>5, SoleRefs
<1> QED BY <1>1, <1>2, <1>6, <1>7 DEF i, p, s, j

LEMMA WriterUnique ==
  ASSUME IInv, Exclusive, phase = "compute", NEW b, NEW o,
         NEW jp \in Writers(b, o), NEW kq \in Writers(b, o)
  PROVE  jp = kq
<1> DEFINE s == jobs[jp[1]].seq
           r == jobs[kq[1]].seq
           i == jp[2] \div BlockSize + 1
           k == kq[2] \div BlockSize + 1
<1>1. /\ jp[1] \in 1 .. Len(jobs) /\ jp[2] \in Nat /\ jp[2] % BlockSize = o
      /\ TableRefs(b) = {<<s, i>>}
  BY WriterSole
<1>2. /\ kq[1] \in 1 .. Len(jobs) /\ kq[2] \in Nat /\ kq[2] % BlockSize = o
      /\ TableRefs(b) = {<<r, k>>}
  BY WriterSole
<1>3. s = r /\ i = k
  <2>1. <<s, i>> = <<r, k>>
    BY <1>1, <1>2, Zenon
  <2> HIDE DEF s, r, i, k
  <2> QED BY <2>1
<1>4. jp[1] = kq[1]
  <2>1. DOMAIN jobs = 1 .. Len(jobs)
    BY LenProperties DEF IInv, Counted, TypeOK
  <2> QED BY <1>1, <1>2, <1>3, <2>1 DEF IInv, CallShape
<1>5. jp[2] \div BlockSize = kq[2] \div BlockSize
  <2>1. jp[2] \div BlockSize \in Nat /\ kq[2] \div BlockSize \in Nat
    BY <1>1, <1>2, BlockOf
  <2> QED BY <1>3, <2>1
<1>6. jp[2] = kq[2]
  BY <1>1, <1>2, <1>5, SamePosition
<1>7. jp = <<jp[1], jp[2]>> /\ kq = <<kq[1], kq[2]>>
  BY DEF Writers, Written
<1> QED BY <1>4, <1>6, <1>7

(* What a cache has filled and what is interned is not written. *)
LEMMA FilledNotWritten ==
  ASSUME IInv, Exclusive, phase = "compute"
  PROVE  /\ \A r \in Seqs : \A x \in 0 .. Len(ids[r]) - 1 :
              Writers(table[r][x \div BlockSize + 1], x % BlockSize) = {}
         /\ \A q \in DOMAIN byHash : \A o \in Offset : Writers(byHash[q], o) = {}
<1> USE DEF IInv, Counted
<1>1. ASSUME NEW r \in Seqs, NEW x \in 0 .. Len(ids[r]) - 1,
             NEW jp \in Writers(table[r][x \div BlockSize + 1], x % BlockSize)
      PROVE  FALSE
  <2> DEFINE b == table[r][x \div BlockSize + 1]
             s == jobs[jp[1]].seq
             p == jp[2]
  <2>1. /\ s \in Seqs /\ p \in Nat /\ Len(ids[s]) <= p /\ p % BlockSize = x % BlockSize
        /\ TableRefs(b) = {<<s, p \div BlockSize + 1>>}
    BY <1>1, WriterSole
  <2>2. /\ x \in Nat /\ x \div BlockSize \in Nat
        /\ x \div BlockSize + 1 \in 1 .. Len(table[r])
    BY PosCovered
  <2>3. <<r, x \div BlockSize + 1>> \in TableRefs(b)
    <3>1. DOMAIN table[r] = 1 .. Len(table[r])
      BY LenProperties DEF TypeOK
    <3> QED BY <2>2, <3>1 DEF TableRefs, Occ
  <2>4. r = s /\ x \div BlockSize + 1 = p \div BlockSize + 1
    BY <2>1, <2>3
  <2>5. p \div BlockSize \in Nat
    BY <2>1, BlockOf
  <2>6. x \div BlockSize = p \div BlockSize
    BY <2>2, <2>4, <2>5
  <2>7. p = x
    BY <2>1, <2>2, <2>6, SamePosition
  <2>8. Len(ids[r]) \in Nat
    BY LenProperties DEF TypeOK
  <2> QED BY <2>1, <2>2, <2>4, <2>7, <2>8
<1>2. ASSUME NEW q \in DOMAIN byHash, NEW o \in Offset, NEW jp \in Writers(byHash[q], o)
      PROVE  FALSE
  <2>1. HashRefs(byHash[q]) = {}
    BY WriterSole
  <2> QED BY <2>1 DEF HashRefs
<1> QED BY <1>1, <1>2

(* A pass, failed or not, spares what is filled and what is interned. *)
LEMMA PassKeeps ==
  ASSUME IInv, Exclusive, Exact, phase = "compute", UNCHANGED <<byHash, table, ids>>,
         \A b \in Block : \A o \in Offset :
           Writers(b, o) = {} => content'[b][o] = content[b][o]
  PROVE  /\ \A s \in Seqs : Holds(s, Len(ids[s]), ids[s])'
         /\ InternShape' /\ InternedExact'
<1> USE DEF IInv, Counted
<1>1. ASSUME NEW s \in Seqs PROVE Holds(s, Len(ids[s]), ids[s])'
  <2>1. SUFFICES ASSUME NEW p \in 0 .. Len(ids[s]) - 1
                 PROVE  Read(s, p)' = SubSeq(ids[s], 1, p + 1)
    BY DEF Holds
  <2> DEFINE b == table[s][p \div BlockSize + 1]
             o == p % BlockSize
  <2>2. b \in Block /\ o \in Offset
    BY PosCovered
  <2>3. Writers(b, o) = {}
    BY FilledNotWritten
  <2>4. content'[b][o] = content[b][o]
    BY <2>2, <2>3
  <2>5. Read(s, p) = SubSeq(ids[s], 1, p + 1)
    BY DEF Exact, Holds
  <2> QED BY <2>4, <2>5 DEF Read
<1>2. InternShape'
  BY DEF Exact, InternShape
<1>3. InternedExact'
  <2>1. SUFFICES ASSUME NEW q \in DOMAIN byHash, NEW o \in Offset
                 PROVE  content'[byHash[q]][o] = SubSeq(q, 1, Len(q) - BlockSize + o + 1)
    BY DEF InternedExact
  <2>2. byHash[q] \in Block
    BY DEF TypeOK
  <2>3. content'[byHash[q]][o] = content[byHash[q]][o]
    BY <2>2, FilledNotWritten
  <2> QED BY <2>3 DEF Exact, InternedExact
<1> QED BY <1>1, <1>2, <1>3

LEMMA TransformerErrorExact ==
  ASSUME IInv, Exclusive, Exact, TransformerError PROVE Exact'
<1>1. /\ phase = "compute" /\ phase' = "idle" /\ UNCHANGED <<byHash, table, ids>>
      /\ \A b \in Block : \A o \in Offset :
           Writers(b, o) = {} => content'[b][o] = content[b][o]
  BY DEF TransformerError, Finish, cacheVars
<1> QED BY <1>1, PassKeeps DEF Exact

(* The vector a job computes is the one its tokens give. *)
LEMMA NewKvExact ==
  ASSUME IInv, Exclusive, Exact, phase = "compute", NEW b, NEW o, NEW w \in Writers(b, o)
  PROVE  NewKv(w[1], w[2])
           = SubSeq(ids[jobs[w[1]].seq] \o jobs[w[1]].toks, 1, w[2] + 1)
<1> USE DEF IInv, Counted
<1> DEFINE j == w[1]
           p == w[2]
           s == jobs[j].seq
           n == Len(ids[s])
           d == p + 1 - n
<1>1. j \in 1 .. Len(jobs) /\ s \in Seqs /\ p \in Nat /\ n <= p /\ p < End(j)
  BY WriterSole
<1>2. /\ ids[s] \in Seq(Token) /\ jobs[j].toks \in Seq(Token)
      /\ n \in Nat /\ Len(jobs[j].toks) \in Nat
  BY <1>1, CurrentJob DEF TypeOK
<1>3. Context(s) = ids[s] /\ Context(s) # Garbage
  BY <1>1, ContextExact
<1>4. d \in 0 .. Len(jobs[j].toks) /\ n + d = p + 1
  <2>1. p < n + Len(jobs[j].toks)
    BY <1>1 DEF End
  <2> HIDE DEF n, p, j
  <2> QED BY <1>1, <1>2, <2>1
<1>5. NewKv(j, p) = Context(s) \o SubSeq(jobs[j].toks, 1, d)
  BY <1>3 DEF NewKv
<1> HIDE DEF d, n
<1>6. ids[s] \o SubSeq(jobs[j].toks, 1, d) = SubSeq(ids[s] \o jobs[j].toks, 1, n + d)
  BY <1>2, <1>4, PrefixOfConcat DEF n
<1> QED BY <1>3, <1>4, <1>5, <1>6

LEMMA TransformerExact ==
  ASSUME IInv, Exclusive, Exact, Transformer PROVE Exact'
<1> USE DEF IInv, Counted
<1>1. /\ phase = "compute" /\ phase' = "commit"
      /\ UNCHANGED <<refs, byHash, cacheVars, op, jobs, at, pos, result>>
      /\ content' = [b \in Block |-> [o \in Offset |->
           IF Writers(b, o) = {} THEN content[b][o]
           ELSE LET w == CHOOSE jp \in Writers(b, o) : TRUE IN NewKv(w[1], w[2])]]
  BY DEF Transformer
<1>2. UNCHANGED <<table, ids>>
  BY <1>1 DEF cacheVars
<1>3. \A b \in Block : \A o \in Offset :
        Writers(b, o) = {} => content'[b][o] = content[b][o]
  BY <1>1
<1>4. /\ \A s \in Seqs : Holds(s, Len(ids[s]), ids[s])'
      /\ InternShape' /\ InternedExact'
  BY <1>1, <1>2, <1>3, PassKeeps
<1>5. ASSUME NEW j \in 1 .. Len(jobs)
      PROVE  Holds(jobs[j].seq, End(j), ids[jobs[j].seq] \o jobs[j].toks)'
  <2>0. PICK s, n, e, t : /\ s = jobs[j].seq /\ n = Len(ids[s]) /\ e = End(j)
                          /\ t = ids[s] \o jobs[j].toks
    OBVIOUS
  <2>1. /\ s \in Seqs /\ ids[s] \in Seq(Token) /\ jobs[j].toks \in Seq(Token)
        /\ n \in Nat /\ e \in Nat
    BY <1>1, <2>0, CurrentJob DEF TypeOK
  <2>2. SUFFICES ASSUME NEW p \in 0 .. e - 1
                 PROVE  Read(s, p)' = SubSeq(t, 1, p + 1)
    <3>1. jobs'[j].seq = s /\ End(j)' = e /\ (ids[jobs[j].seq] \o jobs[j].toks)' = t
      BY <1>1, <1>2, <2>0 DEF End
    <3> QED BY <3>1 DEF Holds
  <2>3. p \in Nat /\ p < e
    BY <2>1
  <2>4. CASE p < n
    <3>1. p \in 0 .. n - 1 /\ p + 1 \in 0 .. n
      BY <2>1, <2>3, <2>4
    <3>2. Read(s, p)' = SubSeq(ids[s], 1, p + 1)
      BY <1>2, <1>4, <2>0, <2>1, <3>1 DEF Holds
    <3>3. SubSeq(t, 1, p + 1) = SubSeq(ids[s], 1, p + 1)
      BY <2>0, <2>1, <3>1, PrefixOfConcat
    <3> QED BY <3>2, <3>3
  <2>5. CASE n <= p
    <3> DEFINE i == p \div BlockSize + 1
               b == table[s][i]
               o == p % BlockSize
    <3>1. Owns(s, e) /\ e <= MaxSeq
      BY <1>1, <2>0 DEF Exclusive, JobReady
    <3>2. p \in n .. e - 1
      BY <2>1, <2>3, <2>5
    <3>3. i \in 1 .. Len(table[s]) /\ b \in Block
      <4>1. Sole(s, i)
        BY <2>0, <3>1, <3>2 DEF Owns
      <4> QED BY <2>1, <4>1, SoleRefs DEF Sole
    <3>4. p \in 0 .. MaxSeq - 1
      BY <2>1, <2>3, <3>1, KvAssumption
    <3>5. o \in Offset
      BY <2>3, BlockOf
    <3>6. j \in DOMAIN jobs
      BY LenProperties DEF TypeOK
    <3>7. <<j, p>> \in Writers(b, o)
      BY <2>0, <2>3, <2>5, <3>4, <3>6 DEF Writers, Written, WritesAt
    <3>8. PICK w : w = CHOOSE jp \in Writers(b, o) : TRUE
      OBVIOUS
    <3>9. w \in Writers(b, o)
      BY <3>7, <3>8
    <3>10. w = <<j, p>>
      BY <1>1, <3>7, <3>9, WriterUnique
    <3>11. content'[b][o] = NewKv(w[1], w[2])
      BY <1>1, <3>3, <3>5, <3>7, <3>8
    <3>12. NewKv(w[1], w[2]) = SubSeq(t, 1, p + 1)
      <4>1. NewKv(w[1], w[2])
              = SubSeq(ids[jobs[w[1]].seq] \o jobs[w[1]].toks, 1, w[2] + 1)
        BY <1>1, <3>9, NewKvExact
      <4>2. w[1] = j /\ w[2] = p
        BY <3>10
      <4>3. t = ids[jobs[j].seq] \o jobs[j].toks
        BY <2>0, Zenon
      <4> QED BY <4>1, <4>2, <4>3, Zenon
    <3> QED BY <1>2, <3>11, <3>12 DEF Read
  <2> QED BY <2>1, <2>3, <2>4, <2>5
<1>6. \A j \in at' .. Len(jobs') : j \in 1 .. Len(jobs)
  BY <1>1, CurrentJob
<1> QED BY <1>4, <1>5, <1>6 DEF Exact

-----------------------------------------------------------------------------
(* The commit of a job. *)

(* intern_full names only blocks that hold the prefix they are named for. *)
LEMMA InternExact ==
  ASSUME TypeOK, InternShape, InternedExact, NEW s \in Seqs, NEW t \in Seq(Token),
         Holds(s, Len(t), t), InternFull(s, t), UNCHANGED <<content, table>>
  PROVE  InternShape' /\ InternedExact'
<1> DEFINE new    == NewPrefixes(t)
           pre(k) == SubSeq(t, 1, k * BlockSize)
<1>1. byHash' = [q \in DOMAIN byHash \cup {pre(k) : k \in new} |->
                   IF q \in DOMAIN byHash THEN byHash[q]
                   ELSE table[s][Len(q) \div BlockSize]]
  BY DEF InternFull
<1>2. BlockSize \in Nat /\ BlockSize > 0 /\ Len(t) \in Nat
  BY LenProperties, KvAssumption
<1>3. ASSUME NEW q \in DOMAIN byHash', q \notin DOMAIN byHash
      PROVE  \E k \in 1 .. Len(t) \div BlockSize :
               q = SubSeq(t, 1, k * BlockSize) /\ byHash'[q] = table[s][Len(q) \div BlockSize]
  <2>1. q \in {pre(k) : k \in new} /\ byHash'[q] = table[s][Len(q) \div BlockSize]
    BY <1>1, <1>3
  <2>2. PICK k \in new : q = pre(k)
    BY <2>1
  <2>3. k \in 1 .. Len(t) \div BlockSize
    BY DEF NewPrefixes
  <2> QED BY <2>1, <2>2, <2>3
<1>4. \A q \in DOMAIN byHash : byHash'[q] = byHash[q]
  BY <1>1
<1>5. ASSUME NEW q \in DOMAIN byHash', q \notin DOMAIN byHash
      PROVE  /\ \E k \in 1 .. Len(q) : Len(q) = k * BlockSize
             /\ \A o \in Offset :
                  content[byHash'[q]][o] = SubSeq(q, 1, Len(q) - BlockSize + o + 1)
  <2>1. PICK k \in 1 .. Len(t) \div BlockSize :
           q = SubSeq(t, 1, k * BlockSize) /\ byHash'[q] = table[s][Len(q) \div BlockSize]
    BY <1>3, <1>5
  <2>2. PICK w : w = k * BlockSize
    OBVIOUS
  <2>3. k \in Nat /\ k >= 1 /\ Len(q) = w /\ w \div BlockSize = k
    BY <1>2, <2>1, <2>2, PrefixBlocks
  <2>4. PICK a \in Nat : a = k - 1
    BY <2>3
  <2>5. w \in Nat /\ k <= w /\ w = a * BlockSize + BlockSize /\ a * BlockSize \in Nat
    <3>1. k = a + 1
      BY <2>3, <2>4
    <3>2. (a + 1) * BlockSize = a * BlockSize + BlockSize /\ a * BlockSize \in Nat
      BY <1>2
    <3>3. a <= a * BlockSize
      BY <1>2
    <3> QED BY <1>2, <2>2, <3>1, <3>2, <3>3
  <2>6. w <= Len(t)
    <3>1. PICK d : d = Len(t) \div BlockSize
      OBVIOUS
    <3>2. d \in Nat /\ d * BlockSize <= Len(t) /\ d * BlockSize \in Nat
      <4>1. d \in Nat /\ Len(t) = d * BlockSize + (Len(t) % BlockSize)
            /\ Len(t) % BlockSize \in 0 .. BlockSize - 1
        BY <1>2, <3>1, BlockOf DEF Offset
      <4>2. d * BlockSize \in Nat
        BY <1>2, <4>1
      <4> QED BY <1>2, <4>1, <4>2
    <3>3. k * BlockSize <= d * BlockSize
      <4>1. k <= d /\ k \in Nat
        BY <2>1, <2>3, <3>1, <3>2
      <4> QED BY <1>2, <3>2, <4>1
    <3> QED BY <1>2, <2>2, <2>5, <3>2, <3>3
  <2>7. ASSUME NEW o \in Offset
        PROVE  content[byHash'[q]][o] = SubSeq(q, 1, Len(q) - BlockSize + o + 1)
    <3>1. PICK x : x = a * BlockSize + o
      OBVIOUS
    <3>2. x \in Nat /\ x \div BlockSize = a /\ x % BlockSize = o
      BY <3>1, AddressOf
    <3>3. o \in Nat /\ o < BlockSize
      BY <1>2 DEF Offset
    <3>4. x \in 0 .. Len(t) - 1 /\ x + 1 \in 0 .. w /\ w - BlockSize + o + 1 = x + 1
          /\ w \in 0 .. Len(t)
      BY <1>2, <2>5, <2>6, <3>1, <3>2, <3>3
    <3>5. Read(s, x) = SubSeq(t, 1, x + 1)
      BY <3>4 DEF Holds
    <3>6. Read(s, x) = content[byHash'[q]][o]
      <4>1. byHash'[q] = table[s][a + 1]
        <5>1. Len(q) \div BlockSize = k /\ a + 1 = k
          BY <2>3, <2>4
        <5> QED BY <2>1, <5>1
      <4> QED BY <3>2, <4>1 DEF Read
    <3>7. SubSeq(q, 1, x + 1) = SubSeq(t, 1, x + 1)
      BY <2>1, <2>2, <3>4, PrefixOfPrefix
    <3> QED BY <2>3, <3>4, <3>5, <3>6, <3>7
  <2>8. k \in 1 .. w
    BY <2>3, <2>5
  <2> QED BY <2>2, <2>3, <2>7, <2>8
<1>6. InternShape'
  <2>1. SUFFICES ASSUME NEW q \in DOMAIN byHash'
                 PROVE  \E k \in 1 .. Len(q) : Len(q) = k * BlockSize
    BY DEF InternShape
  <2> QED BY <1>5 DEF InternShape
<1>7. InternedExact'
  <2>1. SUFFICES ASSUME NEW q \in DOMAIN byHash', NEW o \in Offset
                 PROVE  content[byHash'[q]][o] = SubSeq(q, 1, Len(q) - BlockSize + o + 1)
    BY DEF InternedExact
  <2> QED BY <1>4, <1>5 DEF InternedExact
<1> QED BY <1>6, <1>7

LEMMA CommitExact == ASSUME IInv, Exact, Commit PROVE Exact'
<1> USE DEF IInv, Counted
<1>0. PICK c, t : c = Cur /\ t = ids[Cur] \o jobs[at].toks
  OBVIOUS
<1>1. /\ phase = "commit" /\ ids' = [ids EXCEPT ![c] = t] /\ InternFull(c, t)
      /\ UNCHANGED <<content, live, table>>
      /\ \/ at < Len(jobs) /\ at' = at + 1 /\ UNCHANGED <<phase, jobs>>
         \/ phase' = "idle"
  BY <1>0 DEF Commit, Finish
<1>2. /\ Len(jobs) \in Nat /\ at \in 1 .. Len(jobs) /\ c \in Seqs
      /\ \A j \in 1 .. Len(jobs) : jobs[j].seq \in Seqs
      /\ ids[c] \in Seq(Token) /\ jobs[at].toks \in Seq(Token)
      /\ DOMAIN jobs = 1 .. Len(jobs) /\ ids \in [Seqs -> Seq(Token)]
  BY <1>0, <1>1, CurrentJob, LenProperties DEF TypeOK
<1>3. t \in Seq(Token) /\ Len(t) = End(at)
  BY <1>0, <1>2, ConcatProperties DEF End, Cur
<1>4. \A j \in at .. Len(jobs) : Holds(jobs[j].seq, End(j), ids[jobs[j].seq] \o jobs[j].toks)
  BY <1>1 DEF Exact
<1>5. Holds(c, Len(t), t)
  <2>1. at \in at .. Len(jobs)
    BY <1>2
  <2> QED BY <1>0, <1>3, <1>4, <2>1 DEF Cur
<1>6. \A s, n, u : Holds(s, n, u) => \A v : v = u => \A m : m = n => Holds(s, m, v)'
  BY <1>1 DEF Holds, Read
<1>7. ASSUME NEW s \in Seqs PROVE Holds(s, Len(ids[s]), ids[s])'
  <2>1. CASE s = c
    <3>1. ids'[s] = t
      BY <1>1, <1>2, <2>1
    <3>2. Holds(s, Len(t), t)'
      BY <1>5, <1>6, <2>1
    <3> QED BY <3>1, <3>2 DEF Holds
  <2>2. CASE s # c
    <3>1. ids'[s] = ids[s]
      BY <1>1, <1>2, <2>2
    <3>2. \A p \in 0 .. Len(ids[s]) - 1 : Read(s, p) = SubSeq(ids[s], 1, p + 1)
      BY DEF Exact, Holds
    <3>3. \A p \in 0 .. Len(ids[s]) - 1 : Read(s, p)' = SubSeq(ids[s], 1, p + 1)
      BY <1>1, <3>2 DEF Read
    <3> QED BY <3>1, <3>3 DEF Holds
  <2> QED BY <2>1, <2>2
<1>8. InternShape' /\ InternedExact'
  BY <1>1, <1>2, <1>3, <1>5, InternExact DEF Exact
<1>9. ASSUME phase' = "commit", NEW j \in at' .. Len(jobs')
      PROVE  Holds(jobs[j].seq, End(j), ids[jobs[j].seq] \o jobs[j].toks)'
  <2>1. at' = at + 1 /\ jobs' = jobs
    BY <1>1, <1>9
  <2>2. j \in at .. Len(jobs) /\ j \in 1 .. Len(jobs) /\ j # at
    BY <1>2, <2>1
  <2>3. jobs[j].seq # c
    BY <1>0, <1>1, <1>2, <2>2 DEF CallShape, Cur
  <2>4. ids'[jobs[j].seq] = ids[jobs[j].seq]
    BY <1>1, <1>2, <2>2, <2>3
  <2>5. End(j)' = End(j) /\ (ids[jobs[j].seq] \o jobs[j].toks)' = ids[jobs[j].seq] \o jobs[j].toks
        /\ jobs'[j].seq = jobs[j].seq
    BY <2>1, <2>4 DEF End
  <2>6. Holds(jobs[j].seq, End(j), ids[jobs[j].seq] \o jobs[j].toks)
    BY <1>4, <2>2
  <2> QED BY <1>1, <2>5, <2>6 DEF Holds, Read
<1> QED BY <1>7, <1>8, <1>9 DEF Exact

-----------------------------------------------------------------------------
(* The invariant. *)

LEMMA InitKv == Init => KvInv
<1> SUFFICES ASSUME Init PROVE KvInv
  OBVIOUS
<1> DEFINE e == <<>>
<1>1. e \in Seq(Token) /\ Len(e) = 0
  BY EmptySeq
<1>2. /\ \A s \in Seqs : ids[s] = e /\ prepared[s] = 0
      /\ phase = "idle" /\ DOMAIN byHash = {}
  BY DEF Init
<1> HIDE DEF e
<1>3. ASSUME NEW s \in Seqs
      PROVE  Owns(s, Len(ids[s]) + prepared[s]) /\ Holds(s, Len(ids[s]), ids[s])
  <2>1. Len(ids[s]) = 0 /\ prepared[s] = 0
    BY <1>1, <1>2
  <2>2. 0 .. (0 + 0) - 1 = {} /\ 0 .. 0 - 1 = {}
    OBVIOUS
  <2> QED BY <2>1, <2>2 DEF Owns, Holds
<1>4. Exclusive /\ Exact
  BY <1>2, <1>3 DEF Exclusive, Exact, InternShape, InternedExact
<1> QED BY <1>4, InitInv DEF KvInv

(* A step that gives nothing away and reserves nothing. *)
LEMMA QuietExclusive ==
  ASSUME Exclusive, UNCHANGED <<refs, table, ids, prepared>>,
         phase' \notin {"reserve", "compute"}
  PROVE  Exclusive'
<1>1. \A s, n, m : Owns(s, n) /\ n = m => Owns(s, m)'
  BY DEF Owns, Sole
<1>2. \A s \in Seqs : Owns(s, Len(ids[s]) + prepared[s])'
  BY <1>1 DEF Exclusive
<1> QED BY <1>2, IdleExclusive

(* A call starts with nothing reserved. *)
LEMMA StartExclusive ==
  ASSUME IInv, Exclusive, NEW what, NEW js, Start(what, js),
         js[1].seq \in Seqs
  PROVE  Exclusive'
<1>1. /\ phase' = "reserve" /\ jobs' = js /\ at' = 1 /\ pos' = Len(ids[js[1].seq])
      /\ UNCHANGED <<refs, table, ids, prepared>>
  BY DEF Start, poolVars, cacheVars
<1>2. PICK c, n : c \in Seqs /\ c = js[1].seq /\ n = Len(ids[c])
  OBVIOUS
<1>3. n \in Nat
  BY <1>2, LenProperties DEF IInv, Counted, TypeOK
<1>4. n .. n - 1 = {} /\ 1 .. 1 - 1 = {}
  BY <1>3
<1>5. Cur' = c /\ pos' = n /\ Len(ids'[c]) = n
  BY <1>1, <1>2 DEF Cur
<1>6. Owns(Cur, pos)'
  BY <1>4, <1>5 DEF Owns
<1>7. \A j \in 1 .. at' - 1 : JobReady(j)'
  BY <1>1, <1>4
<1>8. \A s, m, k : Owns(s, m) /\ m = k => Owns(s, k)'
  BY <1>1 DEF Owns, Sole
<1>9. \A s \in Seqs : Owns(s, Len(ids[s]) + prepared[s])'
  BY <1>1, <1>8 DEF Exclusive
<1> QED BY <1>1, <1>6, <1>7, <1>9 DEF Exclusive

LEMMA StartContent ==
  ASSUME IInv, Exclusive, Exact,
         \/ \E s \in Seqs, extra \in Extras : StartPrepare(s, extra)
         \/ \E js \in Batches : StartPrefill(js)
  PROVE  Exclusive' /\ Exact'
<1>1. PICK what, js : Start(what, js) /\ js[1].seq \in Seqs
  <2>1. ASSUME NEW s \in Seqs, NEW extra \in Extras, StartPrepare(s, extra)
        PROVE  \E what, js : Start(what, js) /\ js[1].seq \in Seqs
    <3> DEFINE filler == [i \in 1 .. extra |-> CHOOSE t \in Token : TRUE]
               js     == <<[seq |-> s, toks |-> filler]>>
    <3>1. Start("prepare", js)
      BY <2>1 DEF StartPrepare
    <3> HIDE DEF filler
    <3>2. js[1].seq = s
      OBVIOUS
    <3> HIDE DEF js
    <3> QED BY <3>1, <3>2
  <2>2. ASSUME NEW js \in Batches, StartPrefill(js)
        PROVE  \E what, j : Start(what, j) /\ j[1].seq \in Seqs
    <3>1. PICK n \in 1 .. MaxBatch :
            js \in [1 .. n -> [seq : live, toks : UNION {Groups(s) : s \in live}]]
      BY DEF Batches
    <3>2. 1 \in 1 .. n
      BY KvAssumption
    <3>3. js[1].seq \in live
      <4> DEFINE R == [seq : live, toks : UNION {Groups(s) : s \in live}]
      <4>1. js[1] \in R
        BY <3>1, <3>2
      <4> QED BY <4>1
    <3>4. js[1].seq \in Seqs
      BY <3>3 DEF IInv, Counted, TypeOK
    <3> QED BY <2>2, <3>4 DEF StartPrefill
  <2> QED BY <2>1, <2>2
<1>2. Exclusive'
  BY <1>1, StartExclusive
<1>3. UNCHANGED <<byHash, content, table, ids>> /\ phase' # "commit"
  BY <1>1 DEF Start, poolVars, cacheVars
<1> QED BY <1>2, <1>3, QuietExact

(* Every step of every call keeps the contents right. *)
LEMMA KvNext == ASSUME KvInv, [Next]_vars PROVE KvInv'
<1>0. IInv' /\ IInv /\ Counted /\ Counted' /\ Exclusive /\ Exact
  BY NextInv DEF KvInv, IInv
<1>1. ASSUME NEW s \in Seqs, NewCache(s) PROVE Exclusive' /\ Exact'
  <2>1. /\ UNCHANGED <<refs, byHash, content, table, ids, prepared>>
        /\ phase = "idle" /\ phase' = "idle"
    BY <1>1 DEF NewCache, poolVars, callVars
  <2> QED BY <1>0, <2>1, QuietExclusive, QuietExact
<1>2. ASSUME NEW s \in Seqs, Preempt(s) \/ DropCache(s) PROVE Exclusive' /\ Exact'
  <2>1. Clear(s)
    BY <1>2 DEF Preempt, DropCache
  <2> QED BY <1>0, <2>1, ClearExclusive, ClearExact
<1>3. ASSUME NEW s \in Seqs, NEW p \in Prompts, NEW max \in Chunks, PromptSuffix(s, p, max)
      PROVE  Exclusive' /\ Exact'
  BY <1>0, <1>3, PromptSuffixContent
<1>4. ASSUME \/ \E s \in Seqs, extra \in Extras : StartPrepare(s, extra)
             \/ \E js \in Batches : StartPrefill(js)
      PROVE  Exclusive' /\ Exact'
  BY <1>0, <1>4, StartContent
<1>5. ASSUME FullError \/ CapError PROVE Exclusive' /\ Exact'
  <2>1. UNCHANGED <<byHash, content, table, ids>> /\ phase' # "commit"
    BY <1>5 DEF FullError, CapError, Finish, poolVars, cacheVars
  <2> QED BY <1>0, <1>5, <2>1, ErrorExclusive, QuietExact
<1>6. ASSUME Fault PROVE Exclusive' /\ Exact'
  BY <1>0, <1>6, FaultExclusive, FaultExact
<1>7. ASSUME Cow PROVE Exclusive' /\ Exact'
  BY <1>0, <1>7, CowExclusive, CowExact
<1>8. ASSUME Reserved PROVE Exclusive' /\ Exact'
  <2>1. UNCHANGED <<byHash, content, table, ids>> /\ phase' # "commit"
    BY <1>8 DEF Reserved, poolVars, cacheVars
  <2> QED BY <1>0, <1>8, <2>1, ReservedPosExclusive, QuietExact
<1>9. ASSUME NextJob PROVE Exclusive' /\ Exact'
  <2>1. UNCHANGED <<byHash, content, table, ids>> /\ phase' # "commit"
    BY <1>9 DEF NextJob, Finish, poolVars
  <2> QED BY <1>0, <1>9, <2>1, NextJobExclusive, QuietExact
<1>10. ASSUME Transformer PROVE Exclusive' /\ Exact'
  BY <1>0, <1>10, ErrorExclusive, TransformerExact
<1>11. ASSUME TransformerError PROVE Exclusive' /\ Exact'
  BY <1>0, <1>11, ErrorExclusive, TransformerErrorExact
<1>12. ASSUME Commit PROVE Exclusive' /\ Exact'
  BY <1>0, <1>12, CommitExclusive, CommitExact
<1>13. ASSUME UNCHANGED vars PROVE Exclusive' /\ Exact'
  <2>1. UNCHANGED <<refs, byHash, content, table, ids, prepared, phase, jobs, at, pos>>
    BY <1>13 DEF vars, poolVars, cacheVars, callVars
  <2>2. Exclusive'
    BY <1>0, <2>1 DEF Exclusive, Owns, Sole, Cur, JobReady, End
  <2>3. Exact'
    BY <1>0, <2>1 DEF Exact, Holds, Read, InternShape, InternedExact, End
  <2> QED BY <2>2, <2>3
<1>14. Exclusive' /\ Exact'
  BY <1>1, <1>2, <1>3, <1>4, <1>5, <1>6, <1>7, <1>8, <1>9, <1>10, <1>11, <1>12, <1>13
     DEF Next, CallStep
<1> QED BY <1>0, <1>14 DEF KvInv

(* The blocks a call writes are its own and the blocks in use hold what they
   should, in every reachable state. *)
THEOREM ContentInvariant == Spec => []KvInv
<1>1. Init => KvInv
  BY InitKv
<1>2. KvInv /\ [Next]_vars => KvInv'
  BY KvNext
<1> QED BY <1>1, <1>2, PTL DEF Spec

(* When the forward pass starts, every block it will write has one name, the
   table entry it is written through, for any batch of any caches. *)
THEOREM WritesAlwaysExclusive == Spec => []WritesExclusive
<1>1. KvInv => WritesExclusive
  <2> SUFFICES ASSUME KvInv, phase = "compute", NEW jp \in Written
               PROVE  LET t == table[jobs[jp[1]].seq]
                          i == jp[2] \div BlockSize + 1
                      IN  /\ i <= Len(t)
                          /\ TableRefs(t[i]) = {<<jobs[jp[1]].seq, i>>}
                          /\ HashRefs(t[i]) = {}
    BY DEF WritesExclusive
  <2> DEFINE b == table[jobs[jp[1]].seq][jp[2] \div BlockSize + 1]
             o == jp[2] % BlockSize
  <2>1. jp \in Writers(b, o)
    BY DEF Writers, Written, WritesAt
  <2>2. /\ jp[2] \div BlockSize + 1 \in 1 .. Len(table[jobs[jp[1]].seq])
        /\ TableRefs(b) = {<<jobs[jp[1]].seq, jp[2] \div BlockSize + 1>>}
        /\ HashRefs(b) = {}
    BY <2>1, WriterSole DEF KvInv
  <2> QED BY <2>2
<1> QED BY <1>1, ContentInvariant, PTL

(* What prepare_append secured stays secured, whatever other caches do, until
   the cache itself appends or is cleared. *)
THEOREM PreparationAlwaysHolds == Spec => []PreparedHolds
<1>1. KvInv => PreparedHolds
  <2> SUFFICES ASSUME KvInv, NEW s \in Seqs,
                      NEW p \in Len(ids[s]) .. Len(ids[s]) + prepared[s] - 1
               PROVE  LET i == p \div BlockSize + 1 IN
                      i <= Len(table[s]) /\ refs[table[s][i]] = 1
    BY DEF PreparedHolds
  <2> DEFINE i == p \div BlockSize + 1
  <2>1. Sole(s, i)
    <3>1. PICK n, m : n = Len(ids[s]) /\ m = prepared[s]
      OBVIOUS
    <3>2. n \in Nat /\ m \in Nat
      BY <3>1, LenProperties DEF KvInv, IInv, Counted, TypeOK
    <3>3. p \in n .. (n + m) - 1
      BY <3>1, <3>2
    <3> QED BY <3>1, <3>3 DEF KvInv, Exclusive, Owns
  <2> HIDE DEF i
  <2>2. i <= Len(table[s]) /\ refs[table[s][i]] = 1
    BY <2>1 DEF Sole
  <2> QED BY <2>2 DEF i
<1> QED BY <1>1, ContentInvariant, PTL

(* An interned block holds the K/V of its prefix for as long as it is interned. *)
THEOREM InternedAlwaysExact == Spec => []InternedExact
<1>1. KvInv => InternedExact
  BY DEF KvInv, Exact
<1> QED BY <1>1, ContentInvariant, PTL

(* "Logits must bit-match dense decode": every cache reads K/V computed from
   its own tokens, for every pool, block size, prompt and batch. *)
THEOREM AlwaysMatchesDense == Spec => []KvMatchesDense
<1>1. KvInv => KvMatchesDense
  BY DEF KvInv, IInv, Counted, TypeOK, Exact, Holds, KvMatchesDense
<1> QED BY <1>1, ContentInvariant, PTL

-----------------------------------------------------------------------------
(* The paged cache implements the dense one.  A cache reads, at each position,
   the tokens that lead to it (KvInv), so the refinement mapping is a function of
   ids alone.  Legal adds what the steps of DenseKv ask for: where the tokens of a
   call come from and that they fit. *)

(* What a call appends is what the dense cache may be extended by. *)
Legal ==
  /\ \A s \in Seqs : suffix[s] = <<>> \/ suffix[s] \in Dense!Pieces
  /\ phase # "idle" /\ op = "prefill" => \A j \in 1 .. Len(jobs) :
       jobs[j].seq \in live /\ jobs[j].toks # <<>> /\ jobs[j].toks \in Dense!Pieces
  /\ phase \in {"compute", "commit"} => op = "prefill"
  /\ phase = "commit" => \A j \in at .. Len(jobs) : End(j) <= MaxSeq

-----------------------------------------------------------------------------
(* Where tokens come from. *)

(* A sampled token and the rest of a prompt, cut short or not, are pieces. *)
LEMMA SampledPiece ==
  ASSUME NEW t \in Sampled
  PROVE  <<t>> \in Dense!Pieces /\ <<t>> # <<>>
<1>1. t \in Token
  BY KvAssumption
<1>2. <<t>> \in Dense!Pieces
  BY <1>1 DEF Dense!Pieces
<1> QED BY <1>2

LEMMA RestPiece ==
  ASSUME NEW p \in Prompts, NEW h \in 0 .. Len(p) - 1
  PROVE  /\ SubSeq(p, h + 1, Len(p)) \in Dense!Pieces
         /\ \A max \in Nat \ {0} : Take(SubSeq(p, h + 1, Len(p)), max) \in Dense!Pieces
<1>1. /\ p \in Seq(Token) /\ Len(p) \in Nat /\ h \in Nat /\ h + 1 \in 1 .. Len(p)
      /\ Len(p) \in 1 .. Len(p)
  <2>1. p \in Seq(Token)
    BY KvAssumption
  <2>2. Len(p) \in Nat
    BY <2>1, LenProperties
  <2> QED BY <2>1, <2>2
<1>2. \A i, j \in 1 .. Len(p) : SubSeq(p, i, j) \in Dense!Pieces
  BY DEF Dense!Pieces
<1>3. PICK u, n : u = SubSeq(p, h + 1, Len(p)) /\ n = Len(p) - h
  OBVIOUS
<1>4. \A i \in h + 1 .. Len(p) : p[i] \in Token
  BY <1>1, ElementOfSeq
<1>5. /\ u \in Seq(Token) /\ Len(u) = n /\ n \in Nat /\ n >= 1
      /\ \A i \in 1 .. n : u[i] = p[h + i]
  <2>1. Len(p) >= h
    BY <1>1
  <2>2. /\ u \in Seq(Token)
        /\ Len(u) = IF h + 1 <= Len(p) THEN Len(p) - (h + 1) + 1 ELSE 0
        /\ \A i \in 1 .. Len(p) - (h + 1) + 1 : u[i] = p[h + 1 + i - 1]
    BY <1>1, <1>3, <1>4, SubSeqProperties
  <2>3. n \in Nat /\ n >= 1 /\ Len(u) = n /\ Len(p) - (h + 1) + 1 = n
    BY <1>1, <1>3, <2>2
  <2>4. \A i \in 1 .. n : h + 1 + i - 1 = h + i
    BY <1>1, <2>3
  <2> QED BY <2>2, <2>3, <2>4
<1>6. ASSUME NEW max \in Nat \ {0} PROVE Take(u, max) \in Dense!Pieces
  <2>1. PICK c : c = IF max < Len(u) THEN max ELSE Len(u)
    OBVIOUS
  <2>2. c \in Nat /\ c >= 1 /\ c <= n /\ Take(u, max) = SubSeq(u, 1, c)
    BY <1>5, <2>1 DEF Take
  <2>3. PICK v, w : v = SubSeq(u, 1, c) /\ w = SubSeq(p, h + 1, h + c)
    OBVIOUS
  <2>4. v \in Seq(Token) /\ Len(v) = c /\ \A i \in 1 .. c : v[i] = u[i]
    BY <1>5, <2>2, <2>3, Prefix
  <2>5. h + c <= Len(p) /\ h + c \in 1 .. Len(p)
    BY <1>1, <1>3, <2>2
  <2>6. /\ w \in Seq(Token) /\ Len(w) = c /\ \A i \in 1 .. c : w[i] = p[h + i]
    <3>1. \A i \in h + 1 .. h + c : p[i] \in Token
      BY <1>1, <1>4, <2>2, <2>5
    <3>2. /\ w \in Seq(Token)
          /\ Len(w) = IF h + 1 <= h + c THEN (h + c) - (h + 1) + 1 ELSE 0
          /\ \A i \in 1 .. (h + c) - (h + 1) + 1 : w[i] = p[h + 1 + i - 1]
      BY <1>1, <2>2, <2>3, <3>1, SubSeqProperties
    <3>3. (h + c) - (h + 1) + 1 = c /\ \A i \in 1 .. c : h + 1 + i - 1 = h + i
      BY <1>1, <2>2
    <3> QED BY <1>1, <2>2, <3>2, <3>3
  <2>7. \A i \in 1 .. c : v[i] = w[i]
    <3>1. 1 .. c \subseteq 1 .. n
      BY <1>5, <2>2
    <3> QED BY <1>5, <2>4, <2>6, <3>1
  <2>8. v = w
    BY <2>4, <2>6, <2>7, SeqEqual
  <2>9. w \in Dense!Pieces
    BY <1>1, <1>2, <2>3, <2>5
  <2> QED BY <2>2, <2>3, <2>8, <2>9
<1>7. u \in Dense!Pieces
  BY <1>1, <1>2, <1>3
<1> QED BY <1>3, <1>6, <1>7

-----------------------------------------------------------------------------
(* Legal is kept. *)

(* Clearing the suffix of one cache, or giving it a piece of a prompt. *)
LEMMA SuffixLegal ==
  ASSUME TypeOK, Legal, NEW s \in Seqs, NEW u, u = <<>> \/ u \in Dense!Pieces,
         suffix' = [suffix EXCEPT ![s] = u]
  PROVE  \A r \in Seqs : suffix'[r] = <<>> \/ suffix'[r] \in Dense!Pieces
<1> USE DEF TypeOK
<1>1. \A r \in Seqs : suffix'[r] = IF r = s THEN u ELSE suffix[r]
  OBVIOUS
<1> QED BY <1>1 DEF Legal

LEMMA IdleLegal ==
  ASSUME phase' = "idle",
         \A s \in Seqs : suffix'[s] = <<>> \/ suffix'[s] \in Dense!Pieces
  PROVE  Legal'
BY DEF Legal

LEMMA PromptSuffixLegal ==
  ASSUME KvInv, Legal, NEW s \in Seqs, NEW p \in Prompts, NEW max \in Chunks,
         PromptSuffix(s, p, max)
  PROVE  Legal'
<1>1. PICK h \in 0 .. Len(p) - 1 :
         \/ suffix' = [suffix EXCEPT ![s] = SubSeq(p, h + 1, Len(p))]
         \/ max > 0 /\ suffix' = [suffix EXCEPT ![s] = Take(SubSeq(p, h + 1, Len(p)), max)]
  BY PromptSuffixRebinds DEF KvInv
<1>2. max \in Nat /\ phase' = "idle"
  BY KvAssumption DEF PromptSuffix, callVars
<1>3. CASE suffix' = [suffix EXCEPT ![s] = SubSeq(p, h + 1, Len(p))]
  <2>1. PICK u : u = SubSeq(p, h + 1, Len(p))
    OBVIOUS
  <2>2. u \in Dense!Pieces /\ suffix' = [suffix EXCEPT ![s] = u]
    BY <1>3, <2>1, RestPiece
  <2> QED BY <1>2, <2>2, SuffixLegal, IdleLegal DEF KvInv, IInv, Counted
<1>4. CASE max > 0 /\ suffix' = [suffix EXCEPT ![s] = Take(SubSeq(p, h + 1, Len(p)), max)]
  <2>1. PICK u : u = Take(SubSeq(p, h + 1, Len(p)), max)
    OBVIOUS
  <2>2. max \in Nat \ {0}
    BY <1>2, <1>4
  <2>3. u \in Dense!Pieces /\ suffix' = [suffix EXCEPT ![s] = u]
    BY <1>4, <2>1, <2>2, RestPiece
  <2> QED BY <1>2, <2>3, SuffixLegal, IdleLegal DEF KvInv, IInv, Counted
<1> QED BY <1>1, <1>3, <1>4

LEMMA StartPrefillLegal ==
  ASSUME KvInv, Legal, NEW js \in Batches, StartPrefill(js)
  PROVE  Legal'
<1>1. /\ IsBatch(js) /\ phase' = "reserve" /\ jobs' = js /\ UNCHANGED <<live, suffix>>
  BY DEF StartPrefill, Start, cacheVars
<1>2. ASSUME NEW j \in 1 .. Len(js)
      PROVE  js[j].seq \in live /\ js[j].toks # <<>> /\ js[j].toks \in Dense!Pieces
  <2>1. j \in DOMAIN js
    <3>1. PICK n \in 1 .. MaxBatch :
            js \in [1 .. n -> [seq : live, toks : UNION {Groups(s) : s \in live}]]
      BY DEF Batches
    <3>2. n \in Nat
      BY KvAssumption
    <3>3. DOMAIN js = 1 .. n /\ Len(js) = n
      <4>1. DOMAIN js = 1 .. n
        BY <3>1
      <4> QED BY <3>1, <3>2, <4>1
    <3> QED BY <3>3
  <2>2. js[j].seq \in live /\ js[j].toks \in Groups(js[j].seq)
    BY <1>1, <2>1 DEF IsBatch
  <2>3. js[j].seq \in Seqs
    BY <2>2 DEF KvInv, IInv, Counted, TypeOK
  <2>4. CASE suffix[js[j].seq] # <<>>
    BY <2>2, <2>3, <2>4 DEF Groups, Legal
  <2>5. CASE suffix[js[j].seq] = <<>>
    <3>1. PICK t \in Sampled : js[j].toks = <<t>>
      BY <2>2, <2>5 DEF Groups
    <3> QED BY <2>2, <3>1, SampledPiece
  <2> QED BY <2>4, <2>5
<1> QED BY <1>1, <1>2 DEF Legal

LEMMA NextJobLegal == ASSUME KvInv, Legal, NextJob PROVE Legal'
<1>1. phase = "reserve" /\ UNCHANGED <<live, suffix, ids>>
  BY DEF NextJob
<1>2. CASE phase' = "idle"
  BY <1>1, <1>2 DEF Legal
<1>3. CASE phase' = "reserve" /\ UNCHANGED <<op, jobs>>
  BY <1>1, <1>3 DEF Legal
<1>4. CASE phase' = "compute" /\ op = "prefill" /\ UNCHANGED <<op, jobs>>
  BY <1>1, <1>4 DEF Legal
<1> QED BY <1>1, <1>2, <1>3, <1>4 DEF NextJob, Finish

LEMMA TransformerLegal == ASSUME KvInv, Legal, Transformer PROVE Legal'
<1>1. /\ phase = "compute" /\ phase' = "commit"
      /\ UNCHANGED <<live, suffix, ids, op, jobs, at>>
  BY DEF Transformer, cacheVars
<1>2. \A j \in 1 .. Len(jobs) : End(j) <= MaxSeq
  BY <1>1 DEF KvInv, Exclusive, JobReady
<1>3. at \in 1 .. Len(jobs) /\ Len(jobs) \in Nat
  BY <1>1, CurrentJob DEF KvInv, IInv, Counted
<1>4. \A j \in at' .. Len(jobs') : End(j)' <= MaxSeq
  <2>1. \A j \in at .. Len(jobs) : j \in 1 .. Len(jobs)
    BY <1>3
  <2> QED BY <1>1, <1>2, <2>1 DEF End
<1> QED BY <1>1, <1>4 DEF Legal

LEMMA CommitLegal == ASSUME KvInv, Legal, Commit PROVE Legal'
<1> USE DEF KvInv, IInv, Counted
<1>1. /\ phase = "commit" /\ suffix' = [suffix EXCEPT ![Cur] = <<>>]
      /\ \E t : ids' = [ids EXCEPT ![Cur] = t]
      /\ UNCHANGED live
      /\ \/ at < Len(jobs) /\ at' = at + 1 /\ UNCHANGED <<phase, op, jobs>>
         \/ phase' = "idle"
  BY DEF Commit, Finish
<1>2. /\ Len(jobs) \in Nat /\ at \in 1 .. Len(jobs) /\ Cur \in Seqs
      /\ \A j \in 1 .. Len(jobs) : jobs[j].seq \in Seqs
      /\ DOMAIN jobs = 1 .. Len(jobs)
  BY <1>1, CurrentJob, LenProperties DEF TypeOK
<1>3. \A s \in Seqs : suffix'[s] = <<>> \/ suffix'[s] \in Dense!Pieces
  <2>1. PICK c, e : c = Cur /\ e = <<>>
    OBVIOUS
  <2> QED BY <1>1, <1>2, <2>1, SuffixLegal
<1>4. CASE phase' = "idle"
  BY <1>3, <1>4, IdleLegal
<1>5. CASE at < Len(jobs) /\ at' = at + 1 /\ UNCHANGED <<phase, op, jobs>>
  <2>1. ASSUME NEW j \in at + 1 .. Len(jobs) PROVE End(j)' <= MaxSeq
    <3>1. j \in at .. Len(jobs) /\ j \in 1 .. Len(jobs) /\ j # at
      BY <1>2
    <3>2. jobs[j].seq # Cur
      BY <1>1, <1>2, <3>1 DEF CallShape, Cur
    <3>3. ids'[jobs[j].seq] = ids[jobs[j].seq]
      BY <1>1, <1>2, <3>1, <3>2 DEF TypeOK
    <3>4. End(j)' = End(j)
      BY <1>5, <3>3 DEF End
    <3> QED BY <1>1, <3>1, <3>4 DEF Legal
  <2> QED BY <1>1, <1>3, <1>5, <2>1 DEF Legal
<1> QED BY <1>1, <1>4, <1>5

LEMMA LegalNext == ASSUME KvInv, Legal, [Next]_vars PROVE Legal'
<1>1. ASSUME NEW s \in Seqs, NewCache(s) PROVE Legal'
  <2>1. phase' = "idle" /\ suffix' = suffix
    BY <1>1 DEF NewCache, callVars
  <2> QED BY <2>1, IdleLegal DEF Legal
<1>2. ASSUME NEW s \in Seqs, Preempt(s) \/ DropCache(s) PROVE Legal'
  <2>1. PICK e : e = <<>>
    OBVIOUS
  <2>2. phase' = "idle" /\ suffix' = [suffix EXCEPT ![s] = e]
    BY <1>2, <2>1 DEF Preempt, DropCache, Clear, callVars
  <2> QED BY <2>1, <2>2, SuffixLegal, IdleLegal DEF KvInv, IInv, Counted
<1>3. ASSUME NEW s \in Seqs, NEW p \in Prompts, NEW max \in Chunks, PromptSuffix(s, p, max)
      PROVE  Legal'
  BY <1>3, PromptSuffixLegal
<1>4. ASSUME NEW s \in Seqs, NEW extra \in Extras, StartPrepare(s, extra) PROVE Legal'
  <2>1. phase' = "reserve" /\ op' = "prepare" /\ suffix' = suffix
    BY <1>4 DEF StartPrepare, Start, cacheVars
  <2> QED BY <2>1 DEF Legal
<1>5. ASSUME NEW js \in Batches, StartPrefill(js) PROVE Legal'
  BY <1>5, StartPrefillLegal
<1>6. ASSUME FullError \/ CapError \/ TransformerError PROVE Legal'
  <2>1. phase' = "idle" /\ suffix' = suffix
    BY <1>6 DEF FullError, CapError, TransformerError, Finish, cacheVars
  <2> QED BY <2>1, IdleLegal DEF Legal
<1>7. ASSUME Fault \/ Cow \/ Reserved PROVE Legal'
  <2>1. phase = "reserve" /\ UNCHANGED <<live, suffix, phase, op, jobs>>
    BY <1>7 DEF Fault, Cow, Reserved, callVars, cacheVars
  <2> QED BY <2>1 DEF Legal
<1>8. ASSUME UNCHANGED vars PROVE Legal'
  BY <1>8 DEF Legal, End, vars, cacheVars, callVars
<1> QED BY <1>1, <1>2, <1>3, <1>4, <1>5, <1>6, <1>7, <1>8,
           NextJobLegal, TransformerLegal, CommitLegal DEF Next, CallStep

-----------------------------------------------------------------------------
(* The refinement mapping. *)

(* What the caches read, as the dense layout has it. *)
Reads == [s \in Seqs |-> [i \in 1 .. Len(ids[s]) |-> Read(s, i - 1)]]

(* The vectors a text leads to. *)
Vec(t) == [i \in 1 .. Len(t) |-> SubSeq(t, 1, i)]

Vecs == [s \in Seqs |-> Vec(ids[s])]

(* The vectors the caches read are those their texts lead to. *)
Mapped == Reads = Vecs

LEMMA ReadsVecs == KvInv => Mapped
<1> SUFFICES ASSUME KvInv PROVE Reads = Vecs
  BY DEF Mapped
<1>1. ASSUME NEW s \in Seqs PROVE [i \in 1 .. Len(ids[s]) |-> Read(s, i - 1)] = Vec(ids[s])
  <2>1. PICK n : n = Len(ids[s])
    OBVIOUS
  <2>2. n \in Nat
    BY <2>1, LenProperties DEF KvInv, IInv, Counted, TypeOK
  <2>3. ASSUME NEW i \in 1 .. n PROVE Read(s, i - 1) = SubSeq(ids[s], 1, i)
    <3>1. i - 1 \in 0 .. n - 1 /\ (i - 1) + 1 = i
      BY <2>2
    <3>2. \A p \in 0 .. n - 1 : Read(s, p) = SubSeq(ids[s], 1, p + 1)
      BY <2>1 DEF KvInv, Exact, Holds
    <3> QED BY <3>1, <3>2
  <2> QED BY <2>1, <2>3 DEF Vec
<1> QED BY <1>1 DEF Reads, Vecs

LEMMA VecType ==
  ASSUME NEW t \in Seq(Token)
  PROVE  /\ Vec(t) \in Seq(Seq(Token)) /\ Len(Vec(t)) = Len(t) /\ Len(t) \in Nat
         /\ \A i \in 1 .. Len(t) : Vec(t)[i] = SubSeq(t, 1, i)
<1>1. Len(t) \in Nat /\ \A i \in 1 .. Len(t) : i \in 0 .. Len(t)
  BY LenProperties
<1>2. \A i \in 1 .. Len(t) : SubSeq(t, 1, i) \in Seq(Token)
  BY <1>1, Prefix
<1>3. Vec(t) \in [1 .. Len(t) -> Seq(Token)]
  BY <1>2 DEF Vec
<1>4. \A i \in 1 .. Len(t) : Vec(t)[i] = SubSeq(t, 1, i)
  BY DEF Vec
<1> QED BY <1>1, <1>3, <1>4

(* Appending tokens appends the vectors computed after what was there. *)
LEMMA VecConcat ==
  ASSUME NEW t \in Seq(Token), NEW u \in Seq(Token)
  PROVE  Vec(t \o u) = Vec(t) \o Dense!Computed(t, u)
<1>1. PICK n, m : n = Len(t) /\ m = Len(u)
  OBVIOUS
<1>2. /\ t \o u \in Seq(Token) /\ Len(t \o u) = n + m /\ n \in Nat /\ m \in Nat
      /\ \A k \in 0 .. n : SubSeq(t \o u, 1, k) = SubSeq(t, 1, k)
      /\ \A d \in 0 .. m : t \o SubSeq(u, 1, d) = SubSeq(t \o u, 1, n + d)
  BY <1>1, PrefixOfConcat, LenProperties
<1>3. PICK a, b, c, w : /\ a = Vec(t) /\ b = Dense!Computed(t, u) /\ c = Vec(t \o u)
                        /\ w = t \o u
  OBVIOUS
<1>4. /\ a \in Seq(Seq(Token)) /\ Len(a) = n
      /\ \A i \in 1 .. n : a[i] = SubSeq(t, 1, i)
  BY <1>1, <1>3, VecType
<1>5. /\ c \in Seq(Seq(Token)) /\ Len(c) = n + m
      /\ \A i \in 1 .. n + m : c[i] = SubSeq(w, 1, i)
  BY <1>2, <1>3, VecType
<1>6. /\ b \in Seq(Seq(Token)) /\ Len(b) = m
      /\ \A i \in 1 .. m : b[i] = t \o SubSeq(u, 1, i)
  <2>1. b = [i \in 1 .. m |-> t \o SubSeq(u, 1, i)]
    BY <1>1, <1>3 DEF Dense!Computed
  <2>2. ASSUME NEW i \in 1 .. m PROVE t \o SubSeq(u, 1, i) \in Seq(Token)
    <3>1. i \in 0 .. Len(u)
      BY <1>1, <1>2
    <3>2. SubSeq(u, 1, i) \in Seq(Token)
      BY <3>1, Prefix
    <3> QED BY <3>2, ConcatProperties
  <2>3. b \in [1 .. m -> Seq(Token)]
    BY <2>1, <2>2
  <2> QED BY <1>2, <2>1, <2>3
<1>7. PICK e : e = a \o b
  OBVIOUS
<1>8. /\ e \in Seq(Seq(Token)) /\ Len(e) = n + m
      /\ \A i \in 1 .. n + m : e[i] = IF i <= n THEN a[i] ELSE b[i - n]
  BY <1>4, <1>6, <1>7, ConcatProperties
<1>9. ASSUME NEW i \in 1 .. n + m PROVE c[i] = e[i]
  <2>1. i \in Nat /\ i >= 1
    BY <1>2
  <2>2. CASE i <= n
    <3>1. i \in 1 .. n /\ i \in 0 .. n
      BY <1>2, <2>1, <2>2
    <3>2. c[i] = SubSeq(w, 1, i) /\ e[i] = a[i] /\ a[i] = SubSeq(t, 1, i)
      BY <1>4, <1>5, <1>8, <2>2, <3>1
    <3> QED BY <1>2, <1>3, <3>1, <3>2
  <2>3. CASE ~(i <= n)
    <3>1. PICK d : d = i - n
      OBVIOUS
    <3>2. d \in 1 .. m /\ d \in 0 .. m /\ n + d = i
      BY <1>2, <2>1, <2>3, <3>1
    <3>3. c[i] = SubSeq(w, 1, n + d) /\ e[i] = b[d] /\ b[d] = t \o SubSeq(u, 1, d)
      BY <1>5, <1>6, <1>8, <2>3, <3>1, <3>2
    <3> QED BY <1>2, <1>3, <3>2, <3>3
  <2> QED BY <2>2, <2>3
<1>10. c = e
  BY <1>5, <1>8, <1>9, SeqEqual
<1> QED BY <1>3, <1>7, <1>10

(* A cache that is positioned holds what the prompt alone leads to. *)
LEMMA VecFromNothing ==
  ASSUME NEW u \in Seq(Token)
  PROVE  Dense!Computed(<<>>, u) = Vec(u)
<1>1. Len(u) \in Nat /\ \A i \in 1 .. Len(u) : i \in 0 .. Len(u)
  BY LenProperties
<1>2. \A i \in 1 .. Len(u) : SubSeq(u, 1, i) \in Seq(Token)
  BY <1>1, Prefix
<1>3. \A v \in Seq(Token) : <<>> \o v = v
  BY ConcatEmptySeq
<1> QED BY <1>2, <1>3 DEF Dense!Computed, Vec

(* The context of the dense cache is the text of the paged one. *)
LEMMA DenseContext ==
  ASSUME KvInv, NEW s \in Seqs
  PROVE  Dense!Context(s) = ids[s]
<1>1. ids[s] \in Seq(Token)
  BY DEF KvInv, IInv, Counted, TypeOK
<1>2. PICK t, v : t = ids[s] /\ v = Vec(t)
  OBVIOUS
<1>3. /\ v \in Seq(Seq(Token)) /\ Len(v) = Len(t) /\ Len(t) \in Nat
      /\ \A i \in 1 .. Len(t) : v[i] = SubSeq(t, 1, i)
  BY <1>1, <1>2, VecType
<1>4. Reads[s] = v
  BY <1>2, ReadsVecs DEF Mapped, Vecs
<1>5. Dense!Context(s) = IF v = <<>> THEN <<>> ELSE v[Len(v)]
  BY <1>4 DEF Dense!Context, Reads
<1>6. CASE Len(t) = 0
  <2>1. v = <<>> /\ t = <<>>
    BY <1>1, <1>2, <1>3, <1>6, EmptySeq
  <2> QED BY <1>2, <1>5, <2>1
<1>7. CASE Len(t) # 0
  <2>1. v # <<>>
    BY <1>3, <1>7, EmptySeq
  <2>2. Len(t) \in 1 .. Len(t)
    BY <1>3, <1>7
  <2>3. v[Len(v)] = SubSeq(t, 1, Len(t))
    BY <1>3, <2>2
  <2>4. SubSeq(t, 1, Len(t)) = t
    BY <1>1, <1>2, SubSeqFull
  <2> QED BY <1>2, <1>5, <2>1, <2>3, <2>4
<1> QED BY <1>6, <1>7

(* Giving one cache another text gives it the vectors of that text. *)
LEMMA VecsChange ==
  ASSUME KvInv, KvInv', NEW s \in Seqs, NEW t, ids' = [ids EXCEPT ![s] = t]
  PROVE  Reads' = [Reads EXCEPT ![s] = Vec(t)]
<1>1. Mapped /\ Mapped'
  BY ReadsVecs, PTL
<1>2. ids \in [Seqs -> Seq(Token)]
  BY DEF KvInv, IInv, Counted, TypeOK
<1>3. \A r \in Seqs : ids'[r] = IF r = s THEN t ELSE ids[r]
  BY <1>2
<1>4. PICK f, g : f = Reads /\ g = Reads'
  OBVIOUS
<1>5. f = [r \in Seqs |-> Vec(ids[r])]
  BY <1>1, <1>4 DEF Mapped, Vecs
<1>6. g = [r \in Seqs |-> Vec(ids'[r])]
  <2>1. Vecs' = [r \in Seqs |-> Vec(ids'[r])]
    BY DEF Vecs, Vec
  <2> QED BY <1>1, <1>4, <2>1 DEF Mapped
<1>7. g = [f EXCEPT ![s] = Vec(t)]
  BY <1>3, <1>5, <1>6
<1> QED BY <1>4, <1>7

-----------------------------------------------------------------------------
(* Every step is a step of the dense cache, or none. *)

LEMMA SameReads ==
  ASSUME KvInv, KvInv', UNCHANGED ids
  PROVE  Reads' = Reads
<1>1. Mapped /\ Mapped'
  BY ReadsVecs, PTL
<1>2. Vecs' = Vecs
  BY DEF Vecs, Vec
<1> QED BY <1>1, <1>2 DEF Mapped

LEMMA CreateStep ==
  ASSUME KvInv, KvInv', NEW s \in Seqs, NewCache(s)
  PROVE  Dense!Create(s)
<1>1. s \notin live /\ live' = live \cup {s} /\ UNCHANGED ids
  BY DEF NewCache
<1>2. Reads' = Reads
  BY <1>1, SameReads
<1> QED BY <1>1, <1>2 DEF Dense!Create, Reads

LEMMA ForgetStep ==
  ASSUME KvInv, KvInv', NEW s \in Seqs, Preempt(s) \/ DropCache(s)
  PROVE  Dense!Forget(s)
<1>1. s \in live /\ ids' = [ids EXCEPT ![s] = <<>>] /\ live' \in {live, live \ {s}}
  BY DEF Preempt, DropCache, Clear
<1>2. PICK e : e = <<>>
  OBVIOUS
<1>3. e \in Seq(Token) /\ Len(e) = 0 /\ ids' = [ids EXCEPT ![s] = e]
  BY <1>1, <1>2, EmptySeq
<1>4. Reads' = [Reads EXCEPT ![s] = Vec(e)]
  BY <1>3, VecsChange
<1>5. Vec(e) = e
  <2>1. Vec(e) \in Seq(Seq(Token)) /\ Len(Vec(e)) = 0
    BY <1>3, VecType
  <2>2. \A u \in Seq(Seq(Token)) : u # <<>> => Len(u) \in Nat \ {0}
    BY EmptySeq
  <2>3. Vec(e) = <<>>
    BY <2>1, <2>2
  <2> QED BY <1>2, <2>3
<1>6. Reads' = [Reads EXCEPT ![s] = <<>>]
  BY <1>2, <1>4, <1>5
<1> QED BY <1>1, <1>6 DEF Dense!Forget, Reads

LEMMA PositionStep ==
  ASSUME KvInv, KvInv', NEW s \in Seqs, NEW p \in Prompts, NEW max \in Chunks,
         PromptSuffix(s, p, max)
  PROVE  Dense!Position(s, p)
<1>1. PICK t \in Seq(Block), h \in 0 .. Len(p) - 1 : Rebind(s, p, t, h)
  BY PromptSuffixRebinds DEF KvInv
<1>2. s \in live /\ UNCHANGED live
  BY DEF PromptSuffix
<1>3. p \in Seq(Token) /\ Len(p) \in Nat /\ h \in 0 .. Len(p)
  BY <1>1, LenProperties DEF Rebind
<1>4. PICK u : u = SubSeq(p, 1, h)
  OBVIOUS
<1>5. u \in Seq(Token) /\ ids' = [ids EXCEPT ![s] = u]
  BY <1>1, <1>3, <1>4, Prefix DEF Rebind
<1>6. Reads' = [Reads EXCEPT ![s] = Dense!Computed(<<>>, SubSeq(p, 1, h))]
  <2>1. Reads' = [Reads EXCEPT ![s] = Vec(u)]
    BY <1>5, VecsChange
  <2>2. Dense!Computed(<<>>, u) = Vec(u)
    BY <1>5, VecFromNothing
  <2> QED BY <1>4, <2>1, <2>2
<1>7. PICK v : v = Reads[s]
  OBVIOUS
<1>8. ASSUME NEW i \in 1 .. Len(v), i < Len(p), v[i] = SubSeq(p, 1, i)
      PROVE  i <= h
  <2>1. ids[s] \in Seq(Token)
    BY DEF KvInv, IInv, Counted, TypeOK
  <2>2. v = Vec(ids[s])
    BY <1>7, ReadsVecs DEF Mapped, Vecs
  <2>3. i \in 1 .. Len(ids[s]) /\ v[i] = SubSeq(ids[s], 1, i)
    BY <2>1, <2>2, VecType
  <2> QED BY <1>1, <1>8, <2>3 DEF Rebind
<1>9. \A i \in 1 .. Len(Reads[s]) :
        i < Len(p) /\ Reads[s][i] = SubSeq(p, 1, i) => i <= h
  BY <1>7, <1>8
<1> QED BY <1>2, <1>6, <1>9 DEF Dense!Position, Reads

LEMMA ExtendStep ==
  ASSUME KvInv, KvInv', Legal, Commit
  PROVE  \E s \in Seqs : \E toks \in Dense!Pieces : Dense!Extend(s, toks)
<1>1. PICK c, u, t : c = Cur /\ u = jobs[at].toks /\ t = ids[c] \o u
  OBVIOUS
<1>2. phase = "commit" /\ ids' = [ids EXCEPT ![c] = t] /\ UNCHANGED live
  BY <1>1 DEF Commit
<1>3. /\ at \in 1 .. Len(jobs) /\ Len(jobs) \in Nat /\ c \in Seqs
      /\ ids[c] \in Seq(Token) /\ u \in Seq(Token)
  BY <1>1, <1>2, CurrentJob DEF KvInv, IInv, Counted, TypeOK
<1>4. /\ c \in live /\ u # <<>> /\ u \in Dense!Pieces /\ End(at) <= MaxSeq
  <2>1. at \in at .. Len(jobs)
    BY <1>3
  <2> QED BY <1>1, <1>2, <1>3, <2>1 DEF Legal, Cur
<1>5. Len(ids[c]) + Len(u) <= MaxSeq
  BY <1>1, <1>4 DEF End, Cur
<1>6. Reads[c] = Vec(ids[c]) /\ Len(Vec(ids[c])) = Len(ids[c])
  BY <1>3, ReadsVecs, VecType DEF Mapped, Vecs
<1>7. Dense!Context(c) = ids[c]
  BY <1>3, DenseContext
<1>8. Vec(t) = Reads[c] \o Dense!Computed(Dense!Context(c), u)
  BY <1>1, <1>3, <1>6, <1>7, VecConcat
<1>9. Reads' = [Reads EXCEPT ![c] = Vec(t)]
  BY <1>2, <1>3, VecsChange
<1>10. Reads' = [Reads EXCEPT ![c] = @ \o Dense!Computed(Dense!Context(c), u)]
  BY <1>8, <1>9
<1>11. Len(Reads[c]) + Len(u) <= MaxSeq
  BY <1>5, <1>6
<1>12. Dense!Extend(c, u)
  BY <1>2, <1>4, <1>10, <1>11 DEF Dense!Extend, Reads
<1> QED BY <1>3, <1>4, <1>12

LEMMA StepRefines ==
  ASSUME KvInv, KvInv', Legal, [Next]_vars
  PROVE  [Dense!Next]_(Dense!vars)
<1>1. ASSUME NEW s \in Seqs, NewCache(s) PROVE Dense!Next
  BY <1>1, CreateStep DEF Dense!Next
<1>2. ASSUME NEW s \in Seqs, Preempt(s) \/ DropCache(s) PROVE Dense!Next
  BY <1>2, ForgetStep DEF Dense!Next
<1>3. ASSUME NEW s \in Seqs, NEW p \in Prompts, NEW max \in Chunks, PromptSuffix(s, p, max)
      PROVE  Dense!Next
  BY <1>3, PositionStep DEF Dense!Next
<1>4. ASSUME Commit PROVE Dense!Next
  BY <1>4, ExtendStep DEF Dense!Next
<1>5. ASSUME \/ \E s \in Seqs, extra \in Extras : StartPrepare(s, extra)
             \/ \E js \in Batches : StartPrefill(js)
             \/ FullError \/ Fault \/ Cow \/ CapError \/ Reserved \/ NextJob
             \/ Transformer \/ TransformerError \/ UNCHANGED vars
      PROVE  UNCHANGED Dense!vars
  <2>1. UNCHANGED <<live, ids>>
    BY <1>5 DEF StartPrepare, StartPrefill, Start, FullError, Fault, Cow, CapError, Reserved,
                NextJob, Transformer, TransformerError, vars, cacheVars
  <2>2. Reads' = Reads
    BY <2>1, SameReads
  <2> QED BY <2>1, <2>2 DEF Dense!vars, Reads
<1> QED BY <1>1, <1>2, <1>3, <1>4, <1>5 DEF Next, CallStep

LEMMA InitRefines == Init => Dense!Init /\ Legal
<1> SUFFICES ASSUME Init PROVE Dense!Init /\ Legal
  OBVIOUS
<1>1. Mapped
  BY InitKv, ReadsVecs
<1>2. PICK e : e = <<>>
  OBVIOUS
<1>3. live = {} /\ \A s \in Seqs : ids[s] = e /\ suffix[s] = e
  BY <1>2 DEF Init
<1>4. e \in Seq(Token) /\ Len(e) = 0
  BY <1>2, EmptySeq
<1>5. Vec(e) = <<>>
  <2>1. Vec(e) \in Seq(Seq(Token)) /\ Len(Vec(e)) = 0
    BY <1>4, VecType
  <2>2. \A u \in Seq(Seq(Token)) : u # <<>> => Len(u) \in Nat \ {0}
    BY EmptySeq
  <2> QED BY <2>1, <2>2
<1>6. Reads = [s \in Seqs |-> <<>>]
  BY <1>1, <1>3, <1>5 DEF Mapped, Vecs
<1>7. Dense!Init
  BY <1>3, <1>6 DEF Dense!Init, Reads
<1>8. Legal
  BY <1>2, <1>3 DEF Legal, Init
<1> QED BY <1>7, <1>8

(* Every behaviour of the paged caches, seen through what they read, is one of
   dense caches: prefix binding, copy-on-write, eviction, batching and failed
   forward passes never show, whatever the pool, block and batch sizes. *)
THEOREM PagedImplementsDense == Spec => PagedIsDense
<1>1. Init => Dense!Init /\ KvInv /\ Legal
  BY InitRefines, InitKv
<1>2. KvInv /\ Legal /\ [Next]_vars => KvInv' /\ Legal'
  BY KvNext, LegalNext
<1>3. KvInv /\ KvInv' /\ Legal /\ [Next]_vars => [Dense!Next]_(Dense!vars)
  BY StepRefines
<1> QED BY <1>1, <1>2, <1>3, PTL DEF Spec, PagedIsDense, Dense!Spec

-----------------------------------------------------------------------------
(* A call that appends no more than was prepared. *)

(* What is being reserved lies past the text. *)
Onward == phase = "reserve" => Len(ids[Cur]) <= pos

LEMMA OnwardNext == ASSUME KvInv, Onward, [Next]_vars PROVE Onward'
<1>1. TypeOK /\ CallShape /\ TypeOK' /\ CallShape'
  BY KvNext DEF KvInv, IInv, Counted
<1>2. phase' = "reserve" => Len(ids'[Cur']) \in Nat
  <2> SUFFICES ASSUME phase' = "reserve" PROVE Len(ids'[Cur']) \in Nat
    OBVIOUS
  <2>1. PICK J : J = [seq : Seqs, toks : Seq(Token)] /\ jobs' \in Seq(J)
    BY <1>1 DEF TypeOK, Job
  <2>2. at' \in 1 .. Len(jobs')
    BY <1>1, <2>1, LenProperties DEF CallShape
  <2>3. jobs'[at'] \in J
    BY <2>1, <2>2, ElementOfSeq
  <2>4. jobs'[at'].seq \in Seqs
    BY <2>1, <2>3
  <2>5. ids'[Cur'] \in Seq(Token)
    BY <1>1, <2>4 DEF Cur, TypeOK
  <2> QED BY <2>5, LenProperties
<1>3. ASSUME UNCHANGED <<ids, phase, jobs, at, pos>> PROVE Onward'
  BY <1>3 DEF Onward, Cur
<1>4. ASSUME phase' # "reserve" PROVE Onward'
  BY <1>4 DEF Onward
<1>5. ASSUME pos' = Len(ids'[Cur']) PROVE Onward'
  <2>1. PICK n : n = Len(ids'[Cur'])
    OBVIOUS
  <2>2. phase' = "reserve" => n \in Nat /\ pos' = n
    BY <1>2, <1>5, <2>1
  <2>3. phase' = "reserve" => n <= pos'
    BY <2>2
  <2> QED BY <2>1, <2>3 DEF Onward
<1>6. ASSUME NEW what, NEW js, Start(what, js) PROVE Onward'
  <2>1. pos' = Len(ids'[Cur'])
    BY <1>6 DEF Start, cacheVars, Cur
  <2> QED BY <1>5, <2>1
<1>7. ASSUME NEW s, NewCache(s) \/ Clear(s) PROVE Onward'
  <2>1. phase' # "reserve"
    BY <1>7 DEF NewCache, Clear, callVars
  <2> QED BY <1>4, <2>1
<1>8. ASSUME NEW s, NEW p, NEW max, PromptSuffix(s, p, max) PROVE Onward'
  <2>1. phase' # "reserve"
    BY <1>8 DEF PromptSuffix, callVars
  <2> QED BY <1>4, <2>1
<1>9. ASSUME FullError \/ CapError \/ TransformerError \/ Transformer \/ Commit PROVE Onward'
  <2>1. phase' # "reserve"
    BY <1>9 DEF FullError, CapError, TransformerError, Transformer, Commit, Finish
  <2> QED BY <1>4, <2>1
<1>10. ASSUME Fault \/ Cow PROVE Onward'
  <2>1. UNCHANGED <<ids, phase, jobs, at, pos>>
    BY <1>10 DEF Fault, Cow, callVars
  <2> QED BY <1>3, <2>1
<1>11. ASSUME Reserved PROVE Onward'
  <2>1. phase = "reserve" /\ phase' = "reserve" /\ pos' = pos + 1 /\ Cur' = Cur /\ ids' = ids
    BY <1>11 DEF Reserved, cacheVars, Cur
  <2>2. PICK n : n = Len(ids[Cur])
    OBVIOUS
  <2>3. n \in Nat /\ pos \in Nat /\ n <= pos
    BY <1>1, <1>2, <2>1, <2>2 DEF Onward, TypeOK
  <2>4. n <= pos'
    BY <2>1, <2>3
  <2> QED BY <2>1, <2>2, <2>4 DEF Onward
<1>12. ASSUME NextJob PROVE Onward'
  <2>1. CASE phase' # "reserve"
    BY <1>4, <2>1
  <2>2. CASE phase' = "reserve"
    <3>1. at' = at + 1 /\ jobs' = jobs /\ ids' = ids /\ pos' = Len(ids[jobs[at + 1].seq])
      BY <1>12, <2>2 DEF NextJob, Finish
    <3>2. pos' = Len(ids'[Cur'])
      BY <3>1 DEF Cur
    <3> QED BY <1>5, <3>2
  <2> QED BY <2>1, <2>2
<1>13. ASSUME UNCHANGED vars PROVE Onward'
  <2>1. UNCHANGED <<ids, phase, jobs, at, pos>>
    BY <1>13 DEF vars, poolVars, cacheVars, callVars
  <2> QED BY <1>3, <2>1
<1> QED BY <1>6, <1>7, <1>8, <1>9, <1>10, <1>11, <1>12, <1>13
        DEF Next, CallStep, Preempt, DropCache, StartPrepare, StartPrefill

(* "Ensure n_past + extra KV positions exist so a later write cannot fail the page
   cap" (prepare_append): a call that appends no more than was prepared never finds
   the pool full. *)
LEMMA PreparedNeverCaps ==
  ASSUME KvInv, Onward, CapError
  PROVE  ~(Len(jobs[at].toks) <= prepared[jobs[at].seq])
<1>1. /\ TypeOK /\ CallShape /\ phase = "reserve" /\ pos < End(at)
      /\ NeedsBlock \/ NeedsCopy
  BY DEF KvInv, IInv, Counted, CapError
<1>2. PICK s, n, m, e : s = Cur /\ n = Len(ids[s]) /\ m = prepared[s] /\ e = Len(jobs[at].toks)
  OBVIOUS
<1>3. s \in Seqs /\ n \in Nat /\ m \in Nat /\ e \in Nat /\ pos \in Nat
  BY <1>1, <1>2, CurrentJob DEF TypeOK, Cur
<1>4. End(at) = n + e /\ n <= pos
  BY <1>1, <1>2 DEF End, Cur, Onward
<1>5. Len(table[s]) \in Nat /\ Index \in Int
  BY <1>1, <1>2, <1>3, LenProperties, BlockOf DEF Index, TypeOK
<1>6. ASSUME e <= m PROVE FALSE
  <2>1. pos \in n .. (n + m) - 1
    BY <1>1, <1>3, <1>4, <1>6
  <2>2. Sole(s, Index)
    BY <1>2, <1>3, <2>1 DEF KvInv, Exclusive, Owns, Index
  <2>3. ~NeedsBlock /\ ~NeedsCopy
    BY <1>2, <1>5, <2>2 DEF Sole, NeedsBlock, NeedsCopy
  <2> QED BY <1>1, <2>3
<1> QED BY <1>2, <1>6 DEF Cur

(* So says KvPool of every caller: "kv page cap" is an answer only to a call that was
   not prepared, or not for so many tokens. *)
THEOREM PreparedCallsNeverCap ==
  Spec => [][CapError => ~(Len(jobs[at].toks) <= prepared[jobs[at].seq])]_vars
<1>1. Init => KvInv /\ Onward
  <2>1. Init => Onward
    BY DEF Init, Onward
  <2> QED BY <2>1, InitKv
<1>2. KvInv /\ Onward /\ [Next]_vars => KvInv' /\ Onward'
  BY KvNext, OnwardNext
<1>3. KvInv /\ Onward => [CapError => ~(Len(jobs[at].toks) <= prepared[jobs[at].seq])]_vars
  BY PreparedNeverCaps
<1> QED BY <1>1, <1>2, <1>3, PTL DEF Spec

-----------------------------------------------------------------------------
(* A full pool. *)

(* A cache that is gone holds nothing, a call works on caches that are not gone, and
   "kv page cap" is said of a pool with nothing to give. *)
Held ==
  /\ \A s \in Seqs \ live : table[s] = <<>>
  /\ phase # "idle" => result = "ok" /\ \A j \in DOMAIN jobs : jobs[j].seq \in live
  /\ result = "kv page cap" => Free = {} /\ Evictable = {}

LEMMA HeldNext == ASSUME KvInv, Held, [Next]_vars PROVE Held'
<1>0. /\ TypeOK /\ CallShape /\ table \in [Seqs -> Seq(Block)]
      /\ phase # "idle" => Cur \in live
  BY DEF KvInv, IInv, Counted, TypeOK, CallShape, Held, Cur
<1>1. ASSUME NEW s \in Seqs, NewCache(s) PROVE Held'
  BY <1>1 DEF NewCache, callVars, Held
<1>2. ASSUME NEW s \in Seqs, Clear(s), live' = live \/ live' = live \ {s} PROVE Held'
  <2>1. PICK e : e = <<>>
    OBVIOUS
  <2>2. /\ table' = [table EXCEPT ![s] = e] /\ phase' = "idle" /\ result' = "ok" /\ s \in live
    BY <1>2, <2>1 DEF Clear, Retable, callVars
  <2> QED BY <1>0, <1>2, <2>1, <2>2 DEF Held
<1>3. ASSUME NEW s \in Seqs, NEW p, NEW max, PromptSuffix(s, p, max) PROVE Held'
  <2>1. PICK t : Retable(s, t)
    BY <1>3 DEF PromptSuffix
  <2>2. /\ table' = [table EXCEPT ![s] = t] /\ phase' = "idle" /\ result' = "ok" /\ s \in live
        /\ UNCHANGED live
    BY <1>3, <2>1 DEF PromptSuffix, Retable, callVars
  <2> QED BY <1>0, <2>2 DEF Held
<1>4. ASSUME NEW s, NEW extra, StartPrepare(s, extra) PROVE Held'
  <2>1. PICK js, g : Start("prepare", js) /\ js = <<[seq |-> s, toks |-> g]>> /\ s \in live
    BY <1>4 DEF StartPrepare
  <2>2. /\ UNCHANGED <<live, table>> /\ jobs' = js /\ result' = "ok"
    BY <2>1 DEF Start, cacheVars
  <2>3. \A j \in DOMAIN js : js[j].seq = s
    BY <2>1
  <2> QED BY <2>1, <2>2, <2>3 DEF Held
<1>5. ASSUME NEW js, StartPrefill(js) PROVE Held'
  <2>1. /\ UNCHANGED <<live, table>> /\ jobs' = js /\ result' = "ok"
        /\ \A i \in DOMAIN js : js[i].seq \in live
    BY <1>5 DEF StartPrefill, IsBatch, Start, cacheVars
  <2> QED BY <2>1 DEF Held
<1>6. ASSUME FullError \/ TransformerError PROVE Held'
  <2>1. phase' = "idle" /\ result' # "kv page cap" /\ UNCHANGED <<live, table>>
    BY <1>6 DEF FullError, TransformerError, Finish, cacheVars
  <2> QED BY <2>1 DEF Held
<1>7. ASSUME CapError PROVE Held'
  <2>1. phase' = "idle" /\ Free = {} /\ Evictable = {} /\ UNCHANGED <<live, table, refs, byHash>>
    BY <1>7 DEF CapError, Finish, cacheVars, poolVars
  <2> QED BY <2>1 DEF Held, Free, Evictable
<1>8. ASSUME Fault \/ Cow PROVE Held'
  <2>1. /\ UNCHANGED <<live, phase, jobs, result>> /\ phase # "idle"
        /\ \E t : table' = [table EXCEPT ![Cur] = t]
    BY <1>8 DEF Fault, Cow, callVars
  <2> QED BY <1>0, <2>1 DEF Held
<1>9. ASSUME Reserved \/ NextJob \/ Transformer \/ Commit PROVE Held'
  <2>1. /\ UNCHANGED <<live, table>> /\ phase # "idle"
        /\ phase' = "idle" \/ jobs' = jobs
        /\ result' = result \/ result' = "ok"
    BY <1>9 DEF Reserved, NextJob, Transformer, Commit, Finish, cacheVars
  <2> QED BY <2>1 DEF Held
<1>10. ASSUME UNCHANGED vars PROVE Held'
  <2>1. UNCHANGED <<refs, byHash, live, table, phase, jobs, result>>
    BY <1>10 DEF vars, poolVars, cacheVars, callVars
  <2> QED BY <2>1 DEF Held, Free, Evictable
<1> QED BY <1>1, <1>2, <1>3, <1>4, <1>5, <1>6, <1>7, <1>8, <1>9, <1>10
        DEF Next, CallStep, Preempt, DropCache

(* No two prefixes are interned with one block: its content tells which one it is. *)
LEMMA OneInterned ==
  ASSUME KvInv, NEW q \in DOMAIN byHash, NEW r \in DOMAIN byHash, byHash[q] = byHash[r]
  PROVE  q = r
<1>1. BlockSize - 1 \in Offset /\ BlockSize \in Nat
  BY KvAssumption DEF Offset
<1>2. DOMAIN byHash \subseteq Seq(Token)
  BY DEF KvInv, IInv, Counted, TypeOK
<1>3. ASSUME NEW x \in DOMAIN byHash PROVE content[byHash[x]][BlockSize - 1] = x
  <2>1. content[byHash[x]][BlockSize - 1] = SubSeq(x, 1, Len(x) - BlockSize + (BlockSize - 1) + 1)
    BY <1>1 DEF KvInv, Exact, InternedExact
  <2>2. x \in Seq(Token) /\ Len(x) \in Nat
    BY <1>2, LenProperties
  <2>3. Len(x) - BlockSize + (BlockSize - 1) + 1 = Len(x)
    BY <1>1, <2>2
  <2>4. SubSeq(x, 1, Len(x)) = x
    BY <2>2
  <2> QED BY <2>1, <2>3, <2>4
<1> QED BY <1>3

(* Every block of a pool with nothing to give is in a table. *)
LEMMA SpentNamed ==
  ASSUME KvInv, Free = {}, Evictable = {}, NEW b \in Block
  PROVE  \E s \in Seqs : \E i \in 1 .. Len(table[s]) : table[s][i] = b
<1>1. /\ refs[b] = Cardinality(TableRefs(b)) + Cardinality(HashRefs(b)) /\ refs[b] \in Nat
      /\ refs[b] # 0 /\ IsFiniteSet(HashRefs(b))
  BY HashRefsFinite DEF KvInv, IInv, Counted, TypeOK, RefsExact, Free
<1>2. CASE TableRefs(b) = {}
  <2>1. refs[b] = Cardinality(HashRefs(b))
    BY <1>1, <1>2, FS_EmptySet, FS_CardinalityType
  <2>2. HashRefs(b) # {}
    BY <1>1, <2>1, FS_EmptySet
  <2>3. PICK q \in HashRefs(b) : TRUE
    BY <2>2
  <2>4. \A r \in HashRefs(b) : r = q
    BY <2>3, OneInterned DEF HashRefs
  <2>5. HashRefs(b) = {q}
    BY <2>3, <2>4
  <2>6. refs[b] = 1
    BY <2>1, <2>5, FS_Singleton
  <2>7. q \in Evictable
    BY <2>3, <2>6 DEF HashRefs, Evictable
  <2> QED BY <2>7
<1>3. CASE TableRefs(b) # {}
  <2>1. PICK s \in Seqs : \E i \in DOMAIN table[s] : table[s][i] = b
    BY <1>3 DEF TableRefs, Occ
  <2>2. DOMAIN table[s] = 1 .. Len(table[s])
    BY LenProperties DEF KvInv, IInv, Counted, TypeOK
  <2> QED BY <2>1, <2>2
<1> QED BY <1>2, <1>3

(* No text, no table and no interned prefix is longer than max_seq allows. *)
Small ==
  /\ \A s \in Seqs : Len(ids[s]) <= MaxSeq /\ Len(table[s]) <= TableMax
  /\ \A q \in DOMAIN byHash : Len(q) <= MaxSeq

LEMMA TableMaxBounds ==
  /\ TableMax \in Nat /\ MaxSeq <= TableMax * BlockSize
  /\ \A n \in Nat : n <= MaxSeq => BlocksFor(n) \in Nat /\ BlocksFor(n) <= TableMax
  /\ \A n \in Nat : n < MaxSeq => n \div BlockSize + 1 <= TableMax
<1>1. MaxSeq \in Nat /\ BlockSize \in Nat /\ BlockSize > 0 /\ TableMax = BlocksFor(MaxSeq)
  BY KvAssumption DEF TableMax, BlocksFor
<1>2. TableMax \in Nat /\ MaxSeq <= TableMax * BlockSize
  BY <1>1, BlocksForCovers
<1>3. ASSUME NEW n \in Nat, n <= MaxSeq PROVE BlocksFor(n) \in Nat /\ BlocksFor(n) <= TableMax
  <2>1. PICK m, M \in Nat : m = n + BlockSize - 1 /\ M = MaxSeq + BlockSize - 1
    BY <1>1
  <2>2. m <= M
    BY <1>1, <1>3, <2>1
  <2>3. PICK L \in Nat : L = TableMax + 1
    BY <1>2
  <2>4. M < L * BlockSize
    <3>1. L * BlockSize = TableMax * BlockSize + BlockSize
      BY <1>1, <1>2, <2>3
    <3>2. PICK x \in Nat : x = TableMax * BlockSize
      BY <1>1, <1>2
    <3> QED BY <1>1, <1>2, <2>1, <3>1, <3>2
  <2>5. m < L * BlockSize
    <3>1. PICK x \in Nat : x = L * BlockSize
      BY <1>1
    <3> QED BY <2>1, <2>2, <2>4, <3>1
  <2>6. m \div BlockSize + 1 <= L /\ m \div BlockSize \in Nat
    BY <2>5, BlockBelow, BlockOf
  <2>7. BlocksFor(n) = m \div BlockSize
    BY <2>1 DEF BlocksFor
  <2> QED BY <1>2, <2>3, <2>6, <2>7
<1>4. ASSUME NEW n \in Nat, n < MaxSeq PROVE n \div BlockSize + 1 <= TableMax
  <2>1. PICK x \in Nat : x = TableMax * BlockSize
    BY <1>1, <1>2
  <2>2. n < TableMax * BlockSize
    BY <1>1, <1>2, <1>4, <2>1
  <2> QED BY <1>2, <2>2, BlockBelow
<1> QED BY <1>2, <1>3, <1>4

(* What is bound is interned, so it is not too long whatever the prompt is. *)
LEMMA PromptSuffixSmall ==
  ASSUME IInv, Small, NEW s \in Seqs, NEW p \in Prompts, NEW max, PromptSuffix(s, p, max)
  PROVE  Small'
<1> USE DEF IInv, Counted
<1>1. /\ p \in Seq(Token) /\ Len(p) \in Nat /\ BlockSize \in Nat /\ BlockSize > 0 /\ MaxSeq \in Nat
      /\ Len(p) > 0
  BY KvAssumption, LenProperties, EmptySeq
<1>2. PICK n \in 0 .. Len(ids[s]), k \in 0 .. Len(p) :
       LET kept    == Take(table[s], BlocksFor(n))
           bound   == [j \in 1 .. k |-> byHash[SubSeq(p, 1, n + j * BlockSize)]]
           covered == n + k * BlockSize
           hit     == IF covered = Len(p) THEN covered - 1 ELSE covered
       IN  /\ IsLcp(n, ids[s], p)
           /\ Binds(k, p, n, kept)
           /\ Retable(s, Take(kept \o bound, BlocksFor(hit)))
           /\ ids' = [ids EXCEPT ![s] = SubSeq(p, 1, hit)]
  BY DEF PromptSuffix
<1>3. PICK bound, covered, hit :
        /\ bound = [j \in 1 .. k |-> byHash[SubSeq(p, 1, n + j * BlockSize)]]
        /\ covered = n + k * BlockSize
        /\ hit = IF covered = Len(p) THEN covered - 1 ELSE covered
  OBVIOUS
<1>4. /\ IsLcp(n, ids[s], p) /\ Binds(k, p, n, Take(table[s], BlocksFor(n)))
      /\ Retable(s, Take(Take(table[s], BlocksFor(n)) \o bound, BlocksFor(hit)))
      /\ ids' = [ids EXCEPT ![s] = SubSeq(p, 1, hit)]
  BY <1>2, <1>3
<1>5. Len(ids[s]) \in Nat /\ Len(ids[s]) <= MaxSeq /\ n \in Nat /\ k \in Nat /\ n <= Len(p)
  <2>1. ids[s] \in Seq(Token)
    BY DEF TypeOK
  <2> QED BY <1>1, <1>4, <2>1, LenProperties DEF Small, IsLcp
<1>6. k * BlockSize \in Nat
  BY <1>1, <1>5
<1>7. covered \in Nat /\ covered <= Len(p) /\ covered <= MaxSeq
  <2>1. CASE k = 0
    <3>1. covered = n
      BY <1>1, <1>3, <1>5, <2>1
    <3> QED BY <1>1, <1>5, <3>1
  <2>2. CASE k > 0
    <3>1. k \in 1 .. k
      BY <1>5, <2>2
    <3>2. covered <= Len(p) /\ SubSeq(p, 1, covered) \in DOMAIN byHash
      BY <1>3, <1>4, <2>2, <3>1 DEF Binds
    <3>3. covered \in Nat
      BY <1>3, <1>5, <1>6
    <3>4. Len(SubSeq(p, 1, covered)) = covered
      <4>1. \A i \in 1 .. covered : p[i] \in Token
        BY <1>1, <3>2, <3>3, ElementOfSeq
      <4> QED BY <1>1, <3>2, <3>3, <4>1, SubSeqProperties
    <3> QED BY <3>2, <3>3, <3>4 DEF Small
  <2> QED BY <1>5, <2>1, <2>2
<1>8. hit \in Nat /\ hit <= covered /\ hit <= Len(p) /\ hit <= MaxSeq
  BY <1>1, <1>3, <1>7
<1>9. PICK new : new = Take(Take(table[s], BlocksFor(n)) \o bound, BlocksFor(hit))
  OBVIOUS
<1>10. new \in Seq(Block) /\ Len(new) <= TableMax
  <2>1. BlocksFor(hit) \in Nat /\ BlocksFor(hit) <= TableMax /\ BlocksFor(n) \in Nat
    BY <1>5, <1>8, TableMaxBounds, BlocksForCovers
  <2>2. Take(table[s], BlocksFor(n)) \in Seq(Block)
    BY <2>1, TakeProperties DEF TypeOK
  <2>3. bound \in Seq(Block)
    <3>1. \A j \in 1 .. k : SubSeq(p, 1, n + j * BlockSize) \in DOMAIN byHash
      BY <1>4 DEF Binds
    <3>2. byHash \in [DOMAIN byHash -> Block]
      BY DEF TypeOK
    <3>3. \A j \in 1 .. k : byHash[SubSeq(p, 1, n + j * BlockSize)] \in Block
      BY <3>1, <3>2
    <3>4. bound \in [1 .. k -> Block]
      BY <1>3, <3>3
    <3> QED BY <1>5, <3>4
  <2>4. PICK w \in Seq(Block) : w = Take(table[s], BlocksFor(n)) \o bound
    BY <2>2, <2>3, ConcatProperties
  <2>5. new \in Seq(Block) /\ Len(new) = IF BlocksFor(hit) < Len(w) THEN BlocksFor(hit) ELSE Len(w)
    BY <1>9, <2>1, <2>4, TakeProperties
  <2>6. Len(w) \in Nat /\ TableMax \in Nat
    BY <2>4, LenProperties, TableMaxBounds
  <2> QED BY <2>1, <2>5, <2>6
<1>11. Len(SubSeq(p, 1, hit)) = hit
  <2>1. \A i \in 1 .. hit : p[i] \in Token
    BY <1>1, <1>8, ElementOfSeq
  <2> QED BY <1>1, <1>8, <2>1, SubSeqProperties
<1>12. PICK v : v = SubSeq(p, 1, hit)
  OBVIOUS
<1>13. /\ ids' = [ids EXCEPT ![s] = v] /\ Len(v) <= MaxSeq
       /\ table' = [table EXCEPT ![s] = new] /\ UNCHANGED byHash
  BY <1>4, <1>8, <1>9, <1>11, <1>12 DEF Retable, PromptSuffix
<1>14. ids \in [Seqs -> Seq(Token)] /\ table \in [Seqs -> Seq(Block)]
  BY DEF TypeOK
<1> QED BY <1>10, <1>13, <1>14 DEF Small

LEMMA SmallNext == ASSUME KvInv, Legal, Small, [Next]_vars PROVE Small'
<1>0. /\ TypeOK /\ CallShape /\ IInv /\ ids \in [Seqs -> Seq(Token)] /\ table \in [Seqs -> Seq(Block)]
      /\ BlockSize \in Nat /\ MaxSeq \in Nat /\ TableMax \in Nat
  BY KvAssumption, TableMaxBounds DEF KvInv, IInv, Counted, TypeOK
<1>1. ASSUME UNCHANGED <<ids, table, byHash>> PROVE Small'
  BY <1>1 DEF Small
<1>2. ASSUME NEW s, NewCache(s) PROVE Small'
  <2>1. UNCHANGED <<ids, table, byHash>>
    BY <1>2 DEF NewCache, poolVars
  <2> QED BY <1>1, <2>1
<1>3. ASSUME NEW s \in Seqs, Clear(s) PROVE Small'
  <2>1. PICK e : e = <<>>
    OBVIOUS
  <2>2. table' = [table EXCEPT ![s] = e] /\ ids' = [ids EXCEPT ![s] = e] /\ UNCHANGED byHash
    BY <1>3, <2>1 DEF Clear, Retable
  <2>3. Len(e) <= MaxSeq /\ Len(e) <= TableMax
    <3>1. Len(e) = 0
      BY <2>1
    <3> QED BY <1>0, <3>1
  <2> QED BY <1>0, <2>2, <2>3 DEF Small
<1>4. ASSUME NEW what, NEW js, Start(what, js) PROVE Small'
  <2>1. UNCHANGED <<ids, table, byHash>>
    BY <1>4 DEF Start, poolVars, cacheVars
  <2> QED BY <1>1, <2>1
<1>5. ASSUME FullError \/ CapError \/ TransformerError \/ Transformer \/ Reserved \/ NextJob PROVE Small'
  <2>1. UNCHANGED <<ids, table, byHash>>
    BY <1>5 DEF FullError, CapError, TransformerError, Transformer, Reserved, NextJob,
                poolVars, cacheVars
  <2> QED BY <1>1, <2>1
<1>6. ASSUME NEW b, Alloc(b) PROVE \A q \in DOMAIN byHash' : Len(q) <= MaxSeq
  BY <1>6 DEF Alloc, Small
<1>7. ASSUME Fault PROVE Small'
  <2>1. PICK b \in Block : Alloc(b) /\ table' = [table EXCEPT ![Cur] = Append(table[Cur], b)]
    BY <1>7 DEF Fault
  <2>2. phase = "reserve" /\ pos < End(at) /\ End(at) <= MaxSeq /\ Len(table[Cur]) < Index /\ UNCHANGED ids
    BY <1>7 DEF Fault, Fits, NeedsBlock
  <2>3. /\ Cur \in Seqs /\ table[Cur] \in Seq(Block) /\ pos \in Nat /\ End(at) \in Nat
        /\ Len(table[Cur]) \in Nat
    BY <1>0, <2>2, CurrentJob, LenProperties
  <2>4. Index <= TableMax /\ Index \in Nat
    <3>1. pos < MaxSeq
      BY <1>0, <2>2, <2>3
    <3>2. PICK q \in Nat : q = pos \div BlockSize
      BY <2>3, BlockOf
    <3>3. q + 1 <= TableMax
      BY <2>3, <3>1, <3>2, TableMaxBounds
    <3> QED BY <3>2, <3>3 DEF Index
  <2>5. PICK t : t = Append(table[Cur], b)
    OBVIOUS
  <2>6. Len(t) = Len(table[Cur]) + 1
    BY <2>3, <2>5, AppendProperties
  <2>7. Len(t) <= TableMax
    BY <1>0, <2>2, <2>3, <2>4, <2>6
  <2>8. \A s \in Seqs : Len(table'[s]) <= TableMax
    BY <1>0, <2>1, <2>3, <2>5, <2>7 DEF Small
  <2> QED BY <1>6, <2>1, <2>2, <2>8 DEF Small
<1>8. ASSUME Cow PROVE Small'
  <2>1. PICK b \in Block : Alloc(b) /\ table' = [table EXCEPT ![Cur] = [table[Cur] EXCEPT ![Index] = b]]
    BY <1>8 DEF Cow
  <2>2. phase = "reserve" /\ UNCHANGED ids
    BY <1>8 DEF Cow
  <2>3. Cur \in Seqs /\ table[Cur] \in Seq(Block)
    BY <1>0, <2>2, CurrentJob
  <2>4. PICK t : t = [table[Cur] EXCEPT ![Index] = b]
    OBVIOUS
  <2>5. Len(t) = Len(table[Cur])
    BY <2>3, <2>4, ExceptSeq
  <2>6. \A s \in Seqs : Len(table'[s]) <= TableMax
    BY <1>0, <2>1, <2>3, <2>4, <2>5 DEF Small
  <2> QED BY <1>6, <2>1, <2>2, <2>6 DEF Small
<1>9. ASSUME Commit PROVE Small'
  <2>1. PICK t : t = ids[Cur] \o jobs[at].toks
    OBVIOUS
  <2>2. /\ phase = "commit" /\ ids' = [ids EXCEPT ![Cur] = t] /\ InternFull(Cur, t) /\ UNCHANGED table
    BY <1>9, <2>1 DEF Commit
  <2>3. /\ at \in 1 .. Len(jobs) /\ Len(jobs) \in Nat /\ Cur \in Seqs
        /\ jobs[at].toks \in Seq(Token) /\ jobs[at].seq \in Seqs
    BY <1>0, <2>2, CurrentJob
  <2>4. t \in Seq(Token) /\ Len(t) \in Nat /\ Len(t) <= MaxSeq
    <3>1. ids[Cur] \in Seq(Token)
      BY <1>0, <2>3
    <3>2. t \in Seq(Token) /\ Len(t) = Len(ids[Cur]) + Len(jobs[at].toks)
      BY <2>1, <2>3, <3>1, ConcatProperties
    <3>3. at \in at .. Len(jobs)
      BY <2>3
    <3>4. Len(t) = End(at) /\ End(at) <= MaxSeq
      BY <2>2, <3>2, <3>3 DEF End, Cur, Legal
    <3> QED BY <3>2, <3>4, LenProperties
  <2>5. ASSUME NEW j \in NewPrefixes(t) PROVE Len(SubSeq(t, 1, j * BlockSize)) <= MaxSeq
    <3>1. j \in 1 .. Len(t) \div BlockSize
      BY DEF NewPrefixes
    <3>2. j * BlockSize \in Nat /\ j * BlockSize <= Len(t)
      BY <2>4, <3>1, PrefixBlocks
    <3>3. \A i \in 1 .. j * BlockSize : t[i] \in Token
      BY <2>4, <3>2, ElementOfSeq
    <3>4. Len(SubSeq(t, 1, j * BlockSize)) = j * BlockSize
      BY <2>4, <3>2, <3>3, SubSeqProperties
    <3>5. PICK x \in Nat : x = j * BlockSize
      BY <3>2
    <3> QED BY <1>0, <2>4, <3>2, <3>4, <3>5
  <2>6. \A q \in DOMAIN byHash' : Len(q) <= MaxSeq
    BY <2>2, <2>5 DEF InternFull, Small
  <2> QED BY <1>0, <2>2, <2>3, <2>4, <2>6 DEF Small
<1>10. ASSUME UNCHANGED vars PROVE Small'
  <2>1. UNCHANGED <<ids, table, byHash>>
    BY <1>10 DEF vars, poolVars, cacheVars
  <2> QED BY <1>1, <2>1
<1> QED BY <1>0, <1>2, <1>3, <1>4, <1>5, <1>7, <1>8, <1>9, <1>10, PromptSuffixSmall
        DEF Next, CallStep, Preempt, DropCache, StartPrepare, StartPrefill

=============================================================================
