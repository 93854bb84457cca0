---------------------------- MODULE KvPoolProofs ----------------------------
(***************************************************************************)
(* For every pool size, block size, number of caches and prompt: the types  *)
(* of KvPool hold, every block's reference count is exact, and every        *)
(* position a cache or a running call relies on is covered by its table.    *)
(*                                                                         *)
(* The inductive invariant is IInv.  RefsExact alone is not inductive: that *)
(* a release never underflows needs the types, that intern_full counts      *)
(* existing blocks needs Covered, and the counts are only meaningful for    *)
(* finite sets of references.                                               *)
(***************************************************************************)
EXTENDS KvPool, FiniteSetTheorems, FunctionTheorems, SequenceTheorems, TLAPS

-----------------------------------------------------------------------------
(* Arithmetic of blocks. *)

(* A position lies within the block it is mapped to. *)
LEMMA BlockOf ==
  ASSUME NEW n \in Nat
  PROVE  /\ n \div BlockSize \in Nat /\ n % BlockSize \in Offset
         /\ n = (n \div BlockSize) * BlockSize + (n % BlockSize)
  BY KvAssumption DEF Offset

(* What fits below L blocks has its block number below L. *)
LEMMA BlockBelow ==
  ASSUME NEW n \in Nat, NEW L \in Nat
  PROVE  /\ n < L * BlockSize => n \div BlockSize + 1 <= L
         /\ n \div BlockSize + 1 <= L => n + 1 <= L * BlockSize
         /\ n <= L * BlockSize => n \div BlockSize <= L
<1> DEFINE q == n \div BlockSize
           r == n % BlockSize
<1>1. q \in Nat /\ r \in 0 .. BlockSize - 1 /\ n = q * BlockSize + r
  BY BlockOf, KvAssumption DEF Offset
<1>2. ASSUME NEW i \in Nat, NEW j \in Nat, i <= j PROVE i * BlockSize <= j * BlockSize
  BY <1>2, KvAssumption
<1> HIDE DEF q, r
<1>3. n < L * BlockSize => q + 1 <= L
  <2>1. SUFFICES ASSUME L <= q PROVE L * BlockSize <= n
    BY <1>1, KvAssumption
  <2> QED BY <1>1, <1>2, <2>1, KvAssumption
<1>4. q + 1 <= L => n + 1 <= L * BlockSize
  <2>1. SUFFICES ASSUME q + 1 <= L PROVE n + 1 <= L * BlockSize
    OBVIOUS
  <2>2. (q + 1) * BlockSize <= L * BlockSize
    BY <1>1, <1>2, <2>1
  <2>3. (q + 1) * BlockSize = q * BlockSize + BlockSize
    BY <1>1, KvAssumption
  <2> QED BY <1>1, <2>2, <2>3, KvAssumption
<1>5. n <= L * BlockSize => q <= L
  <2>1. SUFFICES ASSUME L + 1 <= q PROVE L * BlockSize < n
    BY <1>1, KvAssumption
  <2>2. (L + 1) * BlockSize <= q * BlockSize
    BY <1>1, <1>2, <2>1
  <2>3. (L + 1) * BlockSize = L * BlockSize + BlockSize
    BY KvAssumption
  <2> QED BY <1>1, <2>2, <2>3, KvAssumption
<1> QED BY <1>3, <1>4, <1>5 DEF q

(* BlocksFor(n) blocks hold n positions. *)
LEMMA BlocksForCovers ==
  ASSUME NEW n \in Nat
  PROVE  BlocksFor(n) \in Nat /\ n <= BlocksFor(n) * BlockSize
<1> DEFINE m == n + BlockSize - 1
           q == m \div BlockSize
           r == m % BlockSize
<1>1. m \in Nat
  BY KvAssumption
<1>2. q \in Nat /\ r \in 0 .. BlockSize - 1 /\ m = q * BlockSize + r
  BY <1>1, BlockOf, KvAssumption DEF Offset
<1> HIDE DEF q, r
<1>3. n <= q * BlockSize
  BY <1>2, KvAssumption
<1> QED BY <1>2, <1>3 DEF BlocksFor, q

-----------------------------------------------------------------------------
(* Counting references. *)

(* A table names a block finitely often. *)
LEMMA OccFinite ==
  ASSUME NEW t \in Seq(Block), NEW b
  PROVE  /\ IsFiniteSet(Occ(t, b)) /\ Cardinality(Occ(t, b)) \in Nat
         /\ Occ(t, b) \subseteq 1 .. Len(t)
<1>1. IsFiniteSet(1 .. Len(t))
  BY FS_Interval
<1>2. Occ(t, b) \subseteq 1 .. Len(t)
  BY DEF Occ
<1> QED BY <1>1, <1>2, FS_Subset, FS_CardinalityType

(* One cache's references to a block number as many as its table entries. *)
LEMMA ColumnCount ==
  ASSUME NEW s, NEW S, IsFiniteSet(S)
  PROVE  IsFiniteSet({s} \X S) /\ Cardinality({s} \X S) = Cardinality(S)
<1>1. IsFiniteSet({s}) /\ Cardinality({s}) = 1
  BY FS_Singleton
<1>2. Cardinality({s} \X S) = 1 * Cardinality(S) /\ IsFiniteSet({s} \X S)
  BY <1>1, FS_Product
<1>3. Cardinality(S) \in Nat
  BY FS_CardinalityType
<1> QED BY <1>2, <1>3

(* T is the finite set S with its part A replaced by B, disjoint from the rest. *)
Replaced(S, A, B, T) ==
  /\ IsFiniteSet(S) /\ A \subseteq S
  /\ IsFiniteSet(B) /\ B \cap (S \ A) = {}
  /\ T = (S \ A) \cup B

(* Such a set is finite, and its size changes by what goes and what comes. *)
LEMMA Recount ==
  ASSUME NEW S, NEW A, NEW B, NEW T, Replaced(S, A, B, T)
  PROVE  /\ IsFiniteSet(T)
         /\ Cardinality(T) = Cardinality(S) - Cardinality(A) + Cardinality(B)
         /\ Cardinality(A) <= Cardinality(S)
<1>1. /\ IsFiniteSet(S) /\ A \subseteq S /\ IsFiniteSet(B)
      /\ B \cap (S \ A) = {} /\ T = (S \ A) \cup B
  BY DEF Replaced
<1>2. IsFiniteSet(A) /\ Cardinality(A) <= Cardinality(S)
  BY <1>1, FS_Subset
<1> DEFINE R == S \ A
<1>3. IsFiniteSet(R) /\ Cardinality(R) = Cardinality(S) - Cardinality(A)
  <2>1. S \cap A = A
    BY <1>1
  <2>2. /\ IsFiniteSet(S \ A)
        /\ Cardinality(S \ A) = Cardinality(S) - Cardinality(S \cap A)
    BY <1>1, FS_Difference
  <2> QED BY ONLY <2>1, <2>2
<1>4. Cardinality(R \cap B) = 0
  <2>1. R \cap B = {}
    BY <1>1
  <2> QED BY <2>1, FS_EmptySet
<1> HIDE DEF R
<1>5. /\ IsFiniteSet(R \cup B)
      /\ Cardinality(R \cup B) = Cardinality(R) + Cardinality(B) - Cardinality(R \cap B)
  BY <1>1, <1>3, FS_Union
<1>6. /\ Cardinality(S) \in Nat /\ Cardinality(A) \in Nat
      /\ Cardinality(B) \in Nat
  BY <1>1, <1>2, FS_CardinalityType
<1>7. T = R \cup B
  BY <1>1 DEF R
<1> QED BY <1>2, <1>3, <1>4, <1>5, <1>6, <1>7

(* Giving cache s the table t changes the references to a block by exactly the
   entries dropped and gained. *)
LEMMA TableRefsChange ==
  ASSUME NEW s \in Seqs, NEW t \in Seq(Block), table \in [Seqs -> Seq(Block)],
         table' = [table EXCEPT ![s] = t], NEW b, IsFiniteSet(TableRefs(b))
  PROVE  /\ IsFiniteSet(TableRefs(b)')
         /\ Cardinality(TableRefs(b)')
              = Cardinality(TableRefs(b)) - Cardinality(Occ(table[s], b))
                + Cardinality(Occ(t, b))
         /\ Cardinality(Occ(table[s], b)) <= Cardinality(TableRefs(b))
<1> DEFINE A == {s} \X Occ(table[s], b)
           B == {s} \X Occ(t, b)
<1>1. TableRefs(b)' = (TableRefs(b) \ A) \cup B
  BY DEF TableRefs
<1>2. A \subseteq TableRefs(b)
  BY DEF TableRefs
<1>3. B \cap (TableRefs(b) \ A) = {}
  BY DEF TableRefs
<1>4. /\ IsFiniteSet(A) /\ Cardinality(A) = Cardinality(Occ(table[s], b))
      /\ IsFiniteSet(B) /\ Cardinality(B) = Cardinality(Occ(t, b))
  BY OccFinite, ColumnCount
<1>5. Replaced(TableRefs(b), A, B, TableRefs(b)')
  BY <1>1, <1>2, <1>3, <1>4 DEF Replaced
<1> HIDE DEF A, B
<1>6. /\ IsFiniteSet(TableRefs(b)')
      /\ Cardinality(TableRefs(b)')
           = Cardinality(TableRefs(b)) - Cardinality(A) + Cardinality(B)
      /\ Cardinality(A) <= Cardinality(TableRefs(b))
  BY <1>5, Recount
<1> QED BY <1>4, <1>6

-----------------------------------------------------------------------------
(* The inductive invariant. *)

RefsFinite == \A b \in Block : IsFiniteSet(TableRefs(b))

(* A running call works on one of its jobs, and names each cache once. *)
CallShape ==
  phase # "idle" =>
    /\ at \in DOMAIN jobs
    /\ \A i, j \in DOMAIN jobs : jobs[i].seq = jobs[j].seq => i = j

Counted == TypeOK /\ RefsFinite /\ RefsExact

IInv == Counted /\ Covered /\ CallShape

-----------------------------------------------------------------------------
(* The three ways the counts change in a reservation or a rebind. *)

(* The interned names of a block are finitely many. *)
LEMMA HashRefsFinite ==
  ASSUME TypeOK, NEW b
  PROVE  IsFiniteSet(HashRefs(b)) /\ Cardinality(HashRefs(b)) \in Nat
<1>1. HashRefs(b) \in SUBSET DOMAIN byHash
  BY DEF HashRefs
<1>2. IsFiniteSet(DOMAIN byHash)
  BY DEF TypeOK
<1> QED BY <1>1, <1>2, FS_Subset, FS_CardinalityType

(* retain and release of a rebind keep every count exact. *)
LEMMA RetableCounts ==
  ASSUME Counted, NEW s \in Seqs, NEW t \in Seq(Block), Retable(s, t),
         UNCHANGED byHash
  PROVE  /\ refs' \in [Block -> Nat]
         /\ table' \in [Seqs -> Seq(Block)]
         /\ content' \in [Block -> [Offset -> Seq(Token) \cup {Garbage}]]
         /\ RefsFinite' /\ RefsExact'
<1> USE DEF Counted
<1>1. table' = [table EXCEPT ![s] = t] /\ table \in [Seqs -> Seq(Block)]
  BY DEF Retable, TypeOK
<1>2. ASSUME NEW b \in Block
      PROVE  /\ refs'[b] \in Nat
             /\ IsFiniteSet(TableRefs(b)')
             /\ refs'[b] = Cardinality(TableRefs(b)') + Cardinality(HashRefs(b)')
  <2>1. /\ IsFiniteSet(TableRefs(b)')
        /\ Cardinality(TableRefs(b)')
              = Cardinality(TableRefs(b)) - Cardinality(Occ(table[s], b))
                + Cardinality(Occ(t, b))
        /\ Cardinality(Occ(table[s], b)) <= Cardinality(TableRefs(b))
    BY <1>1, TableRefsChange DEF RefsFinite
  <2>2. /\ Cardinality(Occ(table[s], b)) \in Nat
        /\ Cardinality(Occ(t, b)) \in Nat
    BY <1>1, OccFinite
  <2>3. Cardinality(TableRefs(b)) \in Nat /\ Cardinality(HashRefs(b)) \in Nat
    BY HashRefsFinite, FS_CardinalityType DEF RefsFinite
  <2>4. HashRefs(b)' = HashRefs(b)
    BY DEF HashRefs
  <2>5. refs'[b] = refs[b] - Cardinality(Occ(table[s], b)) + Cardinality(Occ(t, b))
    BY DEF Retable
  <2>6. refs[b] = Cardinality(TableRefs(b)) + Cardinality(HashRefs(b))
    BY DEF RefsExact
  <2> QED BY <2>1, <2>2, <2>3, <2>4, <2>5, <2>6
<1>3. refs' \in [Block -> Nat]
  <2>1. refs' = [b \in Block |-> refs'[b]]
    BY DEF Retable
  <2> QED BY <1>2, <2>1
<1>4. content' \in [Block -> [Offset -> Seq(Token) \cup {Garbage}]]
  <2>1. Stale \in [Offset -> Seq(Token) \cup {Garbage}]
    BY DEF Stale
  <2> QED BY <2>1 DEF Retable, TypeOK
<1>5. RefsFinite' /\ RefsExact'
  BY <1>2 DEF RefsFinite, RefsExact
<1> QED BY <1>1, <1>3, <1>4, <1>5

(* The block the allocator hands out is named by no table and, from now on, by
   no intern entry; the other blocks keep their names. *)
LEMMA AllocUnnamed ==
  ASSUME Counted, NEW b \in Block, Alloc(b)
  PROVE  /\ TableRefs(b) = {} /\ HashRefs(b)' = {}
         /\ refs[b] <= 1
         /\ \A c \in Block \ {b} : HashRefs(c)' = HashRefs(c)
         /\ DOMAIN byHash' \subseteq DOMAIN byHash
         /\ IsFiniteSet(DOMAIN byHash')
         /\ byHash' \in [DOMAIN byHash' -> Block]
<1> USE DEF Counted
<1>1. /\ IsFiniteSet(TableRefs(b)) /\ Cardinality(TableRefs(b)) \in Nat
      /\ IsFiniteSet(HashRefs(b)) /\ Cardinality(HashRefs(b)) \in Nat
      /\ refs[b] = Cardinality(TableRefs(b)) + Cardinality(HashRefs(b))
  BY HashRefsFinite, FS_CardinalityType DEF RefsFinite, RefsExact
<1>2. byHash \in [DOMAIN byHash -> Block] /\ IsFiniteSet(DOMAIN byHash)
  BY DEF TypeOK
<1>3. CASE b \in Free /\ UNCHANGED byHash
  <2>1. Cardinality(TableRefs(b)) = 0 /\ Cardinality(HashRefs(b)) = 0
    BY <1>1, <1>3 DEF Free
  <2>2. TableRefs(b) = {} /\ HashRefs(b) = {}
    BY <1>1, <2>1, FS_EmptySet
  <2>3. \A c \in Block : HashRefs(c)' = HashRefs(c)
    BY <1>3 DEF HashRefs
  <2> QED BY <1>2, <1>3, <2>2, <2>3 DEF Free
<1>4. ASSUME NEW p \in Evictable, b = byHash[p],
             byHash' = [q \in DOMAIN byHash \ {p} |-> byHash[q]]
      PROVE  /\ TableRefs(b) = {} /\ HashRefs(b)' = {}
             /\ refs[b] <= 1
             /\ \A c \in Block \ {b} : HashRefs(c)' = HashRefs(c)
             /\ DOMAIN byHash' \subseteq DOMAIN byHash
             /\ IsFiniteSet(DOMAIN byHash')
             /\ byHash' \in [DOMAIN byHash' -> Block]
  <2>1. p \in HashRefs(b) /\ refs[b] = 1 /\ p \in DOMAIN byHash
    BY <1>4 DEF Evictable, HashRefs
  <2>2. Cardinality(HashRefs(b)) # 0
    BY <1>1, <2>1, FS_EmptySet
  <2>3. Cardinality(HashRefs(b)) = 1 /\ Cardinality(TableRefs(b)) = 0
    BY <1>1, <2>1, <2>2
  <2>4. TableRefs(b) = {} /\ HashRefs(b) = {p}
    <3>1. TableRefs(b) = {}
      BY <1>1, <2>3, FS_EmptySet
    <3>2. PICK x : HashRefs(b) = {x}
      BY <1>1, <2>3, FS_Singleton
    <3> QED BY <2>1, <3>1, <3>2
  <2>5. DOMAIN byHash' = DOMAIN byHash \ {p} /\ IsFiniteSet(DOMAIN byHash \ {p})
    BY <1>2, <1>4, FS_RemoveElement
  <2>6. HashRefs(b)' = {}
    BY <1>4, <2>4, <2>5 DEF HashRefs
  <2>7. \A c \in Block \ {b} : HashRefs(c)' = HashRefs(c)
    BY <1>4, <2>5 DEF HashRefs
  <2>8. byHash' \in [DOMAIN byHash' -> Block]
    BY <1>2, <1>4, <2>5
  <2> QED BY <2>1, <2>4, <2>5, <2>6, <2>7, <2>8
<1> QED BY <1>3, <1>4 DEF Alloc

(* ensure_write that extends a table keeps every count exact. *)
LEMMA FaultCounts ==
  ASSUME Counted, NEW s \in Seqs, NEW b \in Block, Alloc(b),
         refs' = [refs EXCEPT ![b] = 1],
         table' = [table EXCEPT ![s] = Append(@, b)]
  PROVE  RefsFinite' /\ RefsExact'
<1> USE DEF Counted
<1> DEFINE t == Append(table[s], b)
<1>1. /\ table \in [Seqs -> Seq(Block)] /\ table[s] \in Seq(Block)
      /\ refs \in [Block -> Nat]
  BY DEF TypeOK
<1>2. t \in Seq(Block) /\ table' = [table EXCEPT ![s] = t]
  BY <1>1, AppendProperties
<1>3. Occ(t, b) = Occ(table[s], b) \cup {Len(table[s]) + 1}
  BY <1>1, AppendProperties DEF Occ
<1>4. ASSUME NEW c \in Block \ {b} PROVE Occ(t, c) = Occ(table[s], c)
  BY <1>1, AppendProperties DEF Occ
<1> HIDE DEF t
<1>5. ASSUME NEW c \in Block
      PROVE  /\ IsFiniteSet(TableRefs(c)') /\ IsFiniteSet(TableRefs(c))
             /\ Cardinality(TableRefs(c)')
                  = Cardinality(TableRefs(c)) - Cardinality(Occ(table[s], c))
                    + Cardinality(Occ(t, c))
             /\ Cardinality(Occ(table[s], c)) <= Cardinality(TableRefs(c))
  BY <1>1, <1>2, TableRefsChange DEF RefsFinite
<1>6. IsFiniteSet(TableRefs(b)') /\ refs'[b] = Cardinality(TableRefs(b)') + Cardinality(HashRefs(b)')
  <2>1. TableRefs(b) = {} /\ HashRefs(b)' = {}
    BY AllocUnnamed
  <2>2. Cardinality(TableRefs(b)) = 0 /\ Cardinality(HashRefs(b)') = 0
    BY <2>1, FS_EmptySet
  <2>3. /\ IsFiniteSet(Occ(table[s], b)) /\ Cardinality(Occ(table[s], b)) \in Nat
        /\ Occ(table[s], b) \subseteq 1 .. Len(table[s])
    BY <1>1, OccFinite
  <2>4. Cardinality(Occ(table[s], b)) = 0
    BY <1>5, <2>2, <2>3
  <2>5. Cardinality(Occ(t, b)) = 1
    <3>1. Len(table[s]) + 1 \notin Occ(table[s], b)
      BY <1>1, <2>3
    <3>2. Cardinality(Occ(table[s], b) \cup {Len(table[s]) + 1})
            = Cardinality(Occ(table[s], b)) + 1
      BY <2>3, <3>1, FS_AddElement
    <3> QED BY <1>3, <2>4, <3>2
  <2> QED BY <1>1, <1>5, <2>2, <2>4, <2>5
<1>7. ASSUME NEW c \in Block, c # b
      PROVE  IsFiniteSet(TableRefs(c)') /\ refs'[c] = Cardinality(TableRefs(c)') + Cardinality(HashRefs(c)')
  <2>1. HashRefs(c)' = HashRefs(c)
    BY <1>7, AllocUnnamed
  <2>2. Cardinality(Occ(table[s], c)) \in Nat
    BY <1>1, OccFinite
  <2>3. Cardinality(TableRefs(c)) \in Nat
    BY <1>5, FS_CardinalityType
  <2>4. Cardinality(TableRefs(c)') = Cardinality(TableRefs(c))
    BY <1>4, <1>5, <1>7, <2>2, <2>3
  <2> QED BY <1>1, <1>5, <1>7, <2>1, <2>4 DEF RefsExact
<1> QED BY <1>6, <1>7 DEF RefsFinite, RefsExact

(* ensure_write that copies a shared block keeps every count exact. *)
LEMMA CowCounts ==
  ASSUME Counted, NEW s \in Seqs, NEW b \in Block, Alloc(b),
         NEW i \in DOMAIN table[s], NEW old \in Block, old = table[s][i], refs[old] > 1,
         refs' = [refs EXCEPT ![b] = 1, ![old] = @ - 1],
         table' = [table EXCEPT ![s] = [@ EXCEPT ![i] = b]]
  PROVE  RefsFinite' /\ RefsExact'
<1> USE DEF Counted
<1> DEFINE t == [table[s] EXCEPT ![i] = b]
<1>1. /\ table \in [Seqs -> Seq(Block)] /\ table[s] \in Seq(Block)
      /\ refs \in [Block -> Nat]
  BY DEF TypeOK
<1>2. t \in Seq(Block) /\ table' = [table EXCEPT ![s] = t]
  BY <1>1, ExceptSeq
<1>3. b # old /\ TableRefs(b) = {} /\ HashRefs(b)' = {}
  BY <1>1, AllocUnnamed
<1>4. DOMAIN t = DOMAIN table[s] /\ t[i] = b
  BY <1>1
<1>5. /\ Occ(t, b) = Occ(table[s], b) \cup {i}
      /\ Occ(t, old) = Occ(table[s], old) \ {i}
      /\ i \in Occ(table[s], old) /\ i \notin Occ(table[s], b)
  BY <1>1, <1>3, <1>4 DEF Occ
<1>6. ASSUME NEW c \in Block \ {b, old} PROVE Occ(t, c) = Occ(table[s], c)
  BY <1>1, <1>4 DEF Occ
<1>7. refs' = [refs EXCEPT ![b] = 1, ![old] = refs[old] - 1]
  BY <1>1, <1>3
<1> HIDE DEF t
<1>8. ASSUME NEW c \in Block
      PROVE  /\ IsFiniteSet(TableRefs(c)') /\ IsFiniteSet(TableRefs(c))
             /\ Cardinality(TableRefs(c)')
                  = Cardinality(TableRefs(c)) - Cardinality(Occ(table[s], c))
                    + Cardinality(Occ(t, c))
             /\ Cardinality(Occ(table[s], c)) <= Cardinality(TableRefs(c))
             /\ Cardinality(TableRefs(c)) \in Nat
             /\ IsFiniteSet(Occ(table[s], c)) /\ Cardinality(Occ(table[s], c)) \in Nat
             /\ refs[c] = Cardinality(TableRefs(c)) + Cardinality(HashRefs(c))
             /\ Cardinality(HashRefs(c)) \in Nat
  <2>1. IsFiniteSet(TableRefs(c)) /\ refs[c] = Cardinality(TableRefs(c)) + Cardinality(HashRefs(c))
    BY DEF RefsFinite, RefsExact
  <2>2. Cardinality(TableRefs(c)) \in Nat /\ Cardinality(HashRefs(c)) \in Nat
    BY <2>1, FS_CardinalityType, HashRefsFinite
  <2>3. IsFiniteSet(Occ(table[s], c)) /\ Cardinality(Occ(table[s], c)) \in Nat
    BY <1>1, OccFinite
  <2>4. /\ IsFiniteSet(TableRefs(c)')
        /\ Cardinality(TableRefs(c)')
             = Cardinality(TableRefs(c)) - Cardinality(Occ(table[s], c))
               + Cardinality(Occ(t, c))
        /\ Cardinality(Occ(table[s], c)) <= Cardinality(TableRefs(c))
    BY <1>1, <1>2, <2>1, TableRefsChange
  <2> QED BY <2>1, <2>2, <2>3, <2>4
<1>9. refs'[b] = Cardinality(TableRefs(b)') + Cardinality(HashRefs(b)')
  <2>1. Cardinality(TableRefs(b)) = 0 /\ Cardinality(HashRefs(b)') = 0
    BY <1>3, FS_EmptySet
  <2>2. Cardinality(Occ(table[s], b)) = 0
    BY <1>8, <2>1
  <2>3. Cardinality(Occ(table[s], b) \cup {i}) = Cardinality(Occ(table[s], b)) + 1
    BY <1>5, <1>8, FS_AddElement
  <2>4. Cardinality(Occ(t, b)) = 1
    BY <1>5, <2>2, <2>3
  <2>5. refs'[b] = 1
    BY <1>1, <1>3, <1>7
  <2> QED BY <1>8, <2>1, <2>2, <2>4, <2>5
<1>10. refs'[old] = Cardinality(TableRefs(old)') + Cardinality(HashRefs(old)')
  <2>1. Cardinality(Occ(table[s], old) \ {i}) = Cardinality(Occ(table[s], old)) - 1
    BY <1>5, <1>8, FS_RemoveElement
  <2>2. HashRefs(old)' = HashRefs(old)
    BY <1>1, <1>3, AllocUnnamed
  <2>3. refs'[old] = refs[old] - 1
    BY <1>1, <1>3, <1>7
  <2>4. Cardinality(Occ(t, old)) = Cardinality(Occ(table[s], old)) - 1
    BY <1>5, <2>1
  <2> QED BY <1>8, <2>2, <2>3, <2>4
<1>11. ASSUME NEW c \in Block \ {b, old}
       PROVE  refs'[c] = Cardinality(TableRefs(c)') + Cardinality(HashRefs(c)')
  <2>1. HashRefs(c)' = HashRefs(c)
    BY AllocUnnamed
  <2>2. Cardinality(Occ(t, c)) = Cardinality(Occ(table[s], c))
    BY <1>6
  <2>3. refs'[c] = refs[c]
    BY <1>1, <1>7
  <2> QED BY <1>8, <2>1, <2>2, <2>3
<1> QED BY <1>8, <1>9, <1>10, <1>11 DEF RefsFinite, RefsExact

-----------------------------------------------------------------------------
(* Initial states, and actions that leave the tables alone. *)

LEMMA CountsKept ==
  ASSUME RefsFinite, RefsExact, UNCHANGED <<refs, byHash, table>>
  PROVE  RefsFinite' /\ RefsExact'
<1>1. ASSUME NEW b \in Block
      PROVE  TableRefs(b)' = TableRefs(b) /\ HashRefs(b)' = HashRefs(b)
  BY DEF TableRefs, HashRefs
<1> QED BY <1>1 DEF RefsFinite, RefsExact

LEMMA InitInv == Init => IInv
<1> SUFFICES ASSUME Init PROVE IInv
  OBVIOUS
<1>1. DOMAIN byHash = {} /\ IsFiniteSet({}) /\ Cardinality({}) = 0
  BY FS_EmptySet DEF Init
<1>2. TypeOK
  <2>1. Stale \in [Offset -> Seq(Token) \cup {Garbage}]
    BY DEF Stale
  <2>2. byHash \in [DOMAIN byHash -> Block] /\ DOMAIN byHash \subseteq Seq(Token)
    BY <1>1 DEF Init
  <2> QED BY <1>1, <2>1, <2>2 DEF Init, TypeOK, Outcome
<1>3. ASSUME NEW b \in Block PROVE TableRefs(b) = {} /\ HashRefs(b) = {}
  BY <1>1 DEF Init, TableRefs, HashRefs, Occ
<1>4. RefsFinite /\ RefsExact
  <2>1. ASSUME NEW b \in Block
        PROVE  /\ IsFiniteSet(TableRefs(b))
               /\ refs[b] = 0 /\ Cardinality(TableRefs(b)) = 0 /\ Cardinality(HashRefs(b)) = 0
    BY <1>1, <1>3 DEF Init
  <2> QED BY <2>1 DEF RefsFinite, RefsExact
<1>5. Covered /\ CallShape
  BY KvAssumption DEF Covered, CallShape, Init
<1> QED BY <1>2, <1>4, <1>5 DEF IInv, Counted

LEMMA NewCacheInv ==
  ASSUME IInv, NEW s \in Seqs, NewCache(s) PROVE IInv'
<1> USE DEF IInv, Counted, NewCache, poolVars, callVars
<1>1. RefsFinite' /\ RefsExact'
  BY CountsKept
<1>2. TypeOK'
  BY DEF TypeOK, Outcome
<1>3. Covered' /\ CallShape'
  BY DEF Covered, CallShape
<1> QED BY <1>1, <1>2, <1>3

LEMMA ClearInv ==
  ASSUME IInv, NEW s \in Seqs, Clear(s), live' \subseteq Seqs PROVE IInv'
<1> USE DEF IInv, Counted, Clear, callVars
<1>1. <<>> \in Seq(Block) /\ <<>> \in Seq(Token) /\ Len(<<>>) = 0
  OBVIOUS
<1>2. /\ refs' \in [Block -> Nat] /\ table' \in [Seqs -> Seq(Block)]
      /\ content' \in [Block -> [Offset -> Seq(Token) \cup {Garbage}]]
      /\ RefsFinite' /\ RefsExact'
  BY <1>1, RetableCounts
<1>3. TypeOK'
  BY <1>1, <1>2 DEF TypeOK, Outcome
<1>4. /\ ids' = [ids EXCEPT ![s] = <<>>] /\ table' = [table EXCEPT ![s] = <<>>]
      /\ ids \in [Seqs -> Seq(Token)] /\ table \in [Seqs -> Seq(Block)]
  BY DEF Retable, TypeOK
<1>5. Covered'
  <2>1. \A r \in Seqs : Len(ids'[r]) <= Len(table'[r]) * BlockSize
    BY <1>1, <1>4, KvAssumption DEF Covered
  <2> QED BY <2>1 DEF Covered
<1>6. CallShape'
  BY DEF CallShape
<1> QED BY <1>2, <1>3, <1>5, <1>6

-----------------------------------------------------------------------------
(* prompt_suffix. *)

LEMMA TakeProperties ==
  ASSUME NEW S, NEW t \in Seq(S), NEW n \in Nat
  PROVE  /\ Take(t, n) \in Seq(S)
         /\ Len(Take(t, n)) = IF n < Len(t) THEN n ELSE Len(t)
<1> DEFINE m == IF n < Len(t) THEN n ELSE Len(t)
<1>1. m \in Nat /\ m <= Len(t) /\ \A i \in 1 .. m : t[i] \in S
  BY ElementOfSeq
<1>2. SubSeq(t, 1, m) \in Seq(S) /\ Len(SubSeq(t, 1, m)) = m
  BY <1>1, SubSeqProperties
<1> QED BY <1>2 DEF Take

(* A rebind to the first h tokens of prompt p, of which n were kept and k blocks
   bound: the new table is a table and covers the h positions. *)
LEMMA RebindCovers ==
  ASSUME TypeOK, Covered, NEW s \in Seqs, NEW p \in Seq(Token),
         NEW n \in 0 .. Len(ids[s]), NEW k \in 0 .. Len(p),
         Binds(k, p, n, Take(table[s], BlocksFor(n))),
         NEW h \in Nat, h <= n + k * BlockSize
  PROVE  LET kept  == Take(table[s], BlocksFor(n))
             bound == [j \in 1 .. k |-> byHash[SubSeq(p, 1, n + j * BlockSize)]]
             new   == Take(kept \o bound, BlocksFor(h))
         IN  /\ new \in Seq(Block)
             /\ h <= Len(new) * BlockSize
             /\ k > 0 => n + k * BlockSize <= Len(p)
<1> DEFINE kept  == Take(table[s], BlocksFor(n))
           bound == [j \in 1 .. k |-> byHash[SubSeq(p, 1, n + j * BlockSize)]]
           new   == Take(kept \o bound, BlocksFor(h))
<1>1. /\ table[s] \in Seq(Block) /\ ids[s] \in Seq(Token)
      /\ Len(table[s]) \in Nat /\ Len(ids[s]) \in Nat /\ n \in Nat /\ k \in Nat
      /\ Len(ids[s]) <= Len(table[s]) * BlockSize
      /\ BlockSize \in Nat /\ BlockSize > 0
  <2>1. /\ table[s] \in Seq(Block) /\ ids[s] \in Seq(Token)
        /\ Len(ids[s]) <= Len(table[s]) * BlockSize
    BY DEF TypeOK, Covered
  <2>2. BlockSize \in Nat /\ BlockSize > 0
    BY KvAssumption
  <2>3. Len(table[s]) \in Nat /\ Len(ids[s]) \in Nat /\ Len(p) \in Nat
    BY <2>1, LenProperties
  <2> QED BY <2>1, <2>2, <2>3
<1>2. /\ BlocksFor(n) \in Nat /\ n <= BlocksFor(n) * BlockSize
      /\ BlocksFor(h) \in Nat /\ h <= BlocksFor(h) * BlockSize
  BY <1>1, BlocksForCovers
<1>3. kept \in Seq(Block) /\ Len(kept) \in Nat /\ n <= Len(kept) * BlockSize
  <2>1. /\ kept \in Seq(Block)
        /\ Len(kept) = IF BlocksFor(n) < Len(table[s]) THEN BlocksFor(n) ELSE Len(table[s])
    BY <1>1, <1>2, TakeProperties
  <2> HIDE DEF kept
  <2> QED BY <1>1, <1>2, <2>1
<1>4. \A j \in 1 .. k : /\ n + j * BlockSize <= Len(p)
                        /\ SubSeq(p, 1, n + j * BlockSize) \in DOMAIN byHash
  BY <1>1 DEF Binds
<1>5. bound \in Seq(Block) /\ Len(bound) = k
  <2>1. byHash \in [DOMAIN byHash -> Block]
    BY DEF TypeOK
  <2>2. \A j \in 1 .. k : byHash[SubSeq(p, 1, n + j * BlockSize)] \in Block
    <3>1. TAKE j \in 1 .. k
    <3>2. SubSeq(p, 1, n + j * BlockSize) \in DOMAIN byHash
      BY <1>4
    <3> QED BY <2>1, <3>2
  <2>3. bound \in [1 .. k -> Block]
    BY ONLY <2>2
  <2> HIDE DEF bound
  <2> QED BY <1>1, <2>3
<1>6. k > 0 => n = Len(kept) * BlockSize
  <2>1. SUFFICES ASSUME k > 0 PROVE n = Len(kept) * BlockSize
    OBVIOUS
  <2>2. n % BlockSize = 0 /\ Len(kept) = n \div BlockSize
    BY <1>1, <2>1 DEF Binds
  <2> QED BY <1>1, <2>2, BlockOf
<1> HIDE DEF kept, bound
<1>7. /\ kept \o bound \in Seq(Block) /\ Len(kept \o bound) = Len(kept) + k
  BY <1>3, <1>5, ConcatProperties
<1>8. h <= (Len(kept) + k) * BlockSize
  <2>1. (Len(kept) + k) * BlockSize = Len(kept) * BlockSize + k * BlockSize
    BY <1>1, <1>3
  <2> QED BY <1>1, <1>3, <2>1
<1>9. /\ new \in Seq(Block)
      /\ Len(new) = BlocksFor(h) \/ Len(new) = Len(kept) + k
  BY <1>2, <1>7, TakeProperties
<1> HIDE DEF new
<1>10. h <= Len(new) * BlockSize
  BY <1>2, <1>8, <1>9
<1>11. k > 0 => n + k * BlockSize <= Len(p)
  BY <1>1, <1>4
<1> QED BY <1>9, <1>10, <1>11 DEF kept, bound, new

LEMMA PromptSuffixInv ==
  ASSUME IInv, NEW s \in Seqs, NEW p \in Prompts, NEW max \in Chunks,
         PromptSuffix(s, p, max)
  PROVE  IInv'
<1> USE DEF IInv, Counted
<1>1. p \in Seq(Token) /\ Len(p) \in Nat /\ Len(p) > 0 /\ max \in Nat
  BY KvAssumption, EmptySeq
<1>2. PICK n \in 0 .. Len(ids[s]), k \in 0 .. Len(p) :
       LET kept    == Take(table[s], BlocksFor(n))
           bound   == [j \in 1 .. k |-> byHash[SubSeq(p, 1, n + j * BlockSize)]]
           covered == n + k * BlockSize
           hit     == IF covered = Len(p) THEN covered - 1 ELSE covered
           left    == SubSeq(p, hit + 1, Len(p))
       IN  /\ IsLcp(n, ids[s], p)
           /\ Binds(k, p, n, kept)
           /\ Retable(s, Take(kept \o bound, BlocksFor(hit)))
           /\ ids' = [ids EXCEPT ![s] = SubSeq(p, 1, hit)]
           /\ suffix' = [suffix EXCEPT ![s] = IF max = 0 THEN left ELSE Take(left, max)]
  BY DEF PromptSuffix
<1> DEFINE covered == n + k * BlockSize
           hit     == IF covered = Len(p) THEN covered - 1 ELSE covered
           left    == SubSeq(p, hit + 1, Len(p))
           new     == Take(Take(table[s], BlocksFor(n))
                             \o [j \in 1 .. k |-> byHash[SubSeq(p, 1, n + j * BlockSize)]],
                           BlocksFor(hit))
<1>3. /\ n \in Nat /\ k \in Nat /\ n <= Len(p)
      /\ covered \in Nat /\ (k = 0 => covered = n)
  <2>1. ids[s] \in Seq(Token) /\ Len(ids[s]) \in Nat /\ BlockSize \in Nat
    BY KvAssumption, LenProperties DEF TypeOK
  <2>2. n \in Nat /\ k \in Nat
    BY <1>1, <2>1
  <2>3. n <= Len(p)
    BY <1>2 DEF IsLcp
  <2>4. k * BlockSize \in Nat /\ (k = 0 => k * BlockSize = 0)
    BY <2>1, <2>2
  <2> QED BY <2>2, <2>3, <2>4
<1>4. hit \in Nat /\ hit <= covered
  BY <1>1, <1>3
<1>5. /\ new \in Seq(Block) /\ hit <= Len(new) * BlockSize
      /\ k > 0 => covered <= Len(p)
  BY <1>1, <1>2, <1>4, RebindCovers
<1>6. hit <= Len(p)
  <2> HIDE DEF covered, hit
  <2>1. covered <= Len(p)
    BY <1>3, <1>5
  <2> QED BY <1>1, <1>3, <1>4, <2>1
<1>7. /\ Retable(s, new)
      /\ ids' = [ids EXCEPT ![s] = SubSeq(p, 1, hit)]
      /\ suffix' = [suffix EXCEPT ![s] = IF max = 0 THEN left ELSE Take(left, max)]
  BY <1>2
<1> HIDE DEF covered, hit, new
<1>8. SubSeq(p, 1, hit) \in Seq(Token) /\ Len(SubSeq(p, 1, hit)) = hit
  <2>1. \A i \in 1 .. hit : p[i] \in Token
    BY <1>1, <1>4, <1>6, ElementOfSeq
  <2> QED BY <1>4, <2>1, SubSeqProperties
<1>9. left \in Seq(Token) /\ Take(left, max) \in Seq(Token)
  <2>1. \A i \in hit + 1 .. Len(p) : p[i] \in Token
    BY <1>1, <1>4, ElementOfSeq
  <2>2. left \in Seq(Token)
    BY <1>1, <1>4, <2>1, SubSeqProperties
  <2> HIDE DEF left
  <2> QED BY <1>1, <2>2, TakeProperties
<1> HIDE DEF left
<1>10. /\ refs' \in [Block -> Nat] /\ table' \in [Seqs -> Seq(Block)]
       /\ content' \in [Block -> [Offset -> Seq(Token) \cup {Garbage}]]
       /\ RefsFinite' /\ RefsExact'
  BY <1>5, <1>7, RetableCounts DEF PromptSuffix
<1>11. /\ UNCHANGED <<byHash, live, callVars>> /\ phase = "idle" /\ result' = "ok"
       /\ prepared' = [prepared EXCEPT ![s] = 0]
  BY DEF PromptSuffix
<1>12. ids' \in [Seqs -> Seq(Token)] /\ suffix' \in [Seqs -> Seq(Token)]
  BY <1>7, <1>8, <1>9 DEF TypeOK
<1>13. TypeOK'
  BY <1>10, <1>11, <1>12 DEF TypeOK, callVars, Outcome
<1>14. Covered'
  <2>1. table' = [table EXCEPT ![s] = new]
    BY <1>7 DEF Retable
  <2>2. \A r \in Seqs : Len(ids'[r]) <= Len(table'[r]) * BlockSize
    BY <1>5, <1>7, <1>8, <2>1 DEF Covered, TypeOK
  <2> QED BY <1>11, <2>2 DEF Covered, callVars
<1>15. CallShape'
  BY <1>11 DEF CallShape, callVars
<1> QED BY <1>10, <1>13, <1>14, <1>15

-----------------------------------------------------------------------------
(* The start and the end of a call. *)

LEMMA StartInv ==
  ASSUME IInv, NEW what \in {"prepare", "prefill"}, NEW js \in Seq(Job), Len(js) > 0,
         \A i, j \in DOMAIN js : js[i].seq = js[j].seq => i = j,
         Start(what, js)
  PROVE  IInv'
<1> USE DEF IInv, Counted
<1>1. /\ phase = "idle" /\ phase' = "reserve" /\ op' = what /\ jobs' = js /\ at' = 1
      /\ pos' = Len(ids[js[1].seq]) /\ result' = "ok"
      /\ UNCHANGED <<poolVars, cacheVars>>
  BY DEF Start
<1>2. /\ Len(js) \in Nat /\ DOMAIN js = 1 .. Len(js) /\ 1 \in DOMAIN js
      /\ js[1].seq \in Seqs /\ js[1].toks \in Seq(Token)
  <2>1. Len(js) \in Nat /\ DOMAIN js = 1 .. Len(js)
    BY LenProperties
  <2>2. 1 \in 1 .. Len(js) /\ js[1] \in Job
    BY <2>1, ElementOfSeq
  <2> QED BY <2>1, <2>2 DEF Job
<1>3. /\ ids[js[1].seq] \in Seq(Token) /\ Len(ids[js[1].seq]) \in Nat
      /\ Len(js[1].toks) \in Nat
  BY <1>2 DEF TypeOK
<1>4. RefsFinite' /\ RefsExact'
  BY <1>1, CountsKept DEF poolVars, cacheVars
<1>5. TypeOK'
  BY <1>1, <1>2, <1>3 DEF TypeOK, poolVars, cacheVars, Outcome
<1>6. CallShape'
  BY <1>1, <1>2 DEF CallShape
<1>7. Covered'
  <2>1. Len(ids[js[1].seq]) <= Len(table[js[1].seq]) * BlockSize
    BY <1>2 DEF Covered
  <2>2. pos' <= End(at)' /\ pos' <= Len(table'[Cur']) * BlockSize
    <3>1. Cur' = js[1].seq /\ End(at)' = Len(ids[js[1].seq]) + Len(js[1].toks)
      BY <1>1 DEF End, Cur, cacheVars
    <3>2. pos' = Len(ids[js[1].seq]) /\ table' = table
      BY <1>1 DEF cacheVars
    <3>3. pos' <= End(at)'
      <4> DEFINE n == Len(ids[js[1].seq])
                 m == Len(js[1].toks)
      <4>1. n \in Nat /\ m \in Nat /\ pos' = n /\ End(at)' = n + m
        BY <1>3, <3>1, <3>2
      <4> HIDE DEF n, m
      <4> QED BY <4>1
    <3>4. pos' <= Len(table'[Cur']) * BlockSize
      BY <2>1, <3>1, <3>2
    <3> QED BY <3>3, <3>4
  <2>3. \A j \in 1 .. at' - 1 : Secured(j)'
    BY <1>1
  <2>4. \A s \in Seqs : Len(ids'[s]) <= Len(table'[s]) * BlockSize
    BY <1>1 DEF Covered, cacheVars
  <2> QED BY <1>1, <2>2, <2>3, <2>4 DEF Covered
<1> QED BY <1>4, <1>5, <1>6, <1>7

LEMMA FinishInv ==
  ASSUME IInv, NEW outcome \in Outcome, Finish(outcome),
         UNCHANGED <<refs, byHash, live, table, ids, suffix>>,
         content' \in [Block -> [Offset -> Seq(Token) \cup {Garbage}]],
         prepared' \in [Seqs -> Nat]
  PROVE  IInv'
<1> USE DEF IInv, Counted, Finish
<1>1. RefsFinite' /\ RefsExact'
  BY CountsKept
<1>2. <<>> \in Seq(Job)
  OBVIOUS
<1>3. TypeOK'
  BY <1>2 DEF TypeOK
<1>4. Covered' /\ CallShape'
  BY DEF Covered, CallShape
<1> QED BY <1>1, <1>3, <1>4

(* Token groups are token sequences. *)
LEMMA GroupsType ==
  ASSUME TypeOK, NEW s \in Seqs
  PROVE  Groups(s) \subseteq Seq(Token)
<1>1. \A t \in Sampled : <<t>> \in Seq(Token)
  BY KvAssumption
<1> QED BY <1>1 DEF TypeOK, Groups

LEMMA StartPrepareInv ==
  ASSUME IInv, NEW s \in Seqs, NEW extra \in Extras, StartPrepare(s, extra)
  PROVE  IInv'
<1> DEFINE filler == [i \in 1 .. extra |-> CHOOSE t \in Token : TRUE]
           js     == <<[seq |-> s, toks |-> filler]>>
<1>1. filler \in Seq(Token)
  <2>1. (CHOOSE t \in Token : TRUE) \in Token
    BY KvAssumption
  <2>2. extra \in Nat
    BY KvAssumption
  <2> QED BY <2>1, <2>2
<1>2. Start("prepare", js)
  BY DEF StartPrepare
<1> HIDE DEF filler
<1>3. js \in Seq(Job) /\ Len(js) = 1 /\ DOMAIN js = 1 .. 1
  BY <1>1 DEF Job
<1> HIDE DEF js
<1>4. \A i, j \in DOMAIN js : js[i].seq = js[j].seq => i = j
  BY <1>3
<1> QED BY <1>2, <1>3, <1>4, StartInv

LEMMA StartPrefillInv ==
  ASSUME IInv, NEW js \in Batches, StartPrefill(js)
  PROVE  IInv'
<1>1. PICK n \in 1 .. MaxBatch :
        js \in [1 .. n -> [seq : live, toks : UNION {Groups(s) : s \in live}]]
  BY DEF Batches
<1>2. live \subseteq Seqs /\ \A s \in live : Groups(s) \subseteq Seq(Token)
  BY GroupsType DEF IInv, Counted, TypeOK
<1>3. [seq : live, toks : UNION {Groups(s) : s \in live}] \subseteq Job
  BY <1>2 DEF Job
<1>4. js \in [1 .. n -> Job] /\ n \in Nat /\ n > 0
  BY <1>1, <1>3, KvAssumption
<1>5. js \in Seq(Job) /\ Len(js) = n
  BY <1>4
<1>6. \A i, j \in DOMAIN js : js[i].seq = js[j].seq => i = j
  BY DEF StartPrefill, IsBatch
<1> QED BY <1>4, <1>5, <1>6, StartInv DEF StartPrefill

LEMMA ErrorInv ==
  ASSUME IInv, FullError \/ CapError \/ TransformerError
  PROVE  IInv'
<1>1. CASE FullError
  BY <1>1, FinishInv DEF FullError, poolVars, cacheVars, Outcome, IInv, Counted, TypeOK
<1>2. CASE CapError
  BY <1>2, FinishInv DEF CapError, poolVars, cacheVars, Outcome, IInv, Counted, TypeOK
<1>3. CASE TransformerError
  <2>1. content' \in [Block -> [Offset -> Seq(Token) \cup {Garbage}]]
    BY <1>3 DEF TransformerError, IInv, Counted, TypeOK
  <2> QED BY <1>3, <2>1, FinishInv DEF TransformerError, cacheVars, Outcome, IInv, Counted, TypeOK
<1> QED BY <1>1, <1>2, <1>3

-----------------------------------------------------------------------------
(* The reservation loop. *)

(* What a running call works on. *)
LEMMA CurrentJob ==
  ASSUME TypeOK, CallShape, phase # "idle"
  PROVE  /\ Len(jobs) \in Nat /\ at \in 1 .. Len(jobs) /\ pos \in Nat
         /\ \A j \in 1 .. Len(jobs) :
              /\ jobs[j].seq \in Seqs /\ jobs[j].toks \in Seq(Token)
              /\ Len(ids[jobs[j].seq]) \in Nat /\ Len(jobs[j].toks) \in Nat
              /\ Len(table[jobs[j].seq]) \in Nat
              /\ End(j) \in Nat
         /\ Cur \in Seqs /\ table[Cur] \in Seq(Block)
<1>1. jobs \in Seq(Job) /\ at \in 1 .. Len(jobs) /\ pos \in Nat /\ Len(jobs) \in Nat
  BY LenProperties DEF TypeOK, CallShape
<1>2. ASSUME NEW j \in 1 .. Len(jobs)
      PROVE  /\ jobs[j].seq \in Seqs /\ jobs[j].toks \in Seq(Token)
             /\ Len(ids[jobs[j].seq]) \in Nat /\ Len(jobs[j].toks) \in Nat
             /\ Len(table[jobs[j].seq]) \in Nat
             /\ End(j) \in Nat
  <2>1. jobs[j] \in Job
    BY <1>1, ElementOfSeq
  <2>2. jobs[j].seq \in Seqs /\ jobs[j].toks \in Seq(Token)
    BY <2>1 DEF Job
  <2>3. ids[jobs[j].seq] \in Seq(Token) /\ table[jobs[j].seq] \in Seq(Block)
    BY <2>2 DEF TypeOK
  <2>4. /\ Len(ids[jobs[j].seq]) \in Nat /\ Len(jobs[j].toks) \in Nat
        /\ Len(table[jobs[j].seq]) \in Nat
    BY <2>2, <2>3, LenProperties
  <2>5. End(j) \in Nat
    <3> DEFINE n == Len(ids[jobs[j].seq])
               m == Len(jobs[j].toks)
    <3>1. n \in Nat /\ m \in Nat /\ End(j) = n + m
      BY <2>4 DEF End
    <3> HIDE DEF n, m
    <3> QED BY <3>1
  <2> QED BY <2>2, <2>4, <2>5
<1>3. Cur \in Seqs /\ table[Cur] \in Seq(Block)
  BY <1>1, <1>2 DEF Cur, TypeOK
<1> QED BY <1>1, <1>2, <1>3

(* A reservation that lengthens the current table, or keeps its length, leaves
   everything covered. *)
LEMMA ReservedCovered ==
  ASSUME TypeOK, CallShape, Covered, phase = "reserve",
         NEW t \in Seq(Block), Len(t) >= Len(table[Cur]),
         table' = [table EXCEPT ![Cur] = t],
         UNCHANGED <<ids, callVars>>
  PROVE  Covered'
<1>1. /\ Len(jobs) \in Nat /\ at \in 1 .. Len(jobs) /\ pos \in Nat
      /\ \A j \in 1 .. Len(jobs) : jobs[j].seq \in Seqs /\ End(j) \in Nat
      /\ Cur \in Seqs
  BY CurrentJob
<1>2. /\ BlockSize \in Nat /\ Len(t) \in Nat
      /\ \A s \in Seqs : Len(table[s]) \in Nat /\ Len(ids[s]) \in Nat
  BY KvAssumption, LenProperties DEF TypeOK
<1>3. ASSUME NEW s \in Seqs PROVE Len(table'[s]) \in Nat /\ Len(table'[s]) >= Len(table[s])
  BY <1>1, <1>2 DEF TypeOK
<1>4. ASSUME NEW s \in Seqs PROVE Len(table[s]) * BlockSize <= Len(table'[s]) * BlockSize
  BY <1>2, <1>3
<1>5. ASSUME NEW s \in Seqs, NEW n \in Nat, n <= Len(table[s]) * BlockSize
      PROVE  n <= Len(table'[s]) * BlockSize
  <2> DEFINE u == Len(table[s]) * BlockSize
             v == Len(table'[s]) * BlockSize
  <2>1. u \in Nat /\ v \in Nat /\ u <= v /\ n <= u
    BY <1>2, <1>3, <1>4, <1>5
  <2> HIDE DEF u, v
  <2>2. n <= v
    BY <2>1
  <2> QED BY <2>2 DEF v
<1>6. \A s \in Seqs : Len(ids'[s]) <= Len(table'[s]) * BlockSize
  BY <1>2, <1>5 DEF Covered
<1>7. Cur' = Cur /\ pos' = pos /\ at' = at /\ phase' = phase /\ jobs' = jobs
  BY DEF Cur, callVars
<1>8. \A j \in 1 .. Len(jobs) : End(j)' = End(j)
  BY <1>7 DEF End
<1>9. pos' <= End(at)' /\ pos' <= Len(table'[Cur']) * BlockSize
  BY <1>1, <1>5, <1>7, <1>8 DEF Covered
<1>10. \A j \in 1 .. at' - 1 : Secured(j)'
  <2>1. SUFFICES ASSUME NEW j \in 1 .. at - 1 PROVE Secured(j)'
    BY <1>7
  <2>2. j \in 1 .. Len(jobs) /\ Secured(j)
    BY <1>1 DEF Covered
  <2> QED BY <1>1, <1>5, <1>7, <1>8, <2>2 DEF Secured
<1> QED BY <1>6, <1>7, <1>9, <1>10 DEF Covered

LEMMA FaultInv == ASSUME IInv, Fault PROVE IInv'
<1> USE DEF IInv, Counted
<1>1. PICK b \in Block : /\ Alloc(b)
                         /\ refs' = [refs EXCEPT ![b] = 1]
                         /\ content' = [content EXCEPT ![b] = Stale]
                         /\ table' = [table EXCEPT ![Cur] = Append(@, b)]
  BY DEF Fault
<1>2. /\ phase = "reserve" /\ Cur \in Seqs /\ table[Cur] \in Seq(Block)
      /\ UNCHANGED <<live, ids, suffix, prepared, callVars, result>>
  BY CurrentJob DEF Fault
<1>3. /\ Append(table[Cur], b) \in Seq(Block)
      /\ Len(Append(table[Cur], b)) >= Len(table[Cur])
      /\ table' = [table EXCEPT ![Cur] = Append(table[Cur], b)]
  BY <1>1, <1>2, AppendProperties, LenProperties
<1>4. RefsFinite' /\ RefsExact'
  BY <1>1, <1>2, FaultCounts
<1>5. Covered'
  BY <1>2, <1>3, ReservedCovered
<1>6. TypeOK'
  <2>1. /\ DOMAIN byHash' \subseteq Seq(Token) /\ IsFiniteSet(DOMAIN byHash')
        /\ byHash' \in [DOMAIN byHash' -> Block]
    BY <1>1, AllocUnnamed DEF TypeOK
  <2>2. /\ refs' \in [Block -> Nat] /\ table' \in [Seqs -> Seq(Block)]
        /\ content' \in [Block -> [Offset -> Seq(Token) \cup {Garbage}]]
    BY <1>1, <1>2, <1>3 DEF TypeOK, Stale
  <2> QED BY <1>2, <2>1, <2>2 DEF TypeOK, callVars
<1>7. CallShape'
  BY <1>2 DEF CallShape, callVars
<1> QED BY <1>4, <1>5, <1>6, <1>7

LEMMA CowInv == ASSUME IInv, Cow PROVE IInv'
<1> USE DEF IInv, Counted
<1>1. /\ phase = "reserve" /\ Cur \in Seqs /\ table[Cur] \in Seq(Block)
      /\ Index \in DOMAIN table[Cur] /\ pos \in Nat
      /\ UNCHANGED <<live, ids, suffix, prepared, callVars, result>>
  <2>1. /\ phase = "reserve" /\ Cur \in Seqs /\ table[Cur] \in Seq(Block) /\ pos \in Nat
        /\ UNCHANGED <<live, ids, suffix, prepared, callVars, result>>
    BY CurrentJob DEF Cow
  <2>2. Len(table[Cur]) >= Index /\ Index \in Nat /\ Index >= 1
    <3>1. pos \div BlockSize \in Nat
      BY <2>1, BlockOf
    <3>2. Len(table[Cur]) \in Nat
      BY <2>1, LenProperties
    <3> QED BY <3>1, <3>2 DEF Cow, NeedsCopy, NeedsBlock, Index
  <2>3. DOMAIN table[Cur] = 1 .. Len(table[Cur]) /\ Len(table[Cur]) \in Nat
    BY <2>1, LenProperties
  <2> QED BY <2>1, <2>2, <2>3
<1> DEFINE old == table[Cur][Index]
<1>2. old \in Block /\ refs[old] > 1
  BY <1>1 DEF Cow, NeedsCopy
<1>3. PICK b \in Block : /\ Alloc(b)
                         /\ content' = [content EXCEPT ![b] = content[old]]
                         /\ refs' = [refs EXCEPT ![b] = 1, ![old] = @ - 1]
                         /\ table' = [table EXCEPT ![Cur] = [@ EXCEPT ![Index] = b]]
  BY DEF Cow
<1> HIDE DEF old
<1>4. RefsFinite' /\ RefsExact'
  BY <1>1, <1>2, <1>3, CowCounts DEF old
<1> DEFINE t == [table[Cur] EXCEPT ![Index] = b]
<1>5. t \in Seq(Block) /\ Len(t) = Len(table[Cur]) /\ table' = [table EXCEPT ![Cur] = t]
  <2>1. Index \in 1 .. Len(table[Cur])
    BY <1>1
  <2>2. table' = [table EXCEPT ![Cur] = t]
    BY <1>1, <1>3
  <2> QED BY <1>1, <2>1, <2>2, ExceptSeq
<1> HIDE DEF t
<1>6. Covered'
  <2>1. Len(t) >= Len(table[Cur])
    BY <1>1, <1>5, LenProperties
  <2> QED BY <1>1, <1>5, <2>1, ReservedCovered
<1>7. TypeOK'
  <2>1. /\ DOMAIN byHash' \subseteq Seq(Token) /\ IsFiniteSet(DOMAIN byHash')
        /\ byHash' \in [DOMAIN byHash' -> Block]
    BY <1>3, AllocUnnamed DEF TypeOK
  <2>2. table' \in [Seqs -> Seq(Block)]
    BY <1>1, <1>5 DEF TypeOK
  <2>3. content' \in [Block -> [Offset -> Seq(Token) \cup {Garbage}]]
    BY <1>2, <1>3 DEF TypeOK
  <2>4. refs' \in [Block -> Nat]
    <3>1. refs \in [Block -> Nat] /\ refs[old] - 1 \in Nat /\ refs[b] <= 1 /\ b # old
      BY <1>2, <1>3, AllocUnnamed DEF TypeOK
    <3>2. refs' = [refs EXCEPT ![b] = 1, ![old] = refs[old] - 1]
      BY <1>2, <1>3, <3>1
    <3> QED BY <1>2, <3>1, <3>2
  <2> QED BY <1>1, <2>1, <2>2, <2>3, <2>4 DEF TypeOK, callVars
<1>8. CallShape'
  BY <1>1 DEF CallShape, callVars
<1> QED BY <1>4, <1>6, <1>7, <1>8

LEMMA ReservedInv == ASSUME IInv, Reserved PROVE IInv'
<1> USE DEF IInv, Counted
<1>1. /\ phase = "reserve" /\ pos < End(at) /\ ~NeedsBlock /\ pos' = pos + 1
      /\ UNCHANGED <<poolVars, cacheVars, phase, op, jobs, at, result>>
  BY DEF Reserved
<1>2. /\ pos \in Nat /\ Len(jobs) \in Nat /\ at \in 1 .. Len(jobs)
      /\ Cur \in Seqs /\ table[Cur] \in Seq(Block) /\ Len(table[Cur]) \in Nat
      /\ End(at) \in Nat
  BY <1>1, CurrentJob, LenProperties
<1>3. RefsFinite' /\ RefsExact'
  BY <1>1, CountsKept DEF poolVars, cacheVars
<1>4. TypeOK'
  BY <1>1, <1>2 DEF TypeOK, poolVars, cacheVars
<1>5. CallShape'
  BY <1>1 DEF CallShape
<1>6. /\ Cur' = Cur /\ at' = at /\ table' = table /\ ids' = ids /\ jobs' = jobs
      /\ phase' = "reserve" /\ End(at)' = End(at)
  BY <1>1 DEF Cur, End, cacheVars
<1>7. pos + 1 <= Len(table[Cur]) * BlockSize
  <2>1. pos \div BlockSize + 1 <= Len(table[Cur])
    <3>1. pos \div BlockSize \in Nat
      BY <1>2, BlockOf
    <3> QED BY <1>1, <1>2, <3>1 DEF NeedsBlock, Index
  <2> QED BY <1>2, <2>1, BlockBelow
<1>8. \A j \in 1 .. at' - 1 : Secured(j)'
  BY <1>1, <1>6 DEF Covered, Secured, End
<1>9. Covered'
  BY <1>1, <1>2, <1>6, <1>7, <1>8 DEF Covered
<1> QED BY <1>3, <1>4, <1>5, <1>9

LEMMA NextJobInv == ASSUME IInv, NextJob PROVE IInv'
<1> USE DEF IInv, Counted
<1>1. /\ phase = "reserve" /\ pos = End(at)
      /\ UNCHANGED <<poolVars, live, table, ids, suffix>>
  BY DEF NextJob
<1>2. /\ pos \in Nat /\ Len(jobs) \in Nat /\ at \in 1 .. Len(jobs) /\ Cur \in Seqs
      /\ \A j \in 1 .. Len(jobs) :
           /\ jobs[j].seq \in Seqs /\ Len(ids[jobs[j].seq]) \in Nat
           /\ Len(jobs[j].toks) \in Nat /\ End(j) \in Nat
  BY <1>1, CurrentJob
<1>3. \A j \in 1 .. at : Secured(j)
  <2>1. Secured(at)
    BY <1>1 DEF Covered, Secured, Cur
  <2> QED BY <1>1, <1>2, <2>1 DEF Covered
<1>4. RefsFinite' /\ RefsExact'
  BY <1>1, CountsKept DEF poolVars
<1>5. CASE /\ at < Len(jobs)
           /\ at' = at + 1 /\ pos' = Len(ids[jobs[at + 1].seq])
           /\ UNCHANGED <<phase, op, jobs, prepared, result>>
  <2>1. at + 1 \in 1 .. Len(jobs) /\ jobs' = jobs /\ ids' = ids /\ table' = table
    BY <1>1, <1>2, <1>5
  <2>2. TypeOK'
    <3>1. at' \in 1 .. Len(jobs') /\ at' \in Nat /\ pos' \in Nat
      BY <1>2, <1>5, <2>1
    <3> QED BY <1>1, <1>5, <2>1, <3>1 DEF TypeOK, poolVars
  <2>3. CallShape'
    BY <1>1, <1>5, <2>1, LenProperties DEF CallShape, TypeOK
  <2>4. \A j \in 1 .. at' - 1 : Secured(j)'
    <3>1. SUFFICES ASSUME NEW j \in 1 .. at PROVE Secured(j)'
      BY <1>2, <1>5
    <3>2. Secured(j)
      BY <1>3
    <3> QED BY <2>1, <3>2 DEF Secured, End
  <2>5. pos' <= End(at)'
    <3> DEFINE n == Len(ids[jobs[at + 1].seq])
               m == Len(jobs[at + 1].toks)
    <3>1. n \in Nat /\ m \in Nat /\ pos' = n
      BY <1>2, <1>5, <2>1
    <3>2. End(at)' = n + m
      BY <1>5, <2>1 DEF End
    <3> HIDE DEF n, m
    <3> QED BY <3>1, <3>2
  <2>6. pos' <= Len(table'[Cur']) * BlockSize
    <3>1. Cur' = jobs[at + 1].seq /\ jobs[at + 1].seq \in Seqs
      BY <1>2, <1>5, <2>1 DEF Cur
    <3> QED BY <1>5, <2>1, <3>1 DEF Covered
  <2>7. Covered'
    BY <1>1, <1>5, <2>1, <2>4, <2>5, <2>6 DEF Covered
  <2> QED BY <1>4, <2>2, <2>3, <2>7
<1>6. CASE /\ at = Len(jobs) /\ op = "prefill"
           /\ phase' = "compute" /\ at' = 1
           /\ UNCHANGED <<op, jobs, pos, prepared, result>>
  <2>1. jobs' = jobs /\ ids' = ids /\ table' = table /\ 1 \in 1 .. Len(jobs)
    BY <1>1, <1>2, <1>6
  <2>2. TypeOK'
    BY <1>1, <1>6, <2>1 DEF TypeOK, poolVars
  <2>3. CallShape'
    BY <1>1, <1>6, <2>1, LenProperties DEF CallShape, TypeOK
  <2>4. \A j \in at' .. Len(jobs') : Secured(j)'
    BY <1>2, <1>3, <1>6, <2>1 DEF Secured, End
  <2>5. Covered'
    BY <1>6, <2>1, <2>4 DEF Covered
  <2> QED BY <1>4, <2>2, <2>3, <2>5
<1>7. CASE /\ at = Len(jobs) /\ op = "prepare"
           /\ prepared' = [prepared EXCEPT ![Cur] = Len(jobs[at].toks)]
           /\ Finish("ok")
  <2>1. prepared' \in [Seqs -> Nat]
    BY <1>2, <1>7 DEF TypeOK
  <2>2. content' \in [Block -> [Offset -> Seq(Token) \cup {Garbage}]]
    BY <1>1 DEF TypeOK, poolVars
  <2> QED BY <1>1, <1>7, <2>1, <2>2, FinishInv DEF Outcome, poolVars
<1> QED BY <1>5, <1>6, <1>7 DEF NextJob

-----------------------------------------------------------------------------
(* The forward pass. *)

(* The context of a cache whose positions are covered is a text or Garbage. *)
LEMMA ContextType ==
  ASSUME TypeOK, Covered, NEW s \in Seqs
  PROVE  Context(s) \in Seq(Token) \cup {Garbage}
<1> DEFINE n == Len(ids[s])
           q == (n - 1) \div BlockSize
<1>1. /\ n \in Nat /\ table[s] \in Seq(Block) /\ Len(table[s]) \in Nat
      /\ n <= Len(table[s]) * BlockSize /\ BlockSize \in Nat /\ BlockSize > 0
  BY LenProperties, KvAssumption DEF TypeOK, Covered
<1>2. CASE n = 0
  BY <1>2, EmptySeq DEF Context
<1>3. CASE n > 0
  <2>1. n - 1 \in Nat /\ q \in Nat /\ (n - 1) % BlockSize \in Offset
    <3> HIDE DEF n
    <3>1. n - 1 \in Nat
      BY <1>1, <1>3
    <3> QED BY <3>1, BlockOf
  <2>2. n - 1 < Len(table[s]) * BlockSize
    <3> DEFINE u == Len(table[s]) * BlockSize
    <3>1. u \in Nat /\ n <= u
      BY <1>1
    <3> HIDE DEF u, n
    <3>2. n - 1 < u
      BY <1>1, <3>1
    <3> QED BY <3>2 DEF u
  <2>3. q + 1 <= Len(table[s])
    BY <1>1, <2>1, <2>2, BlockBelow
  <2>4. table[s][q + 1] \in Block
    <3>1. q + 1 \in 1 .. Len(table[s])
      <4> HIDE DEF q
      <4> QED BY <1>1, <2>1, <2>3
    <3> QED BY <1>1, <3>1, ElementOfSeq
  <2>5. Read(s, n - 1) \in Seq(Token) \cup {Garbage}
    BY <2>1, <2>4 DEF Read, TypeOK
  <2> QED BY <1>3, <2>5 DEF Context
<1> QED BY <1>1, <1>2, <1>3

LEMMA TransformerInv == ASSUME IInv, Transformer PROVE IInv'
<1> USE DEF IInv, Counted
<1>1. /\ phase = "compute" /\ phase' = "commit"
      /\ UNCHANGED <<refs, byHash, cacheVars, op, jobs, at, pos, result>>
  BY DEF Transformer
<1>2. ASSUME NEW w \in Written
      PROVE  NewKv(w[1], w[2]) \in Seq(Token) \cup {Garbage}
  <2> DEFINE j == w[1]
             p == w[2]
             s == jobs[j].seq
             n == Len(ids[s])
             m == Len(jobs[j].toks)
  <2>1. j \in DOMAIN jobs /\ p \in 0 .. MaxSeq - 1 /\ n <= p /\ p < End(j)
    BY DEF Written
  <2>2. /\ j \in 1 .. Len(jobs) /\ s \in Seqs /\ jobs[j].toks \in Seq(Token)
        /\ n \in Nat /\ m \in Nat /\ p \in Nat
    <3>1. j \in 1 .. Len(jobs)
      BY <2>1, LenProperties DEF TypeOK
    <3>2. p \in Nat
      BY <2>1, KvAssumption
    <3> QED BY <1>1, <3>1, <3>2, CurrentJob
  <2>3. End(j) = n + m
    BY DEF End
  <2> DEFINE d == p + 1 - n
  <2>4. d \in Nat /\ d <= m
    <3> HIDE DEF j, p, n, m
    <3> QED BY <2>1, <2>2, <2>3
  <2>5. SubSeq(jobs[j].toks, 1, d) \in Seq(Token)
    <3>1. \A i \in 1 .. d : jobs[j].toks[i] \in Token
      BY <2>2, <2>4, ElementOfSeq
    <3> QED BY <2>4, <3>1, SubSeqProperties
  <2>6. Context(s) \in Seq(Token) \cup {Garbage}
    BY <2>2, ContextType
  <2>7. CASE Context(s) = Garbage
    BY <2>7 DEF NewKv
  <2>8. CASE Context(s) # Garbage
    <3>1. Context(s) \o SubSeq(jobs[j].toks, 1, d) \in Seq(Token)
      BY <2>5, <2>6, <2>8, ConcatProperties
    <3> QED BY <2>8, <3>1 DEF NewKv
  <2> QED BY <2>7, <2>8
<1>3. content' \in [Block -> [Offset -> Seq(Token) \cup {Garbage}]]
  <2>1. ASSUME NEW b \in Block, NEW o \in Offset
        PROVE  (IF Writers(b, o) = {} THEN content[b][o]
                ELSE LET w == CHOOSE jp \in Writers(b, o) : TRUE IN NewKv(w[1], w[2]))
               \in Seq(Token) \cup {Garbage}
    <3>1. CASE Writers(b, o) = {}
      BY <3>1 DEF TypeOK
    <3>2. CASE Writers(b, o) # {}
      <4> DEFINE w == CHOOSE jp \in Writers(b, o) : TRUE
      <4>1. w \in Written
        BY <3>2 DEF Writers
      <4> HIDE DEF w
      <4>2. NewKv(w[1], w[2]) \in Seq(Token) \cup {Garbage}
        BY <1>2, <4>1
      <4> QED BY <3>2, <4>2 DEF w
    <3> QED BY <3>1, <3>2
  <2> QED BY <2>1 DEF Transformer
<1>4. RefsFinite' /\ RefsExact'
  BY <1>1, CountsKept DEF cacheVars
<1>5. TypeOK'
  BY <1>1, <1>3 DEF TypeOK, cacheVars
<1>6. CallShape'
  BY <1>1 DEF CallShape
<1>7. Covered'
  BY <1>1 DEF Covered, Secured, End, cacheVars
<1> QED BY <1>4, <1>5, <1>6, <1>7

-----------------------------------------------------------------------------
(* intern_full and the commit of a job. *)

(* The prefixes of t that end on a block boundary. *)
LEMMA PrefixBlocks ==
  ASSUME NEW t \in Seq(Token), NEW k \in 1 .. Len(t) \div BlockSize
  PROVE  /\ k \in Nat /\ SubSeq(t, 1, k * BlockSize) \in Seq(Token)
         /\ Len(SubSeq(t, 1, k * BlockSize)) = k * BlockSize
         /\ (k * BlockSize) \div BlockSize = k
         /\ k * BlockSize \in Nat /\ k * BlockSize <= Len(t)
<1> DEFINE q == Len(t) \div BlockSize
           u == k * BlockSize
<1>1. /\ Len(t) \in Nat /\ BlockSize \in Nat /\ BlockSize > 0
      /\ q \in Nat /\ k \in Nat /\ k >= 1 /\ k <= q /\ u \in Nat
  BY KvAssumption, LenProperties, BlockOf
<1>2. u <= Len(t)
  <2>1. k * BlockSize <= q * BlockSize
    BY <1>1
  <2>2. q * BlockSize <= Len(t)
    BY <1>1, BlockOf DEF Offset
  <2> QED BY <1>1, <2>1, <2>2
<1>3. SubSeq(t, 1, u) \in Seq(Token) /\ Len(SubSeq(t, 1, u)) = u
  <2> HIDE DEF u
  <2>1. \A i \in 1 .. u : t[i] \in Token
    BY <1>1, <1>2, ElementOfSeq
  <2>2. u >= 0
    BY <1>1
  <2> QED BY <1>1, <2>1, <2>2, SubSeqProperties
<1>4. u \div BlockSize = k
  <2> DEFINE d == u \div BlockSize
  <2>1. d \in Nat /\ u % BlockSize \in 0 .. BlockSize - 1 /\ u = d * BlockSize + (u % BlockSize)
    BY <1>1, BlockOf DEF Offset
  <2>2. d <= k
    BY <1>1, BlockBelow
  <2>3. k <= d
    <3>1. SUFFICES ASSUME d + 1 <= k PROVE FALSE
      BY <1>1, <2>1
    <3>2. (d + 1) * BlockSize <= k * BlockSize /\ (d + 1) * BlockSize = d * BlockSize + BlockSize
      <4> HIDE DEF d, u
      <4> QED BY <1>1, <2>1, <3>1
    <3> QED BY <1>1, <2>1, <3>2
  <2> QED BY <1>1, <2>1, <2>2, <2>3
<1> QED BY <1>1, <1>3, <1>4

(* Interning counts each new entry once. *)
LEMMA InternCounts ==
  ASSUME Counted, NEW s \in Seqs, NEW t \in Seq(Token),
         Len(t) <= Len(table[s]) * BlockSize, InternFull(s, t), UNCHANGED table
  PROVE  /\ refs' \in [Block -> Nat]
         /\ DOMAIN byHash' \subseteq Seq(Token) /\ IsFiniteSet(DOMAIN byHash')
         /\ byHash' \in [DOMAIN byHash' -> Block]
         /\ RefsFinite' /\ RefsExact'
<1> USE DEF Counted
<1> DEFINE K      == 1 .. Len(t) \div BlockSize
           new    == NewPrefixes(t)
           pre(k) == SubSeq(t, 1, k * BlockSize)
           Pre(b) == {pre(k) : k \in {j \in new : table[s][j] = b}}
<1>1. /\ Len(t) \in Nat /\ table[s] \in Seq(Block) /\ Len(table[s]) \in Nat
      /\ Len(t) \div BlockSize \in Nat /\ Len(t) \div BlockSize <= Len(table[s])
  <2>1. Len(t) \in Nat /\ table[s] \in Seq(Block) /\ Len(table[s]) \in Nat
    BY LenProperties DEF TypeOK
  <2> QED BY <2>1, BlockOf, BlockBelow
<1>2. ASSUME NEW k \in K
      PROVE  /\ k \in Nat /\ pre(k) \in Seq(Token) /\ Len(pre(k)) \div BlockSize = k
             /\ table[s][k] \in Block
  <2>1. k \in 1 .. Len(table[s])
    BY <1>1
  <2>2. table[s][k] \in Block
    BY <1>1, <2>1, ElementOfSeq
  <2> QED BY <2>2, PrefixBlocks
<1>3. new \subseteq K /\ IsFiniteSet(new) /\ \A k \in new : pre(k) \notin DOMAIN byHash
  <2>1. new \subseteq K /\ \A k \in new : pre(k) \notin DOMAIN byHash
    BY DEF NewPrefixes
  <2>2. IsFiniteSet(K)
    BY <1>1, FS_Interval
  <2> QED BY <2>1, <2>2, FS_Subset
<1>4. \A j, k \in new : pre(j) = pre(k) => j = k
  BY <1>2, <1>3
<1> DEFINE all == {pre(k) : k \in new}
<1>5. /\ byHash' = [q \in DOMAIN byHash \cup all |->
                      IF q \in DOMAIN byHash THEN byHash[q]
                      ELSE table[s][Len(q) \div BlockSize]]
      /\ refs' = [b \in Block |-> refs[b] + Cardinality({k \in new : table[s][k] = b})]
  BY DEF InternFull
<1>6. DOMAIN byHash' = DOMAIN byHash \cup all
  BY <1>5
<1>7. \A k \in new : /\ pre(k) \in DOMAIN byHash' /\ pre(k) \notin DOMAIN byHash
                      /\ byHash'[pre(k)] = table[s][k]
  BY <1>2, <1>3, <1>5, <1>6
<1>8. \A q \in DOMAIN byHash : byHash'[q] = byHash[q]
  BY <1>5, <1>6
<1>9. IsFiniteSet(DOMAIN byHash')
  <2> DEFINE f == [k \in new |-> pre(k)]
  <2>1. f \in Surjection(new, all)
    BY Fun_IsSurj
  <2>2. IsFiniteSet(all)
    BY <1>3, <2>1, FS_Surjection
  <2>3. IsFiniteSet(DOMAIN byHash)
    BY DEF TypeOK
  <2> QED BY <1>6, <2>2, <2>3, FS_Union
<1>10. DOMAIN byHash' \subseteq Seq(Token) /\ byHash' \in [DOMAIN byHash' -> Block]
  <2>1. DOMAIN byHash \subseteq Seq(Token) /\ \A q \in DOMAIN byHash : byHash[q] \in Block
    BY DEF TypeOK
  <2>2. \A q \in DOMAIN byHash' : q \in Seq(Token) /\ byHash'[q] \in Block
    <3>1. TAKE q \in DOMAIN byHash'
    <3>2. CASE q \in DOMAIN byHash
      BY <1>8, <2>1, <3>2
    <3>3. CASE q \in all
      <4>1. PICK k \in new : q = pre(k)
        BY <3>3
      <4> QED BY <1>2, <1>3, <1>7, <4>1
    <3> QED BY <1>6, <3>2, <3>3
  <2> HIDE DEF all
  <2> QED BY <1>5, <2>2
<1>11. ASSUME NEW b \in Block
       PROVE  /\ refs'[b] \in Nat
              /\ IsFiniteSet(TableRefs(b)')
              /\ refs'[b] = Cardinality(TableRefs(b)') + Cardinality(HashRefs(b)')
  <2> DEFINE N == {k \in new : table[s][k] = b}
  <2>1. IsFiniteSet(N) /\ Cardinality(N) \in Nat
    BY <1>3, FS_Subset, FS_CardinalityType
  <2>2. IsFiniteSet(Pre(b)) /\ Cardinality(Pre(b)) = Cardinality(N)
    <3> DEFINE f == [k \in N |-> pre(k)]
    <3>1. f \in Bijection(N, Pre(b))
      <4>1. f \in [N -> Pre(b)]
        OBVIOUS
      <4>2. \A i, j \in N : f[i] = f[j] => i = j
        BY <1>4
      <4>3. \A q \in Pre(b) : \E k \in N : f[k] = q
        OBVIOUS
      <4> QED BY <4>1, <4>2, <4>3, Fun_IsBij
    <3>2. ExistsBijection(N, Pre(b))
      BY <3>1, Fun_ExistsBij
    <3> QED BY <2>1, <3>2, FS_Bijection
  <2>3. HashRefs(b)' = HashRefs(b) \cup Pre(b)
    <3>1. HashRefs(b)' = {q \in DOMAIN byHash' : byHash'[q] = b}
      BY DEF HashRefs
    <3>2. {q \in DOMAIN byHash' : byHash'[q] = b} = HashRefs(b) \cup Pre(b)
      <4>1. ASSUME NEW q \in DOMAIN byHash', byHash'[q] = b PROVE q \in HashRefs(b) \cup Pre(b)
        <5>1. CASE q \in DOMAIN byHash
          BY <1>8, <4>1, <5>1 DEF HashRefs
        <5>2. CASE q \in all
          <6>1. PICK k \in new : q = pre(k)
            BY <5>2
          <6>2. table[s][k] = b
            BY <1>7, <4>1, <6>1
          <6> QED BY <6>1, <6>2
        <5> QED BY <1>6, <5>1, <5>2
      <4>2. ASSUME NEW q \in HashRefs(b) PROVE q \in DOMAIN byHash' /\ byHash'[q] = b
        BY <1>6, <1>8, <4>2 DEF HashRefs
      <4>3. ASSUME NEW q \in Pre(b) PROVE q \in DOMAIN byHash' /\ byHash'[q] = b
        <5>1. PICK k \in new : table[s][k] = b /\ q = pre(k)
          BY <4>3
        <5> QED BY <1>7, <5>1
      <4> HIDE DEF Pre, all
      <4> QED BY <4>1, <4>2, <4>3
    <3> QED BY <3>1, <3>2
  <2>4. HashRefs(b) \cap Pre(b) = {}
    BY <1>7 DEF HashRefs
  <2>5. /\ IsFiniteSet(HashRefs(b)) /\ Cardinality(HashRefs(b)) \in Nat
        /\ IsFiniteSet(TableRefs(b)) /\ Cardinality(TableRefs(b)) \in Nat
    BY HashRefsFinite, FS_CardinalityType DEF RefsFinite
  <2>6. Cardinality(HashRefs(b) \cup Pre(b)) = Cardinality(HashRefs(b)) + Cardinality(N)
    <3> HIDE DEF Pre, N
    <3>1. Cardinality(HashRefs(b) \cap Pre(b)) = 0
      BY <2>4, FS_EmptySet
    <3>2. Cardinality(HashRefs(b) \cup Pre(b))
            = Cardinality(HashRefs(b)) + Cardinality(Pre(b)) - Cardinality(HashRefs(b) \cap Pre(b))
      BY <2>2, <2>5, FS_Union
    <3> QED BY <2>1, <2>2, <2>5, <3>1, <3>2
  <2>7. TableRefs(b)' = TableRefs(b)
    BY DEF TableRefs
  <2>8. refs'[b] = refs[b] + Cardinality(N)
    BY <1>5
  <2>9. refs[b] = Cardinality(TableRefs(b)) + Cardinality(HashRefs(b))
    BY DEF RefsExact
  <2> HIDE DEF N, Pre
  <2> QED BY <2>1, <2>3, <2>5, <2>6, <2>7, <2>8, <2>9
<1>12. refs' \in [Block -> Nat]
  BY <1>5, <1>11
<1> QED BY <1>9, <1>10, <1>11, <1>12 DEF RefsFinite, RefsExact

LEMMA CommitInv == ASSUME IInv, Commit PROVE IInv'
<1> USE DEF IInv, Counted
<1> DEFINE t == ids[Cur] \o jobs[at].toks
<1>1. /\ phase = "commit"
      /\ ids' = [ids EXCEPT ![Cur] = t] /\ InternFull(Cur, t)
      /\ suffix' = [suffix EXCEPT ![Cur] = <<>>]
      /\ prepared' = [prepared EXCEPT ![Cur] = 0]
      /\ UNCHANGED <<content, live, table>>
  BY DEF Commit
<1>2. /\ Len(jobs) \in Nat /\ at \in 1 .. Len(jobs) /\ Cur \in Seqs
      /\ \A j \in 1 .. Len(jobs) : jobs[j].seq \in Seqs
      /\ ids[Cur] \in Seq(Token) /\ jobs[at].toks \in Seq(Token)
      /\ DOMAIN jobs = 1 .. Len(jobs)
  BY <1>1, CurrentJob, LenProperties DEF TypeOK
<1>3. t \in Seq(Token) /\ Len(t) = End(at)
  BY <1>2, ConcatProperties DEF End, Cur
<1>4. \A j \in at .. Len(jobs) : Secured(j)
  BY <1>1 DEF Covered
<1>5. Len(t) <= Len(table[Cur]) * BlockSize
  BY <1>2, <1>3, <1>4 DEF Secured, Cur
<1> HIDE DEF t
<1>6. /\ refs' \in [Block -> Nat]
      /\ DOMAIN byHash' \subseteq Seq(Token) /\ IsFiniteSet(DOMAIN byHash')
      /\ byHash' \in [DOMAIN byHash' -> Block]
      /\ RefsFinite' /\ RefsExact'
  BY <1>1, <1>2, <1>3, <1>5, InternCounts
<1>7. /\ ids' \in [Seqs -> Seq(Token)] /\ suffix' \in [Seqs -> Seq(Token)]
      /\ prepared' \in [Seqs -> Nat]
  BY <1>1, <1>2, <1>3, EmptySeq DEF TypeOK
<1>8. \A s \in Seqs : Len(ids'[s]) <= Len(table'[s]) * BlockSize
  BY <1>1, <1>2, <1>5 DEF Covered, TypeOK
<1>9. CASE at < Len(jobs) /\ at' = at + 1 /\ UNCHANGED <<phase, op, jobs, pos, result>>
  <2>1. at + 1 \in 1 .. Len(jobs) /\ at + 1 \in Nat
    BY <1>2, <1>9
  <2>2. TypeOK'
    BY <1>1, <1>6, <1>7, <1>9, <2>1 DEF TypeOK
  <2>3. CallShape'
    BY <1>2, <1>9, <2>1 DEF CallShape
  <2>4. ASSUME NEW j \in at + 1 .. Len(jobs) PROVE Secured(j)'
    <3>1. j \in 1 .. Len(jobs) /\ at # j /\ Secured(j)
      BY <1>2, <1>4
    <3>2. jobs[j].seq # Cur
      BY <1>1, <1>2, <3>1 DEF CallShape, Cur
    <3>3. ids'[jobs[j].seq] = ids[jobs[j].seq]
      BY <1>1, <1>2, <3>1, <3>2 DEF TypeOK
    <3>4. End(j)' = End(j)
      BY <1>9, <3>3 DEF End
    <3> QED BY <1>1, <1>9, <3>1, <3>4 DEF Secured
  <2>5. Covered'
    BY <1>1, <1>8, <1>9, <2>4 DEF Covered
  <2> QED BY <1>6, <2>2, <2>3, <2>5
<1>10. CASE Finish("ok")
  <2>1. <<>> \in Seq(Job)
    OBVIOUS
  <2>2. TypeOK'
    BY <1>1, <1>6, <1>7, <1>10, <2>1 DEF TypeOK, Finish, Outcome
  <2>3. Covered' /\ CallShape'
    BY <1>8, <1>10 DEF Covered, CallShape, Finish
  <2> QED BY <1>6, <2>2, <2>3
<1> QED BY <1>9, <1>10 DEF Commit

-----------------------------------------------------------------------------
(* The theorems. *)

(* Stuttering changes nothing the invariant speaks of. *)
LEMMA StutterInv == ASSUME IInv, UNCHANGED vars PROVE IInv'
<1> USE DEF IInv, Counted, vars, poolVars, cacheVars, callVars
<1>1. RefsFinite' /\ RefsExact'
  BY CountsKept
<1>2. TypeOK' /\ CallShape'
  BY DEF TypeOK, CallShape
<1>3. Covered'
  BY DEF Covered, Secured, End, Cur
<1> QED BY <1>1, <1>2, <1>3

(* Every step of every call keeps the invariant. *)
LEMMA NextInv == ASSUME IInv, [Next]_vars PROVE IInv'
<1>1. ASSUME NEW s \in Seqs, NewCache(s) PROVE IInv'
  BY <1>1, NewCacheInv
<1>2. ASSUME NEW s \in Seqs, Preempt(s) PROVE IInv'
  <2>1. live' \subseteq Seqs
    BY <1>2 DEF Preempt, IInv, Counted, TypeOK
  <2> QED BY <1>2, <2>1, ClearInv DEF Preempt
<1>3. ASSUME NEW s \in Seqs, DropCache(s) PROVE IInv'
  <2>1. live' \subseteq Seqs
    BY <1>3 DEF DropCache, IInv, Counted, TypeOK
  <2> QED BY <1>3, <2>1, ClearInv DEF DropCache
<1>4. ASSUME NEW s \in Seqs, NEW p \in Prompts, NEW max \in Chunks, PromptSuffix(s, p, max)
      PROVE  IInv'
  BY <1>4, PromptSuffixInv
<1>5. ASSUME NEW s \in Seqs, NEW extra \in Extras, StartPrepare(s, extra) PROVE IInv'
  BY <1>5, StartPrepareInv
<1>6. ASSUME NEW js \in Batches, StartPrefill(js) PROVE IInv'
  BY <1>6, StartPrefillInv
<1>7. ASSUME CallStep PROVE IInv'
  BY <1>7, ErrorInv, FaultInv, CowInv, ReservedInv, NextJobInv, TransformerInv, CommitInv
     DEF CallStep
<1>8. CASE UNCHANGED vars
  BY <1>8, StutterInv
<1> QED BY <1>1, <1>2, <1>3, <1>4, <1>5, <1>6, <1>7, <1>8 DEF Next

(* The inductive invariant holds in every reachable state. *)
THEOREM Invariant == Spec => []IInv
<1>1. Init => IInv
  BY InitInv
<1>2. IInv /\ [Next]_vars => IInv'
  BY NextInv
<1> QED BY <1>1, <1>2, PTL DEF Spec

(* Reference counts never underflow and every variable keeps its type: release
   in kv_page.rs never meets a zero count. *)
THEOREM TypeCorrect == Spec => []TypeOK
<1>1. IInv => TypeOK
  BY DEF IInv, Counted
<1> QED BY <1>1, Invariant, PTL

(* Every block's reference count is the number of table entries plus intern
   entries that name it, after every retain, release, copy-on-write, intern and
   eviction, for any number of caches and blocks. *)
THEOREM RefsAlwaysExact == Spec => []RefsExact
<1>1. IInv => RefsExact
  BY DEF IInv, Counted
<1> QED BY <1>1, Invariant, PTL

(* No position below n_past and no position reserved by a running call is ever
   without a block in its cache's table. *)
THEOREM AlwaysCovered == Spec => []Covered
<1>1. IInv => Covered
  BY DEF IInv
<1> QED BY <1>1, Invariant, PTL
=============================================================================
