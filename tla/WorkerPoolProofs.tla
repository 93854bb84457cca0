-------------------------- MODULE WorkerPoolProofs ---------------------------
(***************************************************************************)
(* For every number of workers, row counts and kernels that refuse or       *)
(* panic: a product of WorkerPool that succeeded is exact, and at rest no    *)
(* reply and no clone of the input is left over.                            *)
(*                                                                         *)
(* The inductive invariant is IInv.  The rows written, the tasks of the      *)
(* workers and the replies on their way are ranges of one product that never *)
(* meet (TasksOK, OutputOK), so a count of rows that reaches the row count   *)
(* means every row; and no more replies are on their way than the caller     *)
(* still waits for (CountsOK), so none is left when run returns.             *)
(***************************************************************************)
EXTENDS WorkerPool, FiniteSetTheorems, SequenceTheorems, WellFoundedInduction, TLAPS

-----------------------------------------------------------------------------
(* The invariant. *)

Busy(w) == state[w] \in {"rows", "reply"}

(* The workers that owe a reply and will give it unless their kernel panics. *)
Pending == {w \in Worker : ~Silent(w) /\ (Busy(w) \/ inbox[w] # <<>>)}

(* The task such a worker has, received or not. *)
TaskOf(w) == IF Busy(w) THEN cur[w] ELSE inbox[w][1]

Exact(r) == [job |-> job, x |-> job, row |-> r]

Written == {r \in Row : y[r] # None}

Apart(t, u) == t.first + t.len <= u.first \/ u.first + u.len <= t.first

(* A range of the current product behind the caller's own, handed out and not yet
   written. *)
Ours(t) ==
  /\ t \in Task /\ t.job = job /\ t.x = job
  /\ Least(Chunk(rows), rows) <= t.first /\ t.first + t.len <= first
  /\ \A r \in Row : t.first <= r /\ r < t.first + t.len => y[r] = None

(* A channel of a worker that is alive holds at most one task, and none while it
   is busy. *)
Shape ==
  \A w \in Worker : ~Silent(w) =>
    inbox[w] = <<>> \/ (~Busy(w) /\ Len(inbox[w]) = 1 /\ inbox[w][1] \in Task)

TasksOK ==
  /\ \A w \in Pending : Ours(TaskOf(w))
  /\ \A i \in DOMAIN done : Ours(done[i].task)
  /\ \A v, w \in Pending : v # w => Apart(TaskOf(v), TaskOf(w))
  /\ \A w \in Pending, i \in DOMAIN done : Apart(TaskOf(w), done[i].task)
  /\ \A i, j \in DOMAIN done : i # j => Apart(done[i].task, done[j].task)

OutputOK ==
  /\ \A r \in Written : r < rows /\ y[r] = Exact(r)
  /\ filled = Cardinality(Written)
  /\ pc \in {"send", "own"} => Written = {}

CountsOK ==
  /\ Pending \subseteq 1 .. sent
  /\ got + Len(done) + Cardinality(Pending) <= sent
  /\ spare + Len(done) + Cardinality(Pending) <= made

BusyTyped == \A w \in Worker : Busy(w) => cur[w] \in Task

Live == pc \in {"idle", "send", "own", "collect", "fallback"}

Active == pc \in {"send", "own", "collect"}

RunOK ==
  /\ staged = job /\ Least(Chunk(rows), rows) <= first
  /\ TasksOK /\ OutputOK /\ CountsOK

RestOK == done = <<>> /\ Pending = {}

IInv ==
  /\ TypeOK /\ BusyTyped
  /\ Live => Shape
  /\ Active => RunOK
  /\ pc \in {"idle", "fallback"} => RestOK
  /\ Active \/ pc = "fallback" => job # 0
  /\ GemvExact

-----------------------------------------------------------------------------
(* Row counts. *)

(* A finite set of naturals has its greatest element. *)
LEMMA GreatestIn ==
  ASSUME NEW S, IsFiniteSet(S), S # {}, S \subseteq Nat
  PROVE  \E n \in S : \A m \in S : m <= n
<1> DEFINE Top(T) == \E n \in T : \A m \in T : m <= n
           Bad == {T \in SUBSET S : T # {} /\ ~Top(T)}
           R == StrictSubsetOrdering(S)
<1>1. IsWellFoundedOn(R, SUBSET S)
  BY FS_StrictSubsetOrderingWellFounded, FS_FiniteSubsetsOfFinite
<1>2. ASSUME NEW T \in SUBSET S, NEW U \in SUBSET S, U \subseteq T, U # T
      PROVE <<U, T>> \in R
  BY <1>2, Zenon DEF StrictSubsetOrdering
<1>3. SUFFICES ASSUME Bad # {} PROVE FALSE
  <2>1. S \in Bad \/ Top(S)
    OBVIOUS
  <2> QED BY <2>1
<1> HIDE DEF R
<1>4. PICK T \in Bad : \A U \in Bad : ~(<<U, T>> \in R)
  BY <1>1, <1>3, WFMin
<1>5. PICK x \in T : x \in Nat
  OBVIOUS
<1>6. CASE T \ {x} = {}
  BY <1>5, <1>6
<1>7. CASE T \ {x} # {}
  <2>1. T \ {x} \notin Bad
    <3>1. T \in SUBSET S /\ T \ {x} \in SUBSET S /\ T \ {x} \subseteq T /\ T \ {x} # T
      BY <1>5
    <3>2. <<T \ {x}, T>> \in R
      BY <1>2, <3>1
    <3> QED BY <1>4, <3>2, Zenon
  <2>2. PICK n \in T \ {x} : \A m \in T \ {x} : m <= n
    BY <1>7, <2>1
  <2>3. n \in Nat /\ T \subseteq Nat
    OBVIOUS
  <2>4. CASE x <= n
    BY <2>2, <2>3, <2>4
  <2>5. CASE ~(x <= n)
    <3>1. \A m \in T : m <= x
      BY <1>5, <2>2, <2>3, <2>5
    <3> QED BY <1>5, <3>1
  <2> QED BY <2>4, <2>5
<1> QED BY <1>6, <1>7

LEMMA Counts ==
  ASSUME NEW n \in RowCounts
  PROVE  /\ N \in Nat \ {0} /\ MaxRuns \in Nat
         /\ n \in Nat \ {0} /\ Width \in Nat \ {0} /\ n <= Width
         /\ Chunk(n) \in Nat \ {0}
         /\ Least(Chunk(n), n) \in 1 .. n
<1>1. /\ N \in Nat \ {0} /\ MaxRuns \in Nat /\ n \in Nat \ {0}
      /\ IsFiniteSet(RowCounts) /\ RowCounts # {} /\ RowCounts \subseteq Nat \ {0}
  BY PoolAssumption
<1>2. \E m \in RowCounts : \A k \in RowCounts : k <= m
  BY <1>1, GreatestIn
<1>3. Width \in RowCounts /\ \A k \in RowCounts : k <= Width
  BY <1>2 DEF Width
<1>4. Chunk(n) \in Nat /\ Chunk(n) >= 1
  BY <1>1 DEF Chunk
<1>5. Least(Chunk(n), n) \in 1 .. n
  BY <1>1, <1>4 DEF Least
<1> QED BY <1>1, <1>3, <1>4, <1>5

LEMMA FromZero ==
  ASSUME NEW n \in Nat
  PROVE  IsFiniteSet(0 .. n - 1) /\ Cardinality(0 .. n - 1) = n
<1> DEFINE b == n - 1
<1>1. b \in Int /\ 0 \in Int /\ (0 > b => n = 0) /\ b - 0 + 1 = n
  OBVIOUS
<1> HIDE DEF b
<1>2. IsFiniteSet(0 .. b) /\ Cardinality(0 .. b) = IF 0 > b THEN 0 ELSE b - 0 + 1
  BY <1>1, FS_Interval
<1>3. Cardinality(0 .. b) = n
  BY <1>1, <1>2
<1> QED BY <1>2, <1>3 DEF b

LEMMA WorkersFinite ==
  ASSUME NEW S, S \subseteq Worker
  PROVE  IsFiniteSet(S) /\ Cardinality(S) \in Nat
<1>1. IsFiniteSet(Worker)
  BY FS_Interval, PoolAssumption DEF Worker
<1> QED BY <1>1, FS_Subset, FS_CardinalityType

LEMMA RowsFinite ==
  ASSUME NEW S, S \subseteq Row, TypeOK
  PROVE  IsFiniteSet(S) /\ Cardinality(S) \in Nat
<1>1. Width \in Nat
  BY Counts DEF TypeOK
<1>2. IsFiniteSet(Row)
  BY <1>1, FS_Interval DEF Row
<1> QED BY <1>2, FS_Subset, FS_CardinalityType

-----------------------------------------------------------------------------
(* Steps of the workers: what they owe and what they hold. *)

LEMMA TaskFacts ==
  ASSUME NEW t \in Task
  PROVE  /\ t # Stop
         /\ t.job \in Jobs /\ t.x \in Jobs /\ t.first \in Nat /\ t.len \in Nat \ {0}
<1>1. PICK n \in RowCounts : TRUE
  BY PoolAssumption
<1>2. Width \in Nat /\ MaxRuns \in Nat
  BY <1>1, Counts
<1>3. t \in [job : Nat, x : Nat, first : Nat, len : Nat]
  BY <1>2 DEF Task, Jobs, Row
<1> QED BY <1>2, <1>3, MarkersAssumption DEF Task, Row

LEMMA InboxFacts ==
  ASSUME TypeOK, NEW w \in Worker
  PROVE  /\ inbox[w] \in Seq(Task \cup {Stop}) /\ Len(inbox[w]) \in 0 .. 2
         /\ inbox[w] # <<>> =>
              /\ Len(inbox[w]) \in 1 .. 2 /\ Head(inbox[w]) = inbox[w][1]
              /\ Head(inbox[w]) \in Task \cup {Stop}
              /\ Tail(inbox[w]) \in Seq(Task \cup {Stop})
              /\ Len(Tail(inbox[w])) = Len(inbox[w]) - 1
<1>1. inbox[w] \in Seq(Task \cup {Stop}) /\ Len(inbox[w]) <= 2
  BY DEF TypeOK
<1>2. Len(inbox[w]) \in Nat
  BY <1>1, LenProperties
<1>3. inbox[w] # <<>> => Len(inbox[w]) # 0
  BY <1>1, EmptySeq
<1>4. inbox[w] # <<>> => Head(inbox[w]) = inbox[w][1]
  BY <1>1
<1>5. inbox[w] # <<>> => /\ Head(inbox[w]) \in Task \cup {Stop}
                         /\ Tail(inbox[w]) \in Seq(Task \cup {Stop})
                         /\ Len(Tail(inbox[w])) = Len(inbox[w]) - 1
  BY <1>1, HeadTailProperties
<1> DEFINE n == Len(inbox[w])
<1>6. n \in 0 .. 2 /\ (inbox[w] # <<>> => n \in 1 .. 2)
  <2>1. n \in Nat /\ n <= 2 /\ (inbox[w] # <<>> => n # 0)
    BY <1>1, <1>2, <1>3
  <2> HIDE DEF n
  <2> QED BY <2>1
<1> QED BY <1>1, <1>4, <1>5, <1>6

LEMMA WorkerTyped ==
  ASSUME TypeOK, BusyTyped, NEW w \in Worker, WorkerStep(w) \/ Panic(w)
  PROVE  TypeOK' /\ BusyTyped' /\ UNCHANGED <<callVars, bufVars>>
<1> USE DEF TypeOK, BusyTyped, callVars, bufVars
<1>0. /\ inbox[w] \in Seq(Task \cup {Stop}) /\ Len(inbox[w]) \in 0 .. 2
      /\ inbox[w] # <<>> =>
              /\ Len(inbox[w]) \in 1 .. 2
              /\ Head(inbox[w]) \in Task \cup {Stop}
              /\ Tail(inbox[w]) \in Seq(Task \cup {Stop})
              /\ Len(Tail(inbox[w])) = Len(inbox[w]) - 1
      /\ <<>> \in Seq(Task \cup {Stop}) /\ Len(<<>>) = 0
  BY InboxFacts, EmptySeq
<1>1. CASE Receive(w)
  <2>1. UNCHANGED <<callVars, done, bufVars>>
    BY <1>1 DEF Receive
  <2>2. CASE Head(inbox[w]) = Stop
    <3> DEFINE e == <<>>
    <3>1. e \in Seq(Task \cup {Stop}) /\ Len(e) <= 2
      BY <1>0
    <3>2. /\ state' = [state EXCEPT ![w] = "exited"]
          /\ inbox' = [inbox EXCEPT ![w] = e] /\ cur' = cur
      BY <1>1, <2>2 DEF Receive
    <3> HIDE DEF e
    <3>3. BusyTyped'
      BY <3>2 DEF Busy
    <3>4. inbox' \in [Worker -> Seq(Task \cup {Stop})] /\ \A v \in Worker : Len(inbox'[v]) <= 2
      BY <3>1, <3>2
    <3> QED BY <2>1, <3>2, <3>3, <3>4
  <2>3. CASE Head(inbox[w]) # Stop
    <3>1. /\ Head(inbox[w]) \in Task /\ Len(Tail(inbox[w])) <= 2
          /\ Tail(inbox[w]) \in Seq(Task \cup {Stop})
      BY <1>0, <1>1, <2>3 DEF Receive
    <3>2. /\ state' = [state EXCEPT ![w] = "rows"]
          /\ inbox' = [inbox EXCEPT ![w] = Tail(@)]
          /\ cur' = [cur EXCEPT ![w] = Head(inbox[w])]
      BY <1>1, <2>3 DEF Receive
    <3>3. BusyTyped' /\ cur' \in [Worker -> Task \cup {None}]
      BY <3>1, <3>2 DEF Busy
    <3> QED BY <2>1, <3>1, <3>2, <3>3
  <2> QED BY <2>2, <2>3
<1>2. CASE Compute(w)
  BY <1>2 DEF Compute, Busy
<1>3. CASE Exit(w)
  BY <1>0, <1>3 DEF Exit, Busy
<1>4. CASE Panic(w)
  BY <1>4 DEF Panic, Busy
<1>5. CASE \E takes \in BOOLEAN : SendReply(w, takes)
  <2>1. PICK takes \in BOOLEAN : SendReply(w, takes)
    BY <1>5
  <2>2. [task |-> cur[w], ok |-> takes] \in Reply
    BY <2>1 DEF SendReply, Busy, Reply
  <2>3. /\ done' = Append(done, [task |-> cur[w], ok |-> takes])
        /\ Len(done) < N /\ N \in Nat
    BY <2>1, PoolAssumption DEF SendReply, ReplyBound
  <2>4. done' \in Seq(Reply) /\ Len(done') <= N
    BY <2>2, <2>3, AppendProperties, LenProperties
  <2> QED BY <2>1, <2>4 DEF SendReply, Busy
<1> QED BY <1>1, <1>2, <1>3, <1>4, <1>5 DEF WorkerStep

(* Receiving a task moves it from the channel to the worker. *)
LEMMA ReceiveTasks ==
  ASSUME TypeOK, Shape, NEW w \in Worker, Receive(w)
  PROVE  /\ Shape' /\ done' = done
         /\ Pending' = Pending /\ \A v \in Pending : TaskOf(v)' = TaskOf(v)
<1>1. /\ state[w] = "wait" /\ inbox[w] # <<>> /\ ~Silent(w) /\ ~Busy(w)
  BY DEF Receive, Silent, Busy
<1>2. Len(inbox[w]) = 1 /\ inbox[w][1] \in Task /\ Head(inbox[w]) = inbox[w][1]
  BY <1>1, InboxFacts DEF Shape
<1>3. Head(inbox[w]) # Stop
  BY <1>2, TaskFacts
<1>4. Tail(inbox[w]) = <<>>
  <2>1. Tail(inbox[w]) \in Seq(Task \cup {Stop}) /\ Len(Tail(inbox[w])) = 0
    BY <1>1, <1>2, InboxFacts
  <2> QED BY <2>1, EmptySeq
<1>5. /\ state' = [state EXCEPT ![w] = "rows"] /\ inbox' = [inbox EXCEPT ![w] = <<>>]
      /\ cur' = [cur EXCEPT ![w] = inbox[w][1]] /\ done' = done
  BY <1>2, <1>3, <1>4 DEF Receive
<1>6. /\ state \in [Worker -> {"wait", "rows", "reply", "unwind", "exited"}]
      /\ DOMAIN inbox = Worker /\ DOMAIN cur = Worker
  BY DEF TypeOK
<1>7. /\ ~Silent(w)' /\ Busy(w)' /\ inbox'[w] = <<>> /\ cur'[w] = inbox[w][1]
      /\ \A v \in Worker \ {w} : /\ Silent(v)' = Silent(v) /\ Busy(v)' = Busy(v)
                                  /\ inbox'[v] = inbox[v] /\ cur'[v] = cur[v]
  BY <1>5, <1>6 DEF Silent, Busy
<1> HIDE DEF Silent, Busy
<1> QED BY <1>1, <1>5, <1>7 DEF Shape, Pending, TaskOf

(* Computing keeps the task; a panic or an exit gives it up. *)
LEMMA OtherTasks ==
  ASSUME TypeOK, Shape, NEW w \in Worker, Compute(w) \/ Panic(w) \/ Exit(w)
  PROVE  /\ Shape' /\ done' = done
         /\ Pending' \subseteq Pending /\ \A v \in Pending' : TaskOf(v)' = TaskOf(v)
<1>1. /\ state \in [Worker -> {"wait", "rows", "reply", "unwind", "exited"}]
      /\ DOMAIN inbox = Worker /\ DOMAIN cur = Worker
  BY DEF TypeOK
<1>2. \A v \in Worker \ {w} : /\ Silent(v)' = Silent(v) /\ Busy(v)' = Busy(v)
                              /\ inbox'[v] = inbox[v] /\ cur'[v] = cur[v]
  BY <1>1 DEF Compute, Panic, Exit, Silent, Busy
<1>3. CASE Compute(w)
  <2>1. Busy(w) /\ Busy(w)' /\ ~Silent(w) /\ ~Silent(w)' /\ inbox' = inbox /\ cur' = cur /\ done' = done
    BY <1>1, <1>3 DEF Compute, Silent, Busy
  <2> QED BY <1>2, <2>1 DEF Shape, Pending, TaskOf
<1>4. CASE Panic(w) \/ Exit(w)
  <2>1. Silent(w)' /\ done' = done
    BY <1>1, <1>4 DEF Panic, Exit, Silent
  <2> QED BY <1>2, <2>1 DEF Shape, Pending, TaskOf
<1> QED BY <1>3, <1>4

(* A reply takes the task with it. *)
LEMMA ReplyTasks ==
  ASSUME TypeOK, Shape, NEW w \in Worker, NEW takes \in BOOLEAN, SendReply(w, takes)
  PROVE  /\ Shape' /\ w \in Pending /\ Pending' = Pending \ {w}
         /\ \A v \in Pending' : TaskOf(v)' = TaskOf(v)
         /\ done' = Append(done, [task |-> TaskOf(w), ok |-> takes])
<1>1. /\ state \in [Worker -> {"wait", "rows", "reply", "unwind", "exited"}]
      /\ DOMAIN cur = Worker
  BY DEF TypeOK
<1>2. /\ ~Silent(w) /\ ~Silent(w)' /\ Busy(w) /\ ~Busy(w)' /\ inbox' = inbox
      /\ done' = Append(done, [task |-> cur[w], ok |-> takes])
      /\ \A v \in Worker \ {w} : /\ Silent(v)' = Silent(v) /\ Busy(v)' = Busy(v)
                                  /\ cur'[v] = cur[v]
  BY <1>1 DEF SendReply, Silent, Busy
<1>3. inbox[w] = <<>>
  BY <1>2 DEF Shape
<1> QED BY <1>2, <1>3 DEF Shape, Pending, TaskOf

-----------------------------------------------------------------------------
(* Steps of the workers: what they do to the current product. *)

LEMMA FewerRun ==
  ASSUME TypeOK, RunOK, UNCHANGED <<callVars, done, bufVars>>,
         Pending' \subseteq Pending, \A v \in Pending' : TaskOf(v)' = TaskOf(v)
  PROVE  RunOK'
<1>0. UNCHANGED <<pc, job, rows, y, staged, first, sent, got, filled, done, spare, made>>
  BY DEF callVars, bufVars
<1>1. \A t : Ours(t)' <=> Ours(t)
  BY <1>0 DEF Ours
<1>2. TasksOK'
  BY <1>0, <1>1 DEF RunOK, TasksOK, Apart
<1>3. OutputOK'
  BY <1>0 DEF RunOK, OutputOK, Written, Exact
<1>4. CountsOK'
  <2>1. Pending \subseteq Worker /\ Pending' \subseteq Worker
    BY DEF Pending
  <2>2. /\ Cardinality(Pending) \in Nat /\ Cardinality(Pending') \in Nat
        /\ Cardinality(Pending') <= Cardinality(Pending)
    BY <2>1, WorkersFinite, FS_Subset
  <2>3. Len(done) \in Nat /\ got \in Nat /\ sent \in Nat /\ spare \in Nat /\ made \in Nat
    BY LenProperties, PoolAssumption DEF TypeOK
  <2> DEFINE a == Cardinality(Pending)
             b == Cardinality(Pending')
             n == Len(done)
  <2>4. got + n + a <= sent /\ spare + n + a <= made
    BY DEF RunOK, CountsOK
  <2>5. Pending' \subseteq 1 .. sent'
    BY <1>0 DEF RunOK, CountsOK
  <2>6. b <= a /\ a \in Nat /\ b \in Nat /\ n \in Nat
    BY <2>2, <2>3
  <2> HIDE DEF a, b, n
  <2>7. got + n + b <= sent /\ spare + n + b <= made
    BY <2>3, <2>4, <2>6
  <2> QED BY <1>0, <2>5, <2>7 DEF CountsOK, b, n
<1> QED BY <1>0, <1>2, <1>3, <1>4 DEF RunOK

LEMMA DoneFacts ==
  ASSUME TypeOK
  PROVE  /\ Len(done) \in Nat /\ DOMAIN done = 1 .. Len(done)
         /\ \A i \in DOMAIN done : done[i] \in Reply
  BY LenProperties, ElementOfSeq DEF TypeOK

LEMMA ReplyRun ==
  ASSUME TypeOK, RunOK, UNCHANGED <<callVars, bufVars>>,
         NEW w \in Pending, NEW takes \in BOOLEAN,
         Pending' = Pending \ {w}, \A v \in Pending' : TaskOf(v)' = TaskOf(v),
         done' = Append(done, [task |-> TaskOf(w), ok |-> takes])
  PROVE  RunOK'
<1>0. UNCHANGED <<pc, job, rows, y, staged, first, sent, got, filled, spare, made>>
  BY DEF callVars, bufVars
<1>1. \A t : Ours(t)' <=> Ours(t)
  BY <1>0 DEF Ours
<1> DEFINE n == Len(done)
           m == Len(done')
<1>2. /\ n \in Nat /\ m = n + 1 /\ DOMAIN done = 1 .. n /\ DOMAIN done' = 1 .. n + 1
      /\ \A i \in 1 .. n : done'[i] = done[i]
      /\ done'[n + 1].task = TaskOf(w)
  <2>1. TaskOf(w) \in Task
    BY DEF RunOK, TasksOK, Ours
  <2>2. [task |-> TaskOf(w), ok |-> takes] \in Reply /\ done \in Seq(Reply)
    BY <2>1 DEF Reply, TypeOK
  <2>3. done' \in Seq(Reply)
    BY <2>2, AppendProperties
  <2> QED BY <2>2, <2>3, AppendProperties, LenProperties
<1> HIDE DEF n, m
<1>3. TasksOK'
  <2> USE DEF RunOK, TasksOK
  <2>1. \A v \in Pending' : v \in Pending /\ v # w /\ TaskOf(v)' = TaskOf(v)
    OBVIOUS
  <2>2. \A v \in Pending' : Ours(TaskOf(v))'
    BY <1>1, <2>1
  <2>3. \A i \in DOMAIN done' : Ours(done[i].task)'
    BY <1>1, <1>2
  <2>4. \A u, v \in Pending' : u # v => Apart(TaskOf(u), TaskOf(v))'
    BY <2>1 DEF Apart
  <2>5. \A v \in Pending', i \in DOMAIN done' : Apart(TaskOf(v), done[i].task)'
    BY <1>2, <2>1 DEF Apart
  <2>6. \A i, j \in DOMAIN done' : i # j => Apart(done[i].task, done[j].task)'
    <3> SUFFICES ASSUME NEW i \in 1 .. n + 1, NEW j \in 1 .. n + 1, i # j
                 PROVE  Apart(done[i].task, done[j].task)'
      BY <1>2
    <3>1. CASE i # n + 1 /\ j # n + 1
      BY <1>2, <3>1 DEF Apart
    <3>2. CASE i = n + 1
      <4>1. j \in 1 .. n /\ Apart(TaskOf(w), done[j].task)
        BY <1>2, <3>2
      <4> QED BY <1>2, <3>2, <4>1 DEF Apart
    <3>3. CASE j = n + 1
      <4>1. i \in 1 .. n /\ Apart(TaskOf(w), done[i].task)
        BY <1>2, <3>3
      <4> QED BY <1>2, <3>3, <4>1 DEF Apart
    <3> QED BY <3>1, <3>2, <3>3
  <2> QED BY <2>2, <2>3, <2>4, <2>5, <2>6
<1>4. OutputOK'
  BY <1>0 DEF RunOK, OutputOK, Written, Exact
<1>5. CountsOK'
  <2>1. Pending \subseteq Worker
    BY DEF Pending
  <2> DEFINE a == Cardinality(Pending)
             b == Cardinality(Pending')
  <2>2. a \in Nat /\ b = a - 1
    BY <2>1, WorkersFinite, FS_RemoveElement
  <2>3. got \in Nat /\ sent \in Nat /\ spare \in Nat /\ made \in Nat
    BY PoolAssumption DEF TypeOK
  <2>4. got + n + a <= sent /\ spare + n + a <= made
    BY DEF RunOK, CountsOK, n
  <2>5. Pending' \subseteq 1 .. sent'
    BY <1>0 DEF RunOK, CountsOK
  <2> HIDE DEF a, b
  <2>6. got + m + b <= sent /\ spare + m + b <= made
    BY <1>2, <2>2, <2>3, <2>4
  <2> QED BY <1>0, <2>5, <2>6 DEF CountsOK, b, m
<1> QED BY <1>0, <1>3, <1>4, <1>5 DEF RunOK

LEMMA WorkerInv ==
  ASSUME IInv, NEW w \in Worker, WorkerStep(w) \/ Panic(w)
  PROVE  IInv'
<1> USE DEF IInv
<1>1. TypeOK' /\ BusyTyped' /\ UNCHANGED <<callVars, bufVars>>
  BY WorkerTyped
<1>2. UNCHANGED <<pc, job, rows, y, result>>
  BY <1>1 DEF callVars
<1>3. GemvExact'
  BY <1>2 DEF GemvExact
<1>4. CASE ~Live
  BY <1>1, <1>2, <1>3, <1>4 DEF Live, Active
<1>5. CASE Live
  <2>1. \/ /\ Shape' /\ done' = done
           /\ Pending' \subseteq Pending /\ \A v \in Pending' : TaskOf(v)' = TaskOf(v)
        \/ \E takes \in BOOLEAN :
             /\ Shape' /\ w \in Pending /\ Pending' = Pending \ {w}
             /\ \A v \in Pending' : TaskOf(v)' = TaskOf(v)
             /\ done' = Append(done, [task |-> TaskOf(w), ok |-> takes])
    BY <1>5, ReceiveTasks, OtherTasks, ReplyTasks DEF WorkerStep
  <2>2. Active => RunOK'
    BY <1>1, <2>1, FewerRun, ReplyRun
  <2>3. pc \in {"idle", "fallback"} => RestOK'
    BY <2>1 DEF RestOK
  <2> QED BY <1>1, <1>2, <1>3, <2>1, <2>2, <2>3 DEF Live, Active
<1> QED BY <1>4, <1>5

-----------------------------------------------------------------------------
(* Steps of the caller. *)

LEMMA WorkKept ==
  ASSUME UNCHANGED <<inbox, state, cur>>
  PROVE  /\ Pending' = Pending /\ \A v : TaskOf(v)' = TaskOf(v)
         /\ (Shape' <=> Shape) /\ (BusyTyped' <=> BusyTyped)
  BY DEF Pending, TaskOf, Shape, BusyTyped, Busy, Silent

LEMMA BlankOutput ==
  ASSUME TypeOK, y' = [r \in Row |-> None]
  PROVE  /\ y' \in [Row -> [job : Jobs, x : Jobs, row : Row] \cup {None}]
         /\ Written' = {}
  BY DEF Written

LEMMA BeginInv ==
  ASSUME IInv, NEW n \in RowCounts, Begin(n)
  PROVE  IInv'
<1> USE DEF IInv, Begin
<1>1. /\ Pending' = Pending /\ Shape' /\ BusyTyped'
      /\ UNCHANGED <<inbox, state, cur, done, spare, made, result>>
      /\ pc = "idle" /\ done = <<>> /\ Pending = {}
  <2>1. UNCHANGED <<inbox, state, cur, done, spare, made, result>> /\ pc = "idle"
    BY DEF workVars, bufVars
  <2> QED BY <2>1, WorkKept DEF Live, RestOK
<1>2. /\ N \in Nat \ {0} /\ MaxRuns \in Nat /\ n \in Nat \ {0}
      /\ Least(Chunk(n), n) \in 1 .. n
  BY Counts
<1>3. /\ job' = job + 1 /\ job \in 0 .. MaxRuns /\ job < MaxRuns
      /\ job' \in 0 .. MaxRuns /\ job' # 0
  BY <1>2 DEF TypeOK
<1>4. /\ y' \in [Row -> [job : Jobs, x : Jobs, row : Row] \cup {None}]
      /\ Written' = {}
  BY BlankOutput
<1>5. first' \in 0 .. n /\ staged' \in 0 .. MaxRuns /\ pc' \in {"send", "fallback"}
  BY <1>2, <1>3 DEF TypeOK
<1>6. TypeOK'
  BY <1>1, <1>2, <1>3, <1>4, <1>5 DEF TypeOK
<1>7. CASE pc' = "send"
  <2>1. staged' = job' /\ first' = Least(Chunk(rows), rows)' /\ first' \in Nat
    BY <1>2, <1>7 DEF Least, Chunk
  <2>2. TasksOK'
    BY <1>1 DEF TasksOK
  <2>3. OutputOK'
    BY <1>4, FS_EmptySet DEF OutputOK
  <2>4. Cardinality(Pending') = 0 /\ Len(done') = 0 /\ spare' \in 0 .. made' /\ made' \in Nat
    BY <1>1, <1>6, FS_EmptySet DEF TypeOK
  <2>5. CountsOK'
    BY <1>1, <2>4 DEF CountsOK
  <2>6. RunOK'
    BY <2>1, <2>2, <2>3, <2>5 DEF RunOK
  <2> QED BY <1>1, <1>3, <1>6, <1>7, <2>6 DEF Live, Active, GemvExact
<1>8. CASE pc' = "fallback"
  BY <1>1, <1>3, <1>6, <1>8 DEF Live, Active, RestOK, GemvExact
<1> QED BY <1>5, <1>7, <1>8

(* The rows of a task filled in. *)
LEMMA FilledRows ==
  ASSUME TypeOK, NEW t \in Task, t.job = job, t.x = job, t.first + t.len <= rows,
         \A r \in Written : r < rows /\ y[r] = Exact(r),
         \A r \in Row : t.first <= r /\ r < t.first + t.len => y[r] = None,
         y' = Filled(t), UNCHANGED <<job, rows>>
  PROVE  /\ y' \in [Row -> [job : Jobs, x : Jobs, row : Row] \cup {None}]
         /\ \A r \in Written' : r < rows' /\ y'[r] = Exact(r)'
         /\ Cardinality(Written') = Cardinality(Written) + t.len
         /\ \A r \in Row : y[r] = None /\ ~(t.first <= r /\ r < t.first + t.len) => y'[r] = None
<1> DEFINE S == t.first .. t.first + t.len - 1
<1>1. /\ t.job \in Jobs /\ t.x \in Jobs /\ t.first \in Nat /\ t.len \in Nat \ {0}
      /\ rows \in Nat \ {0} /\ Width \in Nat /\ rows <= Width
  BY TaskFacts, Counts DEF TypeOK
<1>2. S \subseteq Row /\ \A r \in Row : r \in S <=> t.first <= r /\ r < t.first + t.len
  BY <1>1 DEF Row
<1>3. /\ \A r \in Row : y'[r] = IF r \in S THEN [job |-> t.job, x |-> t.x, row |-> r] ELSE y[r]
      /\ y' = [r \in Row |-> IF r \in S THEN [job |-> t.job, x |-> t.x, row |-> r] ELSE y[r]]
  BY <1>2 DEF Filled
<1>4. Cardinality(S) = t.len /\ IsFiniteSet(S)
  <2> DEFINE a == t.first
             b == t.first + t.len - 1
  <2>1. a \in Int /\ b \in Int /\ ~(a > b) /\ b - a + 1 = t.len /\ S = a .. b
    BY <1>1
  <2> HIDE DEF a, b, S
  <2> QED BY <2>1, FS_Interval
<1>5. \A r \in S : r < rows
  BY <1>1
<1> HIDE DEF S
<1>6. \A r \in S : r \in Row /\ [job |-> t.job, x |-> t.x, row |-> r] # None
  <2>1. \A r \in S : r \in Row /\ r \in Nat
    BY <1>2 DEF Row
  <2>2. t.job \in Nat /\ t.x \in Nat
    BY <1>1, Counts DEF Jobs, TypeOK
  <2> QED BY <2>1, <2>2, MarkersAssumption
<1>7. Written' = Written \cup S /\ Written \cap S = {} /\ Written \subseteq Row
  BY <1>2, <1>3, <1>6 DEF Written
<1>8. Cardinality(Written') = Cardinality(Written) + t.len
  <2>1. IsFiniteSet(Written) /\ Cardinality(Written) \in Nat
    BY <1>7, RowsFinite
  <2>2. Cardinality(Written \cap S) = 0
    BY <1>7, FS_EmptySet
  <2>3. Cardinality(Written \cup S) = Cardinality(Written) + Cardinality(S) - Cardinality(Written \cap S)
    BY <1>4, <2>1, FS_Union
  <2> QED BY <1>1, <1>4, <1>7, <2>1, <2>2, <2>3
<1>9. y' \in [Row -> [job : Jobs, x : Jobs, row : Row] \cup {None}]
  BY <1>1, <1>3 DEF TypeOK
<1>10. ASSUME NEW r \in Written' PROVE r < rows' /\ y'[r] = Exact(r)'
  <2>1. CASE r \in S
    BY <1>2, <1>3, <1>5, <2>1 DEF Exact
  <2>2. CASE r \notin S
    <3>1. r \in Written /\ r \in Row
      BY <1>7, <2>2
    <3> QED BY <1>3, <2>2, <3>1 DEF Exact
  <2> QED BY <2>1, <2>2
<1> QED BY <1>2, <1>3, <1>8, <1>9, <1>10

LEMMA SendInv ==
  ASSUME IInv, Send
  PROVE  IInv'
<1> USE DEF IInv
<1> DEFINE L == Least(first + Chunk(rows), rows)
<1>1. /\ pc = "send" /\ sent < N /\ first < rows /\ ~Gone(sent + 1) /\ Len(inbox[sent + 1]) < 2
      /\ inbox' = [inbox EXCEPT ![sent + 1] =
                     Append(@, [job |-> job, x |-> staged, first |-> first, len |-> L - first])]
      /\ first' = first + (L - first) /\ sent' = sent + 1
      /\ \/ made' = made + 1 /\ spare' = spare
         \/ spare # 0 /\ spare' = spare - 1 /\ made' = made
      /\ UNCHANGED <<pc, job, rows, y, staged, ok, got, filled, result, state, cur, done>>
  BY DEF Send
<1>2. /\ RunOK /\ Shape /\ job # 0 /\ staged = job /\ Written = {}
  BY <1>1 DEF Live, Active, RunOK, OutputOK
<1>3. /\ N \in Nat \ {0} /\ MaxRuns \in Nat /\ rows \in Nat \ {0} /\ rows \in RowCounts
      /\ Width \in Nat \ {0} /\ rows <= Width /\ Chunk(rows) \in Nat \ {0}
      /\ job \in 1 .. MaxRuns /\ first \in 0 .. rows /\ sent \in 0 .. N /\ got \in 0 .. sent
      /\ spare \in 0 .. made /\ made \in Nat
  BY <1>2, Counts DEF TypeOK
<1>4. L \in Nat /\ first < L /\ L <= rows
  BY <1>1, <1>3 DEF Least
<1> HIDE DEF L
<1>t. PICK t \in Task : t = [job |-> job, x |-> staged, first |-> first, len |-> L - first]
  BY <1>1, <1>2, <1>3, <1>4 DEF Task, Jobs, Row
<1>w. PICK w \in Worker : w = sent + 1
  BY <1>1, <1>3 DEF Worker
<1>5. /\ t.job = job /\ t.x = job /\ t.first = first /\ t.first + t.len = L /\ first' = L
      /\ inbox' = [inbox EXCEPT ![w] = Append(@, t)] /\ ~Gone(w) /\ Len(inbox[w]) < 2
  <2>1. t.first = first /\ t.len = L - first
    BY <1>t
  <2> QED BY <1>1, <1>2, <1>3, <1>4, <1>t, <1>w, <2>1
<1>6. /\ DOMAIN inbox = Worker /\ inbox[w] \in Seq(Task \cup {Stop})
      /\ Len(inbox[w]) \in Nat
      /\ inbox'[w] = Append(inbox[w], t) /\ \A v \in Worker \ {w} : inbox'[v] = inbox[v]
  <2>1. DOMAIN inbox = Worker /\ inbox[w] \in Seq(Task \cup {Stop})
    BY DEF TypeOK
  <2>2. Len(inbox[w]) \in Nat
    BY <2>1, LenProperties
  <2> QED BY <1>5, <2>1, <2>2
<1>7. inbox'[w] \in Seq(Task \cup {Stop}) /\ Len(inbox'[w]) = Len(inbox[w]) + 1 /\ inbox'[w] # <<>>
  <2>1. inbox'[w] \in Seq(Task \cup {Stop}) /\ Len(inbox'[w]) = Len(inbox[w]) + 1
    BY <1>5, <1>6, AppendProperties
  <2>2. Len(inbox'[w]) # 0 /\ Len(<<>>) = 0
    BY <1>6, <2>1, EmptySeq
  <2> QED BY <2>1, <2>2
<1>8. TypeOK'
  <2>1. /\ inbox' \in [Worker -> Seq(Task \cup {Stop})]
        /\ \A v \in Worker : Len(inbox'[v]) <= 2
    <3>1. Len(inbox'[w]) <= 2
      BY <1>1, <1>6, <1>7
    <3> QED BY <1>1, <1>5, <1>6, <1>7, <3>1 DEF TypeOK
  <2>2. first' \in 0 .. rows /\ sent' \in 0 .. N /\ got \in 0 .. sent'
        /\ spare' \in 0 .. made' /\ made' \in Nat
    BY <1>1, <1>3, <1>4, <1>5
  <2> QED BY <1>1, <2>1, <2>2 DEF TypeOK
<1>9. BusyTyped'
  BY <1>1 DEF BusyTyped, Busy
<1>10. w \notin Pending /\ Pending \subseteq 1 .. sent
  BY <1>2, <1>3, <1>w DEF RunOK, CountsOK
<1>11. ~Silent(w) => inbox[w] = <<>> /\ ~Busy(w)
  <2>1. ~Silent(w) => inbox[w] = <<>> \/ ~Busy(w)
    BY <1>2, <1>5 DEF Shape
  <2> QED BY <1>5, <1>10 DEF Pending
<1>12. ~Silent(w) => Len(inbox'[w]) = 1 /\ inbox'[w][1] = t
  <2>1. Len(<<>>) = 0
    BY EmptySeq
  <2>2. ~Silent(w) => Len(inbox[w]) = 0
    BY <1>11, <2>1
  <2>3. inbox'[w][Len(inbox[w]) + 1] = t
    BY <1>5, <1>6, AppendProperties
  <2> QED BY <1>6, <1>7, <2>2, <2>3
<1>13. \A v \in Worker : Silent(v)' = Silent(v) /\ Busy(v)' = Busy(v) /\ cur'[v] = cur[v]
  BY <1>1 DEF Silent, Busy
<1>14. Shape'
  BY <1>2, <1>5, <1>6, <1>11, <1>12, <1>13 DEF Shape
<1>15. /\ Pending' = IF Silent(w) THEN Pending ELSE Pending \cup {w}
       /\ \A v \in Pending : v # w /\ TaskOf(v)' = TaskOf(v)
       /\ ~Silent(w) => TaskOf(w)' = t
  BY <1>5, <1>6, <1>7, <1>10, <1>11, <1>12, <1>13 DEF Pending, TaskOf
<1>16. \A u \in Task : Ours(u) => Ours(u)' /\ Apart(u, t) /\ Apart(t, u)
  <2> SUFFICES ASSUME NEW u \in Task, Ours(u) PROVE Ours(u)' /\ Apart(u, t) /\ Apart(t, u)
    OBVIOUS
  <2>1. u.first \in Nat /\ u.len \in Nat /\ u.first + u.len <= first
    BY TaskFacts DEF Ours
  <2>2. u.first + u.len <= first'
    BY <1>3, <1>4, <1>5, <2>1
  <2>3. Apart(u, t) /\ Apart(t, u)
    BY <1>5, <2>1 DEF Apart
  <2> QED BY <1>1, <2>2, <2>3 DEF Ours
<1>17. Ours(t)'
  <2>1. Least(Chunk(rows), rows) <= t.first
    BY <1>2, <1>5 DEF RunOK
  <2>2. \A r \in Row : y[r] = None
    BY <1>2 DEF Written
  <2>3. t.first + t.len <= first'
    BY <1>4, <1>5
  <2> QED BY <1>1, <1>5, <2>1, <2>2, <2>3 DEF Ours
<1>18. TasksOK'
  <2> USE DEF TasksOK
  <2>1. TasksOK /\ done' = done
    BY <1>1, <1>2 DEF RunOK
  <2>2. \A v \in Pending' : Ours(TaskOf(v))' /\ (v \in Pending \/ (v = w /\ ~Silent(w)))
    BY <1>15, <1>16, <1>17, <2>1 DEF Ours
  <2>3. \A i \in DOMAIN done' : Ours(done[i].task)'
    BY <1>16, <2>1 DEF Ours
  <2>4. \A u, v \in Pending' : u # v => Apart(TaskOf(u), TaskOf(v))'
    <3> SUFFICES ASSUME NEW u \in Pending', NEW v \in Pending', u # v
                 PROVE  Apart(TaskOf(u)', TaskOf(v)')
      BY DEF Apart
    <3>1. CASE u \in Pending /\ v \in Pending
      BY <1>15, <2>1, <3>1
    <3>2. CASE u = w
      <4>1. v \in Pending /\ TaskOf(u)' = t /\ TaskOf(v)' = TaskOf(v) /\ Ours(TaskOf(v))
        BY <1>15, <2>1, <2>2, <3>2
      <4> QED BY <1>16, <4>1 DEF Ours
    <3>3. CASE v = w
      <4>1. u \in Pending /\ TaskOf(v)' = t /\ TaskOf(u)' = TaskOf(u) /\ Ours(TaskOf(u))
        BY <1>15, <2>1, <2>2, <3>3
      <4> QED BY <1>16, <4>1 DEF Ours
    <3> QED BY <2>2, <3>1, <3>2, <3>3
  <2>5. \A v \in Pending', i \in DOMAIN done' : Apart(TaskOf(v), done[i].task)'
    <3> SUFFICES ASSUME NEW v \in Pending', NEW i \in DOMAIN done
                 PROVE  Apart(TaskOf(v)', done[i].task)
      BY <2>1 DEF Apart
    <3>1. CASE v \in Pending
      BY <1>15, <2>1, <3>1
    <3>2. CASE v = w /\ ~Silent(w)
      <4>1. TaskOf(v)' = t /\ Ours(done[i].task)
        BY <1>15, <2>1, <3>2
      <4> QED BY <1>16, <4>1 DEF Ours
    <3> QED BY <2>2, <3>1, <3>2
  <2>6. \A i, j \in DOMAIN done' : i # j => Apart(done[i].task, done[j].task)'
    BY <2>1 DEF Apart
  <2> QED BY <2>2, <2>3, <2>4, <2>5, <2>6
<1>19. OutputOK'
  BY <1>1, <1>2 DEF RunOK, OutputOK, Written, Exact
<1>20. CountsOK'
  <2>1. Pending' \subseteq 1 .. sent'
    BY <1>1, <1>3, <1>w, <1>10, <1>15
  <2> DEFINE a == Cardinality(Pending)
             b == Cardinality(Pending')
             n == Len(done)
  <2>2. a \in Nat /\ b \in Nat /\ b <= a + 1
    <3>1. IsFiniteSet(Pending) /\ a \in Nat
      BY WorkersFinite DEF Pending
    <3>2. Cardinality(Pending \cup {w}) = a + 1
      BY <1>10, <3>1, FS_AddElement
    <3> HIDE DEF a
    <3>3. b = a \/ b = a + 1
      BY <1>15, <3>2 DEF a
    <3> QED BY <3>1, <3>3
  <2>3. n \in Nat /\ got + n + a <= sent /\ spare + n + a <= made
    BY <1>2, DoneFacts DEF RunOK, CountsOK
  <2>4. Len(done') = n
    BY <1>1
  <2> HIDE DEF a, b, n
  <2>5. got + n + b <= sent' /\ spare' + n + b <= made'
    BY <1>1, <1>3, <2>2, <2>3
  <2> QED BY <1>1, <2>1, <2>4, <2>5 DEF CountsOK, b, n
<1>21. RunOK'
  <2>1. Least(Chunk(rows), rows) <= first' /\ UNCHANGED <<rows, staged, job>>
    <3>1. Least(Chunk(rows), rows) <= first /\ Least(Chunk(rows), rows) \in Nat
      BY <1>2, <1>3, Counts DEF RunOK
    <3> QED BY <1>1, <1>3, <1>4, <1>5, <3>1
  <2> QED BY <1>2, <1>18, <1>19, <1>20, <2>1 DEF RunOK
<1> QED BY <1>1, <1>2, <1>8, <1>9, <1>14, <1>21 DEF Live, Active, GemvExact

LEMMA OwnInv ==
  ASSUME IInv, NEW takes \in BOOLEAN, Own(takes)
  PROVE  IInv'
<1> USE DEF IInv
<1> DEFINE L == Least(Chunk(rows), rows)
<1>1. /\ pc = "own" /\ pc' = "collect"
      /\ UNCHANGED <<job, rows, staged, first, sent, got, result, inbox, state, cur, done, spare, made>>
      /\ \/ y' = Filled([job |-> job, x |-> staged, first |-> 0, len |-> L]) /\ filled' = L /\ ok' = ok
         \/ ok' = FALSE /\ y' = y /\ filled' = filled
  BY DEF Own, workVars, bufVars
<1>2. RunOK /\ Shape /\ job # 0 /\ staged = job /\ Written = {} /\ L <= first /\ filled = Cardinality(Written)
  BY <1>1 DEF Live, Active, RunOK, OutputOK
<1>3. L \in 1 .. rows /\ rows \in Nat \ {0} /\ Width \in Nat /\ rows <= Width /\ MaxRuns \in Nat
      /\ job \in 1 .. MaxRuns
  BY <1>2, Counts DEF TypeOK
<1>p. Pending' = Pending /\ Shape' /\ BusyTyped' /\ \A v : TaskOf(v)' = TaskOf(v)
  BY <1>1, <1>2, WorkKept
<1> HIDE DEF L
<1>4. PICK t \in Task : t = [job |-> job, x |-> staged, first |-> 0, len |-> L]
  <2>1. job \in Jobs /\ staged \in Jobs /\ 0 \in Row /\ L \in 1 .. Width
    BY <1>2, <1>3, Counts DEF Jobs, Row, TypeOK
  <2> QED BY <2>1 DEF Task
<1>5. t.job = job /\ t.x = job /\ t.first = 0 /\ t.len = L
  BY <1>2, <1>4
<1>6. /\ y' \in [Row -> [job : Jobs, x : Jobs, row : Row] \cup {None}]
      /\ \A r \in Written' : r < rows' /\ y'[r] = Exact(r)'
      /\ filled' = Cardinality(Written') /\ filled' \in 0 .. rows
      /\ \A r \in Row : y[r] = None /\ ~(r < L) => y'[r] = None
  <2>1. CASE y' = y /\ filled' = filled
    BY <1>1, <1>2, <2>1 DEF TypeOK, Written
  <2>2. CASE y' = Filled(t) /\ filled' = L
    <3>1. \A r \in Row : y[r] = None
      BY <1>2 DEF Written
    <3>2. t.first + t.len <= rows /\ \A r \in Written : r < rows /\ y[r] = Exact(r)
      BY <1>2, <1>3, <1>5
    <3>3. /\ y' \in [Row -> [job : Jobs, x : Jobs, row : Row] \cup {None}]
          /\ \A r \in Written' : r < rows' /\ y'[r] = Exact(r)'
          /\ Cardinality(Written') = Cardinality(Written) + t.len
          /\ \A r \in Row : y[r] = None /\ ~(t.first <= r /\ r < t.first + t.len) => y'[r] = None
      BY <1>1, <1>5, <2>2, <3>1, <3>2, FilledRows
    <3>4. Cardinality(Written) = 0
      BY <1>2, FS_EmptySet
    <3>5. \A r \in Row : r \in Nat
      BY DEF Row
    <3> QED BY <1>3, <1>5, <2>2, <3>3, <3>4, <3>5
  <2> QED BY <1>1, <1>4, <2>1, <2>2
<1>7. TypeOK'
  BY <1>1, <1>6 DEF TypeOK
<1>8. \A u : Ours(u) => Ours(u)'
  <2> SUFFICES ASSUME NEW u, Ours(u) PROVE Ours(u)'
    OBVIOUS
  <2>1. u.first \in Nat /\ u.len \in Nat /\ L <= u.first
    BY TaskFacts DEF Ours, L
  <2>2. \A r \in Row : u.first <= r => ~(r < L)
    BY <1>3, <2>1 DEF Row
  <2> QED BY <1>1, <1>6, <2>2 DEF Ours
<1>9. TasksOK'
  BY <1>1, <1>2, <1>p, <1>8 DEF RunOK, TasksOK, Apart
<1>10. OutputOK'
  BY <1>1, <1>6 DEF OutputOK
<1>11. CountsOK'
  BY <1>1, <1>2, <1>p DEF RunOK, CountsOK
<1>12. RunOK'
  BY <1>1, <1>2, <1>9, <1>10, <1>11 DEF RunOK, L, Least, Chunk
<1> QED BY <1>1, <1>2, <1>p, <1>7, <1>12 DEF Live, Active, GemvExact

LEMMA CollectInv ==
  ASSUME IInv, Collect
  PROVE  IInv'
<1> USE DEF IInv
<1>1. /\ pc = "collect" /\ got < sent /\ done # <<>>
      /\ got' = got + 1 /\ done' = Tail(done) /\ spare' = spare + 1
      /\ UNCHANGED <<pc, job, rows, staged, first, sent, result, inbox, state, cur, made>>
      /\ \/ /\ y' = Filled(Head(done).task) /\ filled' = filled + Head(done).task.len /\ ok' = ok
         \/ ok' = FALSE /\ y' = y /\ filled' = filled
  BY DEF Collect
<1>2. /\ RunOK /\ Shape /\ job # 0 /\ TasksOK /\ filled = Cardinality(Written)
      /\ \A r \in Written : r < rows /\ y[r] = Exact(r)
  BY <1>1 DEF Live, Active, RunOK, OutputOK
<1>3. Pending' = Pending /\ Shape' /\ BusyTyped' /\ \A v : TaskOf(v)' = TaskOf(v)
  BY <1>1, <1>2, WorkKept
<1> DEFINE n == Len(done)
<1>4. /\ n \in Nat \ {0} /\ DOMAIN done = 1 .. n /\ Head(done) = done[1]
      /\ done' \in Seq(Reply) /\ Len(done') = n - 1 /\ DOMAIN done' = 1 .. n - 1
      /\ \A i \in 1 .. n - 1 : done'[i] = done[i + 1]
  <2>1. done \in Seq(Reply)
    BY DEF TypeOK
  <2>2. n \in Nat \ {0} /\ DOMAIN done = 1 .. n
    BY <1>1, <2>1, EmptySeq, LenProperties
  <2>3. done' \in Seq(Reply) /\ Len(done') = n - 1
    BY <1>1, <2>1, HeadTailProperties
  <2>4. DOMAIN done' = 1 .. n - 1
    BY <2>3, LenProperties
  <2>5. Head(done) = done[1] /\ \A i \in 1 .. n - 1 : Tail(done)[i] = done[i + 1]
    BY <1>1, <2>1
  <2> QED BY <1>1, <2>2, <2>3, <2>4, <2>5
<1> HIDE DEF n
<1>5. PICK t \in Task : t = done[1].task
  BY <1>2, <1>4 DEF TasksOK, Ours
<1>6. Ours(t)
  BY <1>2, <1>4, <1>5 DEF TasksOK
<1>7. /\ t.first \in Nat /\ t.len \in Nat /\ t.first + t.len <= rows /\ rows \in Nat /\ first \in 0 .. rows
  <2>1. t.first \in Nat /\ t.len \in Nat /\ t.first + t.len <= first
    BY <1>6, TaskFacts DEF Ours
  <2>2. rows \in Nat /\ first \in 0 .. rows
    BY Counts DEF TypeOK
  <2> QED BY <2>1, <2>2
<1>8. /\ y' \in [Row -> [job : Jobs, x : Jobs, row : Row] \cup {None}]
      /\ \A r \in Written' : r < rows' /\ y'[r] = Exact(r)'
      /\ filled' = Cardinality(Written')
      /\ \A r \in Row : y[r] = None /\ ~(t.first <= r /\ r < t.first + t.len) => y'[r] = None
  <2>1. CASE y' = y /\ filled' = filled
    BY <1>1, <1>2, <2>1 DEF TypeOK, Written, Exact
  <2>2. CASE y' = Filled(t) /\ filled' = filled + t.len
    <3>1. /\ t.job = job /\ t.x = job
          /\ \A r \in Row : t.first <= r /\ r < t.first + t.len => y[r] = None
      BY <1>6 DEF Ours
    <3>2. /\ y' \in [Row -> [job : Jobs, x : Jobs, row : Row] \cup {None}]
          /\ \A r \in Written' : r < rows' /\ y'[r] = Exact(r)'
          /\ Cardinality(Written') = Cardinality(Written) + t.len
          /\ \A r \in Row : y[r] = None /\ ~(t.first <= r /\ r < t.first + t.len) => y'[r] = None
      BY <1>1, <1>2, <1>7, <2>2, <3>1, FilledRows
    <3> QED BY <1>2, <2>2, <3>2
  <2> QED BY <1>1, <1>4, <1>5, <2>1, <2>2
<1>9. filled' \in 0 .. rows
  <2>1. Written' \subseteq 0 .. rows - 1
    BY <1>1, <1>7, <1>8 DEF Written, Row
  <2>2. IsFiniteSet(0 .. rows - 1) /\ Cardinality(0 .. rows - 1) = rows
    BY <1>7, FromZero
  <2>3. Cardinality(Written') \in Nat /\ Cardinality(Written') <= rows
    BY <2>1, <2>2, FS_Subset, FS_CardinalityType
  <2> QED BY <1>7, <1>8, <2>3
<1>10. CountsOK' /\ spare' \in 0 .. made' /\ got' \in 0 .. sent'
  <2> DEFINE a == Cardinality(Pending)
  <2>1. a \in Nat /\ got + n + a <= sent /\ spare + n + a <= made /\ Pending \subseteq 1 .. sent
    <3>1. Pending \subseteq Worker
      BY DEF Pending
    <3> QED BY <1>2, <3>1, WorkersFinite DEF RunOK, CountsOK, n
  <2>2. got \in Nat /\ sent \in Nat /\ spare \in Nat /\ made \in Nat
    BY PoolAssumption DEF TypeOK
  <2> HIDE DEF a
  <2>3. /\ got' + (n - 1) + a <= sent' /\ spare' + (n - 1) + a <= made'
        /\ spare' \in 0 .. made' /\ got' \in 0 .. sent'
    BY <1>1, <1>4, <2>1, <2>2
  <2> QED BY <1>1, <1>3, <1>4, <2>1, <2>3 DEF CountsOK, a
<1>11. TypeOK'
  <2>1. Len(done') <= N /\ done' \in Seq(Reply)
    BY <1>4, PoolAssumption DEF TypeOK, n
  <2> QED BY <1>1, <1>8, <1>9, <1>10, <2>1 DEF TypeOK
<1>12. \A u : Ours(u) /\ Apart(t, u) => Ours(u)'
  <2> SUFFICES ASSUME NEW u, Ours(u), Apart(t, u) PROVE Ours(u)'
    OBVIOUS
  <2>1. u.first \in Nat /\ u.len \in Nat
    BY TaskFacts DEF Ours
  <2>2. \A r \in Row : u.first <= r /\ r < u.first + u.len => ~(t.first <= r /\ r < t.first + t.len)
    BY <1>7, <2>1 DEF Apart, Row
  <2> QED BY <1>1, <1>8, <2>2 DEF Ours
<1>13. TasksOK'
  <2> USE DEF TasksOK
  <2>0. \A u, v \in Task : Apart(u, v) => Apart(v, u)
    BY DEF Apart
  <2>1. \A v \in Pending' : Ours(TaskOf(v))'
    <3> SUFFICES ASSUME NEW v \in Pending PROVE Ours(TaskOf(v))'
      BY <1>3
    <3>1. Ours(TaskOf(v)) /\ Apart(TaskOf(v), t) /\ TaskOf(v) \in Task
      BY <1>2, <1>4, <1>5 DEF Ours
    <3>2. PICK u \in Task : u = TaskOf(v)
      BY <3>1
    <3>3. Ours(u)'
      BY <1>12, <2>0, <3>1, <3>2
    <3> QED BY <1>3, <3>2, <3>3 DEF Ours
  <2>2. \A i \in DOMAIN done' : Ours(done[i].task)'
    <3> SUFFICES ASSUME NEW i \in 1 .. n - 1 PROVE Ours(done[i].task)'
      BY <1>4
    <3>1. i + 1 \in 1 .. n /\ i + 1 # 1 /\ 1 \in 1 .. n
      BY <1>4
    <3>2. PICK u \in Task : u = done[i + 1].task
      BY <1>2, <1>4, <3>1 DEF Ours
    <3>3. Ours(u) /\ Apart(t, u)
      BY <1>2, <1>4, <1>5, <3>1, <3>2
    <3>4. Ours(u)' /\ done'[i].task = u
      BY <1>4, <1>12, <3>2, <3>3
    <3> QED BY <3>4 DEF Ours
  <2>3. \A u, v \in Pending' : u # v => Apart(TaskOf(u), TaskOf(v))'
    BY <1>2, <1>3 DEF Apart
  <2>4. \A v \in Pending', i \in DOMAIN done' : Apart(TaskOf(v), done[i].task)'
    BY <1>2, <1>3, <1>4 DEF Apart
  <2>5. \A i, j \in DOMAIN done' : i # j => Apart(done[i].task, done[j].task)'
    <3> SUFFICES ASSUME NEW i \in 1 .. n - 1, NEW j \in 1 .. n - 1, i # j
                 PROVE  Apart(done'[i].task, done'[j].task)
      BY <1>4 DEF Apart
    <3>1. i + 1 \in 1 .. n /\ j + 1 \in 1 .. n /\ i + 1 # j + 1
      BY <1>4
    <3> QED BY <1>2, <1>4, <3>1
  <2> QED BY <2>1, <2>2, <2>3, <2>4, <2>5
<1>14. OutputOK'
  BY <1>1, <1>8 DEF OutputOK
<1>15. RunOK'
  BY <1>1, <1>2, <1>10, <1>13, <1>14 DEF RunOK, Least, Chunk
<1> QED BY <1>1, <1>2, <1>3, <1>11, <1>15 DEF Live, Active, GemvExact

LEMMA SumKept ==
  ASSUME NEW i \in Nat, NEW j \in Nat, NEW k \in Nat, NEW l \in Nat, NEW n \in Nat, NEW a \in Nat,
         j <= i, k <= l, i + n + a <= k
  PROVE  j + n + a <= l
  OBVIOUS

(* The other steps of a run. *)
LEMMA RunStepsInv ==
  ASSUME IInv, SendFails \/ AllSent \/ CollectFails \/ Return
  PROVE  IInv'
<1> USE DEF IInv
<1>1. /\ UNCHANGED <<job, rows, y, staged, first, sent, got, filled, inbox, state, cur, done>>
      /\ pc \in {"send", "collect"} /\ pc' \in {"own", "fallback", "idle"}
      /\ pc = "collect" => pc' # "own" /\ UNCHANGED <<spare, made>>
      /\ ok' \in BOOLEAN /\ result' \in {"none", "ok", "err"}
      /\ \/ UNCHANGED <<spare, made>>
         \/ made' = made + 1 /\ spare' = spare
         \/ spare # 0 /\ spare' = spare - 1 /\ made' = made
  BY DEF SendFails, AllSent, CollectFails, Return, workVars, bufVars, TypeOK
<1>2. RunOK /\ Shape /\ job # 0
  BY <1>1 DEF Live, Active
<1>3. Pending' = Pending /\ Shape' /\ BusyTyped' /\ \A v : TaskOf(v)' = TaskOf(v)
  BY <1>1, <1>2, WorkKept
<1>4. spare' \in 0 .. made' /\ made' \in Nat /\ spare' <= spare /\ made <= made' /\ spare \in Nat /\ made \in Nat
  BY <1>1 DEF TypeOK
<1>5. TypeOK'
  BY <1>1, <1>4 DEF TypeOK
<1> DEFINE a == Cardinality(Pending)
           n == Len(done)
<1>6. a \in Nat /\ n \in Nat /\ got + n + a <= sent /\ spare + n + a <= made /\ IsFiniteSet(Pending)
  <2>1. Pending \subseteq Worker
    BY DEF Pending
  <2> QED BY <1>2, <2>1, DoneFacts, WorkersFinite DEF RunOK, CountsOK
<1>7. CASE pc' = "own"
  <2>1. pc = "send"
    BY <1>1, <1>7
  <2>2. TasksOK'
    BY <1>1, <1>2, <1>3 DEF RunOK, TasksOK, Ours, Apart
  <2>3. OutputOK'
    BY <1>1, <1>2, <2>1 DEF RunOK, OutputOK, Written, Exact
  <2>4. CountsOK'
    <3> HIDE DEF a, n
    <3>1. /\ spare \in Nat /\ spare' \in Nat /\ made \in Nat /\ made' \in Nat /\ a \in Nat /\ n \in Nat
          /\ spare' <= spare /\ made <= made' /\ spare + n + a <= made
      BY <1>4, <1>6
    <3>2. spare' + n + a <= made'
      BY <3>1, SumKept
    <3> QED BY <1>1, <1>2, <1>3, <1>6, <3>2 DEF RunOK, CountsOK, a, n
  <2>5. RunOK'
    BY <1>1, <1>2, <2>2, <2>3, <2>4 DEF RunOK
  <2> QED BY <1>1, <1>2, <1>3, <1>5, <1>7, <2>5 DEF Live, Active, GemvExact
<1>8. CASE pc' \in {"fallback", "idle"}
  <2>1. pc = "collect" /\ (CollectFails \/ Return)
    BY <1>8 DEF SendFails, AllSent, CollectFails, Return
  <2>2. done = <<>> /\ Pending = {}
    <3>1. CASE CollectFails
      BY <3>1 DEF CollectFails, Pending
    <3>2. CASE Return
      <4>1. got = sent /\ got \in Nat
        BY <3>2, PoolAssumption DEF Return, TypeOK
      <4>2. a = 0 /\ n = 0
        <5> HIDE DEF a, n
        <5> QED BY <1>6, <4>1
      <4>3. done \in Seq(Reply)
        BY DEF TypeOK
      <4> QED BY <1>6, <4>2, <4>3, FS_EmptySet, EmptySeq
    <3> QED BY <2>1, <3>1, <3>2
  <2>3. RestOK'
    BY <1>1, <1>3, <2>2 DEF RestOK
  <2>4. GemvExact'
    <3> SUFFICES ASSUME pc' = "idle", result' = "ok"
                 PROVE  \A r \in 0 .. rows - 1 : y[r] = Exact(r)
      BY <1>1 DEF GemvExact, Exact
    <3>1. Return /\ filled = rows
      BY <2>1 DEF CollectFails, Return
    <3>2. Cardinality(Written) = rows /\ \A r \in Written : r < rows /\ y[r] = Exact(r)
      BY <1>2, <3>1 DEF RunOK, OutputOK
    <3>3. rows \in Nat
      BY Counts DEF TypeOK
    <3>4. Written \subseteq 0 .. rows - 1
      BY <3>2, <3>3, Counts DEF Written, Row, TypeOK
    <3>5. Written = 0 .. rows - 1
      BY <3>2, <3>3, <3>4, FromZero, FS_Subset
    <3> QED BY <3>2, <3>5
  <2> QED BY <1>1, <1>2, <1>3, <1>5, <1>8, <2>3, <2>4 DEF Live, Active
<1> QED BY <1>1, <1>7, <1>8

LEMMA FallbackInv ==
  ASSUME IInv, NEW takes \in BOOLEAN, Fallback(takes)
  PROVE  IInv'
<1> USE DEF IInv
<1>1. /\ pc = "fallback" /\ pc' = "idle"
      /\ UNCHANGED <<job, rows, staged, first, sent, ok, got, filled, inbox, state, cur, done, spare, made>>
      /\ \/ /\ y' = [r \in Row |-> IF r < rows THEN [job |-> job, x |-> job, row |-> r] ELSE None]
            /\ result' = "ok"
         \/ result' = "err" /\ y' = y
  BY DEF Fallback, workVars, bufVars
<1>2. Pending' = Pending /\ Shape' /\ BusyTyped' /\ RestOK' /\ job # 0
  BY <1>1, WorkKept DEF Live, RestOK
<1>3. job \in Jobs /\ rows \in Nat /\ Width \in Nat /\ rows <= Width
  BY <1>2, Counts DEF TypeOK, Jobs
<1>4. TypeOK'
  BY <1>1, <1>3 DEF TypeOK
<1>5. GemvExact'
  <2> SUFFICES ASSUME result' = "ok", NEW r \in 0 .. rows - 1
               PROVE  y'[r] = [job |-> job, x |-> job, row |-> r]
    BY <1>1 DEF GemvExact
  <2>1. r \in Row /\ r < rows
    BY <1>3 DEF Row
  <2> QED BY <1>1, <2>1
<1> QED BY <1>1, <1>2, <1>4, <1>5 DEF Live, Active

(* Once the pool is being dropped only the types matter. *)
LEMMA DropInv ==
  ASSUME IInv, DropPool \/ SendStop \/ Join
  PROVE  IInv'
<1> USE DEF IInv
<1>1. CASE DropPool
  <2>1. TypeOK'
    BY <1>1, PoolAssumption DEF DropPool, TypeOK, workVars, bufVars
  <2>2. BusyTyped'
    BY <1>1 DEF DropPool, workVars, BusyTyped, Busy
  <2> QED BY <1>1, <2>1, <2>2 DEF DropPool, Live, Active, GemvExact
<1>2. CASE Join
  <2>1. TypeOK'
    BY <1>2 DEF Join, TypeOK, workVars, bufVars
  <2>2. BusyTyped'
    BY <1>2 DEF Join, workVars, BusyTyped, Busy
  <2> QED BY <1>2, <2>1, <2>2 DEF Join, Live, Active, GemvExact
<1>3. CASE SendStop
  <2>1. PICK w \in Worker : w = sent + 1
    BY <1>3, PoolAssumption DEF SendStop, TypeOK, Worker
  <2>2. /\ inbox' = inbox \/ (Len(inbox[w]) < 2 /\ inbox' = [inbox EXCEPT ![w] = Append(@, Stop)])
        /\ UNCHANGED <<pc, job, rows, y, staged, first, ok, got, filled, result, state, cur, done, spare, made>>
        /\ sent' = sent + 1 /\ sent < N /\ pc = "stop"
    BY <1>3, <2>1 DEF SendStop, bufVars
  <2>3. inbox[w] \in Seq(Task \cup {Stop}) /\ Len(inbox[w]) \in Nat
    BY InboxFacts
  <2>4. /\ Append(inbox[w], Stop) \in Seq(Task \cup {Stop})
        /\ Len(Append(inbox[w], Stop)) = Len(inbox[w]) + 1
    BY <2>3, AppendProperties
  <2>5. inbox' \in [Worker -> Seq(Task \cup {Stop})] /\ \A v \in Worker : Len(inbox'[v]) <= 2
    <3> DEFINE q == Append(inbox[w], Stop)
    <3>1. q \in Seq(Task \cup {Stop}) /\ Len(q) = Len(inbox[w]) + 1
          /\ (inbox' = inbox \/ (Len(inbox[w]) < 2 /\ inbox' = [inbox EXCEPT ![w] = q]))
      BY <2>2, <2>4
    <3>2. inbox \in [Worker -> Seq(Task \cup {Stop})] /\ \A v \in Worker : Len(inbox[v]) <= 2
      BY DEF TypeOK
    <3> HIDE DEF q, IInv
    <3>3. Len(inbox[w]) < 2 => Len(q) <= 2
      BY <2>3, <3>1
    <3> QED BY <3>1, <3>2, <3>3
  <2>6. sent' \in 0 .. N /\ got' \in 0 .. sent'
    BY <2>2, PoolAssumption DEF TypeOK
  <2>7. TypeOK'
    BY <2>2, <2>5, <2>6 DEF TypeOK
  <2>8. BusyTyped'
    BY <2>2 DEF BusyTyped, Busy
  <2> QED BY <2>2, <2>7, <2>8 DEF Live, Active, GemvExact
<1> QED BY <1>1, <1>2, <1>3

LEMMA InitInv == Init => IInv
<1> SUFFICES ASSUME Init PROVE IInv
  OBVIOUS
<1> USE DEF Init
<1>1. rows \in Nat /\ MaxRuns \in Nat /\ N \in Nat
  BY Counts, PoolAssumption
<1>2. <<>> \in Seq(Task \cup {Stop}) /\ <<>> \in Seq(Reply) /\ Len(<<>>) = 0
  BY EmptySeq
<1>3. TypeOK
  <2> DEFINE e == <<>>
  <2>1. /\ inbox = [w \in Worker |-> e] /\ done = e /\ e \in Seq(Task \cup {Stop})
        /\ e \in Seq(Reply) /\ Len(e) = 0
    BY <1>2
  <2> HIDE DEF e
  <2> QED BY <1>1, <2>1 DEF TypeOK
<1>4. BusyTyped /\ Shape /\ Pending = {}
  BY DEF BusyTyped, Busy, Shape, Pending
<1> QED BY <1>3, <1>4 DEF IInv, Live, Active, RestOK, GemvExact

LEMMA NextInv == IInv /\ [Next]_vars => IInv'
<1> SUFFICES ASSUME IInv, [Next]_vars PROVE IInv'
  OBVIOUS
<1>1. CASE Next
  BY <1>1, BeginInv, SendInv, OwnInv, CollectInv, RunStepsInv, FallbackInv, DropInv, WorkerInv
  DEF Next, CallerStep
<1>2. CASE UNCHANGED vars
  BY <1>2 DEF vars, callVars, workVars, bufVars, IInv, TypeOK, BusyTyped, Busy, Live, Shape, Silent,
     Active, RunOK, TasksOK, OutputOK, CountsOK, RestOK, GemvExact, Pending, TaskOf, Ours, Apart,
     Written, Exact
<1> QED BY <1>1, <1>2

-----------------------------------------------------------------------------
(* The invariant holds in every reachable state of the pool and its caller. *)
THEOREM PoolInvariant == Spec => []IInv
  BY InitInv, NextInv, PTL DEF Spec

(* Channels, ranges and counters stay within their bounds: in particular no reply
   is ever one too many for its channel, and no more rows are counted than the
   matrix has (Pool::run). *)
THEOREM PoolTypeCorrect == Spec => []TypeOK
<1>1. IInv => TypeOK
  BY DEF IInv
<1> QED BY <1>1, PoolInvariant, PTL

(* A product that succeeded has every row, computed for this product on its input,
   whatever was refused, late or dead (gemv_range_into). *)
THEOREM GemvAlwaysExact == Spec => []GemvExact
<1>1. IInv => GemvExact
  BY DEF IInv
<1> QED BY <1>1, PoolInvariant, PTL

(* At rest no reply is outstanding, and no living worker holds a clone of the
   staging vector (Pool::x). *)
THEOREM StagingAlwaysFree == Spec => []StagingFree
<1>1. IInv => StagingFree
  <2> SUFFICES ASSUME IInv, pc = "idle"
               PROVE  done = <<>> /\ ((\A w \in Worker : ~Silent(w)) => Holders = {})
    BY DEF StagingFree
  <2>1. done = <<>> /\ Pending = {} /\ TypeOK
    BY DEF IInv, RestOK
  <2> SUFFICES ASSUME \A w \in Worker : ~Silent(w), NEW w \in Holders PROVE FALSE
    BY <2>1
  <2>2. w \in Worker /\ ~Busy(w) /\ inbox[w] = <<>>
    BY <2>1 DEF Holders, Pending
  <2>3. DOMAIN inbox[w] = {}
    BY <2>2
  <2> QED BY <2>2, <2>3 DEF Holders, Busy
<1> QED BY <1>1, PoolInvariant, PTL

=============================================================================
