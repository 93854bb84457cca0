----------------------------- MODULE WorkerPool -----------------------------
(***************************************************************************)
(* The row workers of pool.rs and the matrix-vector product that uses them  *)
(* (gemv_range_into in decode.rs).                                          *)
(*                                                                         *)
(* The caller puts its input into a staging vector shared by reference      *)
(* count, sends every worker a contiguous range of rows over a bounded      *)
(* channel, computes the first range itself and collects one reply per task *)
(* sent.  When the pool did not produce every row the caller computes all   *)
(* of them.  Dropping the pool queues a Stop per worker and joins them.     *)
(*                                                                         *)
(* The value of row r of job j on input x is the record [job, x, row]; an   *)
(* input is named by the job it was staged for.                             *)
(***************************************************************************)
EXTENDS Integers, Sequences, FiniteSets

CONSTANTS
  N,         \* worker threads; the caller is one more
  RowCounts, \* row counts of the matrices
  MaxRuns,   \* bound: number of products computed
  Panics,    \* whose kernel may panic
  Stop, None

ASSUME PoolAssumption ==
  /\ N \in Nat \ {0}
  /\ IsFiniteSet(RowCounts) /\ RowCounts # {} /\ RowCounts \subseteq Nat \ {0, 1}
  /\ MaxRuns \in Nat
  /\ Panics \subseteq {"caller", "worker"}

VARIABLES
  pc,      \* where the caller is
  job,     \* number of the current product
  rows,    \* its row count
  y,       \* its output
  staged,  \* job whose input is in the staging vector
  first,   \* next row to hand out
  sent,    \* tasks sent, to workers 1 .. sent
  ok,      \* nothing refused and no worker found missing so far
  got,     \* replies collected
  filled,  \* rows written by the pool
  inbox,   \* job channel of each worker
  state,   \* what each worker does
  cur,     \* task each worker is computing or replying to
  done,    \* reply channel
  spare,   \* output buffers at rest
  made,    \* output buffers allocated so far
  result   \* outcome of the last product

callVars == <<pc, job, rows, y, staged, first, sent, ok, got, filled, result>>
workVars == <<inbox, state, cur, done>>
bufVars  == <<spare, made>>
vars     == <<callVars, workVars, bufVars>>

Worker == 1 .. N
Jobs   == 1 .. MaxRuns
Width  == CHOOSE n \in RowCounts : \A m \in RowCounts : m <= n
Row    == 0 .. Width - 1
Task   == [job : Jobs, x : Jobs, first : Row, len : 1 .. Width]
Reply  == [task : Task, ok : BOOLEAN]

ASSUME MarkersAssumption ==
  /\ Stop \notin [job : Nat, x : Nat, first : Nat, len : Nat]
  /\ None \notin [job : Nat, x : Nat, row : Nat]

TypeOK ==
  /\ pc \in {"idle", "send", "own", "collect", "fallback", "stop", "join", "gone"}
  /\ job \in 0 .. MaxRuns /\ staged \in 0 .. MaxRuns
  /\ rows \in RowCounts /\ first \in 0 .. rows
  /\ y \in [Row -> [job : Jobs, x : Jobs, row : Row] \cup {None}]
  /\ sent \in 0 .. N /\ got \in 0 .. sent /\ filled \in 0 .. rows
  /\ ok \in BOOLEAN
  /\ inbox \in [Worker -> Seq(Task \cup {Stop})] /\ \A w \in Worker : Len(inbox[w]) <= 2
  /\ state \in [Worker -> {"wait", "rows", "reply", "unwind", "exited"}]
  /\ cur \in [Worker -> Task \cup {None}]
  /\ done \in Seq(Reply) /\ Len(done) <= N
  /\ spare \in 0 .. made /\ made \in Nat
  /\ result \in {"none", "ok", "err"}

-----------------------------------------------------------------------------
(* Rows per range of an n-row product; the caller takes the first range. *)
Chunk(n) == (n + N) \div (N + 1)

(* Mutant: the last range is not cut off at the row count. *)
LeastUncut(a, b) == a

Least(a, b) == IF a < b THEN a ELSE b

(* Mutant: the caller's own reply is not counted in. *)
ReplyBoundShort == N - 1

(* Capacity of the reply channel. *)
ReplyBound == N

(* Workers that hold a clone of the staging vector, in a task received or in a
   task still in their channel. *)
Holders ==
  {w \in Worker : state[w] = "rows" \/ \E i \in DOMAIN inbox[w] : inbox[w][i] # Stop}

(* The receiving end of the job channel of w is dropped. *)
Gone(w) == state[w] = "exited"

(* The sending end of the reply channel held by w is dropped. *)
Silent(w) == state[w] \in {"unwind", "exited"}

(* y with the rows of task t filled in. *)
Filled(t) == [r \in Row |-> IF t.first <= r /\ r < t.first + t.len
                             THEN [job |-> t.job, x |-> t.x, row |-> r] ELSE y[r]]

-----------------------------------------------------------------------------
(* Pool::run *)

(* A new product is wanted; n rows.  The staging vector is refilled in place,
   which Arc::get_mut refuses while a worker holds a clone. *)
Begin(n) ==
  /\ pc = "idle" /\ job < MaxRuns
  /\ job' = job + 1 /\ rows' = n
  /\ y' = [r \in Row |-> None]
  /\ sent' = 0 /\ got' = 0 /\ filled' = 0 /\ ok' = TRUE
  /\ IF Holders = {}
     THEN /\ staged' = job'
          /\ first' = Least(Chunk(n), n)
          /\ pc' = "send"
     ELSE pc' = "fallback" /\ first' = 0 /\ UNCHANGED staged
  /\ UNCHANGED <<result, workVars, bufVars>>

(* The next worker gets the next range, in a spare buffer if there is one. *)
Send ==
  /\ pc = "send" /\ sent < N /\ first < rows
  /\ LET w == sent + 1
         t == [job |-> job, x |-> staged, first |-> first,
               len |-> Least(first + Chunk(rows), rows) - first]
     IN  /\ ~Gone(w) /\ Len(inbox[w]) < 2
         /\ inbox' = [inbox EXCEPT ![w] = Append(@, t)]
         /\ first' = t.first + t.len
  /\ sent' = sent + 1
  /\ IF spare = 0 THEN made' = made + 1 /\ UNCHANGED spare
     ELSE spare' = spare - 1 /\ UNCHANGED made
  /\ UNCHANGED <<pc, job, rows, y, staged, ok, got, filled, result, state, cur, done>>

(* The worker is gone: the buffer made for it is lost and no more is sent. *)
SendFails ==
  /\ pc = "send" /\ sent < N /\ first < rows /\ Gone(sent + 1)
  /\ ok' = FALSE /\ pc' = "own"
  /\ IF spare = 0 THEN made' = made + 1 /\ UNCHANGED spare
     ELSE spare' = spare - 1 /\ UNCHANGED made
  /\ UNCHANGED <<job, rows, y, staged, first, sent, got, filled, result, workVars>>

AllSent ==
  /\ pc = "send" /\ (sent = N \/ first >= rows)
  /\ pc' = "own"
  /\ UNCHANGED <<job, rows, y, staged, first, sent, ok, got, filled, result, workVars, bufVars>>

(* The caller computes its own range, unless the kernel refuses it. *)
Own(takes) ==
  /\ pc = "own"
  /\ IF takes
     THEN /\ y' = Filled([job |-> job, x |-> staged, first |-> 0, len |-> Least(Chunk(rows), rows)])
          /\ filled' = Least(Chunk(rows), rows) /\ UNCHANGED ok
     ELSE ok' = FALSE /\ UNCHANGED <<y, filled>>
  /\ pc' = "collect"
  /\ UNCHANGED <<job, rows, staged, first, sent, got, result, workVars, bufVars>>

Collect ==
  /\ pc = "collect" /\ got < sent /\ done # <<>>
  /\ got' = got + 1 /\ done' = Tail(done) /\ spare' = spare + 1
  /\ IF Head(done).ok
     THEN /\ y' = Filled(Head(done).task) /\ filled' = filled + Head(done).task.len
          /\ UNCHANGED ok
     ELSE ok' = FALSE /\ UNCHANGED <<y, filled>>
  /\ UNCHANGED <<pc, job, rows, staged, first, sent, result, inbox, state, cur, made>>

(* recv fails once every worker's sending end is dropped. *)
CollectFails ==
  /\ pc = "collect" /\ got < sent /\ done = <<>> /\ \A w \in Worker : Silent(w)
  /\ pc' = "fallback"
  /\ UNCHANGED <<job, rows, y, staged, first, sent, ok, got, filled, result, workVars, bufVars>>

(* Mutant: a refused range makes run return at once. *)
ReturnOnRefusal ==
  /\ pc = "collect" /\ (got = sent \/ ~ok)
  /\ IF ok /\ filled = rows THEN pc' = "idle" /\ result' = "ok"
     ELSE pc' = "fallback" /\ UNCHANGED result
  /\ UNCHANGED <<job, rows, y, staged, first, sent, ok, got, filled, workVars, bufVars>>

(* run returns true only when every row was produced. *)
Return ==
  /\ pc = "collect" /\ got = sent
  /\ IF ok /\ filled = rows THEN pc' = "idle" /\ result' = "ok"
     ELSE pc' = "fallback" /\ UNCHANGED result
  /\ UNCHANGED <<job, rows, y, staged, first, sent, ok, got, filled, workVars, bufVars>>

(* gemv_range_into: the whole product on this thread, or a type error. *)
Fallback(takes) ==
  /\ pc = "fallback"
  /\ IF takes
     THEN /\ y' = [r \in Row |-> IF r < rows THEN [job |-> job, x |-> job, row |-> r] ELSE None]
          /\ result' = "ok"
     ELSE result' = "err" /\ UNCHANGED y
  /\ pc' = "idle"
  /\ UNCHANGED <<job, rows, staged, first, sent, ok, got, filled, workVars, bufVars>>

-----------------------------------------------------------------------------
(* Drop for Pool: from rest, or because the caller's own kernel panicked. *)

DropPool ==
  /\ \/ pc = "idle"
     \/ pc \in {"own", "fallback"} /\ "caller" \in Panics
  /\ pc' = "stop" /\ sent' = 0 /\ got' = 0
  /\ UNCHANGED <<job, rows, y, staged, first, ok, filled, result, workVars, bufVars>>

(* A Stop is queued for the next worker; nobody minds if it is gone. *)
SendStop ==
  /\ pc = "stop" /\ sent < N
  /\ LET w == sent + 1 IN
     IF Gone(w) THEN UNCHANGED inbox
     ELSE Len(inbox[w]) < 2 /\ inbox' = [inbox EXCEPT ![w] = Append(@, Stop)]
  /\ sent' = sent + 1
  /\ UNCHANGED <<pc, job, rows, y, staged, first, ok, got, filled, result, state, cur, done, bufVars>>

Join ==
  /\ \/ pc = "stop" /\ sent = N /\ pc' = "join"
     \/ pc = "join" /\ (\A w \in Worker : Gone(w)) /\ pc' = "gone"
  /\ UNCHANGED <<job, rows, y, staged, first, sent, ok, got, filled, result, workVars, bufVars>>

-----------------------------------------------------------------------------
(* worker_loop *)

Receive(w) ==
  /\ state[w] = "wait" /\ inbox[w] # <<>>
  /\ IF Head(inbox[w]) = Stop
     THEN /\ state' = [state EXCEPT ![w] = "exited"]
          /\ inbox' = [inbox EXCEPT ![w] = <<>>]
          /\ UNCHANGED cur
     ELSE /\ state' = [state EXCEPT ![w] = "rows"]
          /\ inbox' = [inbox EXCEPT ![w] = Tail(@)]
          /\ cur' = [cur EXCEPT ![w] = Head(inbox[w])]
  /\ UNCHANGED <<callVars, done, bufVars>>

(* The rows are computed and the clone of the input is dropped. *)
Compute(w) ==
  /\ state[w] = "rows"
  /\ state' = [state EXCEPT ![w] = "reply"]
  /\ UNCHANGED <<callVars, inbox, cur, done, bufVars>>

(* Mutant: a refused range is not answered. *)
SendReplyIfOk(w, takes) ==
  /\ state[w] = "reply" /\ Len(done) < ReplyBound
  /\ done' = IF takes THEN Append(done, [task |-> cur[w], ok |-> TRUE]) ELSE done
  /\ state' = [state EXCEPT ![w] = "wait"]
  /\ cur' = [cur EXCEPT ![w] = None]
  /\ UNCHANGED <<callVars, inbox, bufVars>>

(* The reply, with the kernel's verdict, goes back as soon as there is room. *)
SendReply(w, takes) ==
  /\ state[w] = "reply" /\ Len(done) < ReplyBound
  /\ done' = Append(done, [task |-> cur[w], ok |-> takes])
  /\ state' = [state EXCEPT ![w] = "wait"]
  /\ cur' = [cur EXCEPT ![w] = None]
  /\ UNCHANGED <<callVars, inbox, bufVars>>

(* The kernel panics: unwinding drops the input and the reply sender first,
   then the job channel with whatever is queued in it. *)
Panic(w) ==
  /\ "worker" \in Panics /\ state[w] = "rows"
  /\ state' = [state EXCEPT ![w] = "unwind"]
  /\ cur' = [cur EXCEPT ![w] = None]
  /\ UNCHANGED <<callVars, inbox, done, bufVars>>

Exit(w) ==
  /\ state[w] = "unwind"
  /\ state' = [state EXCEPT ![w] = "exited"]
  /\ inbox' = [inbox EXCEPT ![w] = <<>>]
  /\ UNCHANGED <<callVars, cur, done, bufVars>>

-----------------------------------------------------------------------------
Init ==
  /\ pc = "idle" /\ job = 0 /\ rows \in RowCounts /\ y = [r \in Row |-> None]
  /\ staged = 0 /\ first = 0 /\ sent = 0 /\ ok = TRUE /\ got = 0 /\ filled = 0
  /\ inbox = [w \in Worker |-> <<>>]
  /\ state = [w \in Worker |-> "wait"]
  /\ cur = [w \in Worker |-> None]
  /\ done = <<>> /\ spare = 0 /\ made = 0 /\ result = "none"

CallerStep ==
  \/ Send \/ SendFails \/ AllSent \/ Collect \/ CollectFails \/ Return
  \/ \E takes \in BOOLEAN : Own(takes) \/ Fallback(takes)
  \/ SendStop \/ Join

WorkerStep(w) ==
  \/ Receive(w) \/ Compute(w) \/ Exit(w)
  \/ \E takes \in BOOLEAN : SendReply(w, takes)

Next ==
  \/ \E n \in RowCounts : Begin(n)
  \/ DropPool
  \/ CallerStep
  \/ \E w \in Worker : WorkerStep(w) \/ Panic(w)

Spec == Init /\ [][Next]_vars

(* Every thread keeps running; products need not be wanted, kernels need not
   panic and the pool need not be dropped. *)
FairSpec == Spec /\ WF_vars(CallerStep) /\ \A w \in Worker : WF_vars(WorkerStep(w))

-----------------------------------------------------------------------------
(* Properties. *)

(* A product that succeeded has every row of this job on this input, each at
   its own place, whatever was refused, late, stale or dead (Pool::run and its
   caller gemv_range_into). *)
GemvExact ==
  pc = "idle" /\ result = "ok" =>
    \A r \in 0 .. rows - 1 : y[r] = [job |-> job, x |-> job, row |-> r]

(* "Between jobs its refcount is 1" (Pool::x): at rest no reply is outstanding
   and, as long as no worker is lost, no worker holds a clone of the staging
   vector, so the next run can refill it in place and sees no stale reply. *)
StagingFree ==
  pc = "idle" => /\ done = <<>>
                 /\ (\A w \in Worker : ~Silent(w)) => Holders = {}

(* run returns: "false if the pool did not produce every row (kernel refused
   the job, a worker is gone ..)". *)
RunReturns == pc = "send" ~> pc \in {"idle", "gone"}

(* A run hangs in only one way: some workers are lost for good and some are not
   (the survivors keep the reply channel of Pool::run open).  With no worker lost,
   or all of them, it returns. *)
RunsEnd ==
  \/ <>[](\E v, w \in Worker : Silent(v) /\ ~Silent(w))
  \/ RunReturns

(* Drop always gets its Stop queued and joins every worker ("a worker outlived
   the pool"), also when jobs are still in flight. *)
DropJoins == pc = "stop" ~> pc = "gone"
=============================================================================
