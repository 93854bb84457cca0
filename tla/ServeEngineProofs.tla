-------------------------- MODULE ServeEngineProofs --------------------------
(***************************************************************************)
(* For any number of connections and scripts and every limit: the sequences  *)
(* of ServeEngine's engine are those of the open connections, what a stream  *)
(* retains is bounded, a connection with nothing pending owes nothing, and   *)
(* every connection is told its answers once, in order and in one piece.     *)
(*                                                                         *)
(* The inductive invariant is IInv.  All but one of its parts speak of one   *)
(* connection (Sound), so each stage is proved on the record of a            *)
(* connection: a connection with a request in hand has sent every answer     *)
(* before it, and the last piece queued (Tip) tells which answer is on its   *)
(* way.  A refused or abandoned connection keeps only what closes it.  The    *)
(* order of the answers needs more (TellsInOrder, in the second half): where *)
(* the buffer lies in the script, and what a stream has told of its sequence. *)
(***************************************************************************)
EXTENDS ServeEngine, FiniteSetTheorems, SequenceTheorems, WellFoundedInduction, TLAPS

-----------------------------------------------------------------------------
(* The invariant. *)

Text == Seq({Part} \cup Request)

ConnRec ==
  [read : Text, req : Request \cup {None}, seq : Id \cup {None}, write : Seq(Piece),
   at : Nat, done : BOOLEAN, ndjson : BOOLEAN, streamed : 0 .. MaxTokens,
   finalized : BOOLEAN, keepAlive : BOOLEAN, stalled : BOOLEAN,
   taken : Nat, last : Piece, cut : BOOLEAN]

Typed(k) == k \in ConnRec /\ k.at <= Len(k.write)

(* The last piece of what a connection has been given to send. *)
Tip(k) == IF k.write = <<>> THEN k.last ELSE k.write[Len(k.write)]

Closes(p) == p.part \in {"whole", "end"}

(* What the fields of a connection say of each other. *)
Shape(k) ==
  /\ k.req # None => k.seq = None /\ k.write = <<>> /\ ~k.ndjson /\ ~k.finalized
  /\ k.seq # None => ~k.finalized
  /\ k.finalized => k.done \/ k.write # <<>>
  /\ k.ndjson /\ k.seq = None => k.finalized
  /\ k.seq # None /\ ~k.ndjson /\ k.write # <<>> => ~k.keepAlive
  /\ k.ndjson => Len(k.write) <= MaxPending

(* Refused, but not gone yet. *)
Refused(k) == ~k.keepAlive /\ k.req = None /\ (k.write # <<>> \/ k.seq # None)

(* How far the answers have come. *)
Owes(k) ==
  /\ k.at > 0 => k.last = k.write[k.at]
  /\ \A i \in 1 .. Len(k.write) : k.write[i].part # "error"
  /\ IF k.req # None \/ (k.seq # None /\ ~k.ndjson)
     THEN k.write = <<>> /\ Closes(Tip(k)) /\ Tip(k).of + 1 = k.taken
     ELSE IF k.seq # None
     THEN Tip(k).part \in {"head", "tokens"} /\ Tip(k).of = k.taken
     ELSE Closes(Tip(k)) /\ Tip(k).of = k.taken

Tells(k) == ~k.done => IF k.cut THEN Refused(k) ELSE Owes(k)

Sound(k) == Typed(k) /\ Shape(k) /\ Tells(k)

Named(c, k) == k.seq # None => k.seq = <<c, k.taken>>

Good(c, k) == Sound(k) /\ Named(c, k)

(* A connection that is not open computes nothing and asks for nothing. *)
Absent(k) == k.req = None /\ k.seq = None /\ k.write = <<>> /\ ~k.ndjson

EngineOK ==
  /\ DOMAIN seqs = {conn[c].seq : c \in Conns} \ {None}
  /\ \A s \in DOMAIN seqs : seqs[s] \in EngineSeq

PlacesOK ==
  /\ open \in Seq(Conns) /\ turn \in 1 .. Len(open) + 1
  /\ Range(open) \subseteq arrived /\ arrived \subseteq Conns
  /\ stage \in {"expire", "accept", "read", "admit", "step", "stream", "harvest",
                "write", "stopped"}

ScriptsOK ==
  \A c \in Conns : script[c] \in Scripts[c] /\ got[c] \in 0 .. Len(script[c])

ConnsOK ==
  /\ DOMAIN conn = Conns
  /\ \A c \in Range(open) : Good(c, conn[c])
  /\ \A c \in Conns \ Range(open) : Typed(conn[c]) /\ Absent(conn[c])
  /\ \A c \in Conns \ arrived : conn[c] = NewConn

IInv == PlacesOK /\ ScriptsOK /\ ConnsOK /\ EngineOK /\ DOMAIN got = Conns

-----------------------------------------------------------------------------
(* Sequences. *)

(* What is left to send. *)
LEMMA UnsentSeq ==
  ASSUME NEW k, Typed(k)
  PROVE  /\ Unsent(k) \in Seq(Piece) /\ Len(Unsent(k)) = Len(k.write) - k.at
         /\ Len(k.write) \in Nat /\ k.at \in Nat
         /\ \A i \in 1 .. Len(Unsent(k)) : Unsent(k)[i] = k.write[k.at + i]
         /\ \A i \in 1 .. Len(k.write) : k.write[i] \in Piece
<1>1. k.write \in Seq(Piece) /\ k.at \in Nat /\ k.at <= Len(k.write)
  BY DEF Typed, ConnRec
<1>2. Len(k.write) \in Nat /\ \A i \in 1 .. Len(k.write) : k.write[i] \in Piece
  BY <1>1, LenProperties, ElementOfSeq
<1>3. PICK w, m, n : w = k.write /\ m = k.at + 1 /\ n = Len(k.write)
  OBVIOUS
<1>4. /\ Unsent(k) \in Seq(Piece)
      /\ Len(Unsent(k)) = IF m <= n THEN n - m + 1 ELSE 0
      /\ \A i \in 1 .. n - m + 1 : Unsent(k)[i] = w[m + i - 1]
  <2>1. /\ m \in Int /\ n \in Int /\ \A i \in m .. n : w[i] \in Piece
        /\ Unsent(k) = SubSeq(w, m, n)
    BY <1>1, <1>2, <1>3 DEF Unsent
  <2> QED BY <2>1, SubSeqProperties
<1>5. Len(Unsent(k)) = Len(k.write) - k.at
  BY <1>1, <1>2, <1>3, <1>4
<1>6. ASSUME NEW i \in 1 .. Len(Unsent(k)) PROVE Unsent(k)[i] = k.write[k.at + i]
  <2>1. i \in 1 .. n - m + 1 /\ m + i - 1 = k.at + i
    BY <1>1, <1>2, <1>3, <1>5
  <2> QED BY <1>3, <1>4, <2>1
<1> QED BY <1>1, <1>2, <1>4, <1>5, <1>6

(* The elements of a sequence in which a finite set is enumerated. *)
LEMMA Enumerated ==
  ASSUME NEW S, IsFiniteSet(S), NEW q \in SetToSeqs(S)
  PROVE  q \in Seq(S) /\ Range(q) = S
<1>1. Cardinality(S) \in Nat
  BY FS_CardinalityType
<1> DEFINE D == 1 .. Cardinality(S)
<1>2. q \in [D -> S] /\ \A i, j \in D : i # j => q[i] # q[j]
  BY DEF SetToSeqs
<1>3. IsFiniteSet(D) /\ Cardinality(D) = Cardinality(S)
  BY <1>1, FS_Interval
<1>4. q \in Injection(D, S)
  BY <1>2 DEF Injection, IsInjective
<1>5. q \in Surjection(D, S)
  BY <1>3, <1>4, FS_Injection
<1>6. Range(q) = S
  BY <1>2, <1>5 DEF Surjection, Range
<1>7. q \in Seq(S)
  BY <1>1, <1>2
<1> QED BY <1>6, <1>7

(* A set of naturals has a first. *)
LEMMA FirstOf ==
  ASSUME NEW T, T \subseteq Nat, T # {}
  PROVE  \E i \in T : \A j \in T : i <= j
<1> DEFINE R == OpToRel(<, Nat)
<1>1. ASSUME NEW x \in Nat, NEW y \in Nat, y < x PROVE <<y, x>> \in R
  <2>1. <<y, x>> \in Nat \X Nat /\ <<y, x>>[1] = y /\ <<y, x>>[2] = x
    OBVIOUS
  <2> QED BY <1>1, <2>1, Zenon DEF OpToRel
<1>2. IsWellFoundedOn(R, Nat)
  BY NatLessThanWellFounded
<1> HIDE DEF R
<1>3. PICK m \in T : \A y \in T : ~(<<y, m>> \in R)
  BY <1>2, WFMin
<1>4. ASSUME NEW y \in T PROVE m <= y
  <2>1. y \in Nat /\ m \in Nat /\ ~(<<y, m>> \in R)
    BY <1>3
  <2> QED BY <1>1, <2>1
<1> QED BY <1>4

-----------------------------------------------------------------------------
(* What is done to the record of a connection. *)

(* r is k but for what is being sent. *)
SameTalk(r, k) ==
  /\ r.read = k.read /\ r.req = k.req /\ r.seq = k.seq /\ r.ndjson = k.ndjson
  /\ r.streamed = k.streamed /\ r.finalized = k.finalized /\ r.keepAlive = k.keepAlive
  /\ r.stalled = k.stalled /\ r.taken = k.taken /\ r.last = k.last

(* r is k with one more piece, or cut. *)
Queued(r, k, p) ==
  /\ r \in ConnRec /\ r.at = 0 /\ SameTalk(r, k)
  /\ \/ r.done /\ r.cut /\ r.write = <<>>
     \/ /\ ~r.done /\ r.cut = k.cut
        /\ r.write # <<>> /\ Len(r.write) = Len(Unsent(k)) + 1 /\ Len(r.write) <= MaxPending
        /\ r.write[Len(r.write)] = p
        /\ \A i \in 1 .. Len(Unsent(k)) : r.write[i] = k.write[k.at + i]

(* A stream that retains too much is cut, whatever is to be queued. *)
LEMMA OverrunQueues ==
  ASSUME NEW k, Typed(k), NEW p
  PROVE  Queued(Overrun(k), k, p)
<1>1. <<>> \in Seq(Piece) /\ k \in ConnRec
  BY EmptySeq DEF Typed
<1> DEFINE r == [k EXCEPT !.done = TRUE, !.cut = TRUE, !.write = <<>>, !.at = 0]
<1>2. Overrun(k) = r
  BY <1>1 DEF Overrun, Cut, ConnRec
<1>3. r \in ConnRec
  BY <1>1 DEF ConnRec
<1>4. SameTalk(r, k) /\ r.at = 0 /\ r.done /\ r.cut /\ r.write = <<>>
  BY <1>1 DEF ConnRec, SameTalk
<1> QED BY <1>2, <1>3, <1>4 DEF Queued

(* A piece is queued after what is left to send, or the connection is cut. *)
LEMMA QueueStreamQueues ==
  ASSUME ServeAssumption, NEW k, Typed(k), ~k.done, NEW p \in Piece
  PROVE  Queued(QueueStream(k, p), k, p)
<1> DEFINE full == Len(Unsent(k)) >= MaxPending
           w == Append(Unsent(k), p)
<1>1. /\ Unsent(k) \in Seq(Piece) /\ Len(Unsent(k)) \in Nat
      /\ \A i \in 1 .. Len(Unsent(k)) : Unsent(k)[i] = k.write[k.at + i]
  BY UnsentSeq, LenProperties
<1>2. /\ w \in Seq(Piece) /\ Len(w) = Len(Unsent(k)) + 1
      /\ w[Len(w)] = p /\ \A i \in 1 .. Len(Unsent(k)) : w[i] = k.write[k.at + i]
  BY <1>1, AppendProperties
<1>3. MaxPending \in Nat
  BY DEF ServeAssumption
<1>4. <<>> \in Seq(Piece) /\ k \in ConnRec
  BY EmptySeq DEF Typed
<1> HIDE DEF w
<1>5. CASE full
  BY <1>5, OverrunQueues DEF QueueStream
<1>6. CASE ~full
  <2> DEFINE r == [k EXCEPT !.write = w, !.at = 0]
  <2>1. QueueStream(k, p) = r
    BY <1>6 DEF QueueStream, w
  <2>2. r \in ConnRec
    BY <1>2, <1>4 DEF ConnRec
  <2>3. Len(w) <= MaxPending /\ w # <<>>
    BY <1>1, <1>2, <1>3, <1>6
  <2>4. SameTalk(r, k) /\ r.at = 0 /\ r.write = w /\ r.done = k.done /\ r.cut = k.cut
    BY <1>4 DEF ConnRec, SameTalk
  <2> HIDE DEF r
  <2> QED BY <1>2, <2>1, <2>2, <2>3, <2>4 DEF Queued
<1> QED BY <1>5, <1>6

(* A refusal: the connection is to be closed, whatever it was doing. *)
LEMMA QueueErrGood ==
  ASSUME ServeAssumption, NEW c, NEW k, Typed(k), Shape(k), Named(c, k),
         k.req = None, k.write = <<>>
  PROVE  Good(c, QueueErr(k)) /\ QueueErr(k).seq = k.seq
<1> DEFINE e == Answer(k.taken + 1, "error", 0, 0)
           r == QueueErr(k)
<1>1. e \in Piece
  BY DEF Answer, Piece, Typed, ConnRec
<1>2. <<e>> \in Seq(Piece) /\ Len(<<e>>) = 1 /\ <<e>> # <<>>
  BY <1>1
<1> HIDE DEF e
<1>3. /\ r \in ConnRec /\ r.write = <<e>> /\ r.at = 0 /\ ~r.keepAlive /\ r.cut
      /\ r.req = k.req /\ r.seq = k.seq /\ r.done = k.done /\ r.ndjson = k.ndjson
      /\ r.finalized = k.finalized /\ r.taken = k.taken
  BY <1>2 DEF QueueErr, e, Typed, ConnRec
<1> HIDE DEF r
<1>4. Typed(r)
  BY <1>2, <1>3 DEF Typed
<1>5. Shape(r)
  BY <1>2, <1>3 DEF Shape, ServeAssumption
<1>6. Tells(r) /\ Named(c, r)
  BY <1>2, <1>3 DEF Tells, Refused, Named
<1> QED BY <1>3, <1>4, <1>5, <1>6 DEF Good, Sound, r

(* At rest: every request taken has been answered and nothing goes on. *)
Resting(k) ==
  /\ Typed(k) /\ k.req = None /\ k.seq = None /\ k.write = <<>> /\ ~k.ndjson
  /\ ~k.finalized /\ ~k.done /\ ~k.cut /\ Closes(k.last) /\ k.last.of = k.taken

LEMMA RestingGood ==
  ASSUME ServeAssumption, NEW c, NEW k, Resting(k)
  PROVE  Good(c, k)
<1>1. Len(k.write) = 0 /\ k.at = 0
  BY DEF Resting, Typed, ConnRec
<1>2. Shape(k) /\ Named(c, k)
  BY DEF Resting, Shape, Named
<1>3. Tells(k)
  BY <1>1 DEF Tells, Owes, Tip, Resting
<1> QED BY <1>2, <1>3 DEF Good, Sound, Resting

(* The first request in the buffer is taken, or refused. *)
LEMMA TakeGood ==
  ASSUME ServeAssumption, NEW c, NEW k, Resting(k), CanTake(k)
  PROVE  Good(c, Take(k)) /\ Take(k).seq = None
<1>1. k.read \in Text /\ k.at = 0 /\ k \in ConnRec
  BY DEF Resting, Typed, ConnRec
<1>2. Len(k.read) \in Nat /\ DOMAIN k.read = 1 .. Len(k.read)
      /\ \A j \in 1 .. Len(k.read) : k.read[j] \in {Part} \cup Request
  BY <1>1, LenProperties, ElementOfSeq DEF Text
<1>3. Complete(k) \subseteq Nat /\ Complete(k) # {} /\ Complete(k) \subseteq 1 .. Len(k.read)
  BY <1>2 DEF CanTake, Complete
<1>4. PICK i : i = CHOOSE a \in Complete(k) : \A j \in Complete(k) : a <= j
  OBVIOUS
<1>5. i \in Complete(k)
  BY <1>3, <1>4, FirstOf
<1>6. PICK q, rest : q = k.read[i] /\ rest = SubSeq(k.read, i + 1, Len(k.read))
  OBVIOUS
<1>7. q \in Request
  BY <1>2, <1>3, <1>5, <1>6 DEF Complete
<1>8. rest \in Text
  <2>1. PICK t, m, n : t = k.read /\ m = i + 1 /\ n = Len(k.read)
    OBVIOUS
  <2>2. m \in Int /\ n \in Int /\ \A j \in m .. n : t[j] \in {Part} \cup Request
    BY <1>2, <1>3, <1>5, <2>1
  <2> QED BY <1>6, <2>1, <2>2, SubSeqProperties DEF Text
<1>9. CASE q.kind = "bad"
  <2>1. Take(k) = QueueErr(k)
    BY <1>4, <1>6, <1>9 DEF Take
  <2>2. Shape(k) /\ Named(c, k)
    BY RestingGood DEF Good, Sound
  <2> QED BY <2>1, <2>2, QueueErrGood DEF Resting
<1>10. CASE q.kind # "bad"
  <2>0. PICK v, n : v = q.keepAlive /\ n = k.taken + 1
    OBVIOUS
  <2> DEFINE r == [k EXCEPT !.read = rest, !.keepAlive = v, !.req = q, !.taken = n]
  <2>1. Take(k) = r
    BY <1>1, <1>4, <1>6, <1>10, <2>0 DEF Take, ConnRec
  <2>2. v \in BOOLEAN /\ q # None /\ n \in Nat
    BY <1>1, <1>7, <2>0 DEF Request, ServeAssumption, ConnRec
  <2>a. /\ r \in ConnRec /\ r.req = q /\ r.seq = k.seq /\ r.write = k.write
        /\ r.ndjson = k.ndjson /\ r.finalized = k.finalized /\ r.done = k.done
        /\ r.cut = k.cut /\ r.at = k.at /\ r.last = k.last /\ r.taken = n
    BY <1>1, <1>7, <1>8, <2>2 DEF ConnRec
  <2>3. /\ r \in ConnRec /\ r.req = q /\ r.seq = None /\ r.write = <<>> /\ ~r.ndjson
        /\ ~r.finalized /\ ~r.done /\ ~r.cut /\ r.at = 0 /\ r.last = k.last
        /\ r.taken = k.taken + 1
    BY <1>1, <2>0, <2>a DEF Resting
  <2> HIDE DEF r
  <2>4. k.last.of \in Nat /\ Closes(r.last) /\ r.last.of + 1 = r.taken /\ Len(r.write) = 0
    BY <1>1, <2>3 DEF Resting, ConnRec, Piece
  <2>5. Typed(r) /\ Shape(r) /\ Named(c, r)
    BY <2>2, <2>3, <2>4 DEF Typed, Shape, Named
  <2>6. Tells(r)
    BY <2>2, <2>3, <2>4 DEF Tells, Owes, Tip
  <2> QED BY <2>1, <2>3, <2>5, <2>6 DEF Good, Sound
<1> QED BY <1>9, <1>10

LEMMA GoodRests ==
  ASSUME NEW c, NEW k, Good(c, k), k.req = None, k.write = <<>>, k.seq = None, ~k.done
  PROVE  Resting(k)
<1>1. ~k.ndjson /\ ~k.finalized
  BY DEF Good, Sound, Shape
<1>2. ~k.cut
  BY DEF Good, Sound, Tells, Refused
<1>3. Closes(k.last) /\ k.last.of = k.taken
  BY <1>2 DEF Good, Sound, Tells, Owes, Tip
<1> QED BY <1>1, <1>2, <1>3 DEF Resting, Good, Sound

(* A connection that is given up. *)
LEMMA DoneGood ==
  ASSUME NEW c, NEW k, Good(c, k)
  PROVE  /\ Good(c, [k EXCEPT !.done = TRUE]) /\ [k EXCEPT !.done = TRUE].seq = k.seq
         /\ Good(c, Cut(k)) /\ Cut(k).seq = k.seq
<1>1. k \in ConnRec /\ k.at <= Len(k.write) /\ Shape(k) /\ Named(c, k)
  BY DEF Good, Sound, Typed
<1>2. ASSUME NEW r \in {[k EXCEPT !.done = TRUE], Cut(k)} PROVE Good(c, r) /\ r.seq = k.seq
  <2>1. r \in ConnRec /\ SameTalk(r, k) /\ r.write = k.write /\ r.at = k.at /\ r.done
    BY <1>1 DEF ConnRec, SameTalk, Cut
  <2>2. Typed(r) /\ Named(c, r)
    BY <1>1, <2>1 DEF Typed, Named, SameTalk
  <2>3. Shape(r) /\ Tells(r)
    BY <1>1, <2>1 DEF Shape, Tells, SameTalk
  <2> QED BY <2>1, <2>2, <2>3 DEF Good, Sound, SameTalk
<1> QED BY <1>2

(* The answer is out: the connection ends, or goes on with the next request. *)
LEMMA FinishWriteGood ==
  ASSUME ServeAssumption, NEW c, NEW k, Typed(k), Named(c, k),
         k.write = <<>>, k.req = None,
         k.seq # None => ~k.finalized,
         k.ndjson /\ k.seq = None => k.finalized,
         k.keepAlive => /\ k.seq = None /\ ~k.cut /\ ~k.done
                        /\ Closes(k.last) /\ k.last.of = k.taken
  PROVE  Good(c, FinishWrite(k)) /\ FinishWrite(k).seq = k.seq
<1>1. k \in ConnRec /\ Len(k.write) = 0 /\ k.at = 0 /\ MaxTokens \in Nat /\ MaxPending \in Nat
  BY DEF Typed, ConnRec, ServeAssumption
<1>2. CASE ~k.keepAlive
  <2> DEFINE r == [k EXCEPT !.done = TRUE]
  <2>1. FinishWrite(k) = r
    BY <1>2 DEF FinishWrite
  <2>2. r \in ConnRec /\ SameTalk(r, k) /\ r.write = k.write /\ r.at = k.at /\ r.done
    BY <1>1 DEF ConnRec, SameTalk
  <2> HIDE DEF r
  <2>3. Typed(r) /\ Named(c, r)
    BY <1>1, <2>2 DEF Typed, Named, SameTalk
  <2>4. Shape(r) /\ Tells(r)
    BY <1>1, <2>2 DEF Shape, Tells, SameTalk
  <2> QED BY <2>1, <2>2, <2>3, <2>4 DEF Good, Sound, SameTalk
<1>3. CASE k.keepAlive
  <2> DEFINE x == [k EXCEPT !.seq = None, !.ndjson = FALSE, !.streamed = 0]
             r == [x EXCEPT !.finalized = FALSE, !.req = None]
  <2>1. FinishWrite(k) = TryTake(r)
    BY <1>3 DEF FinishWrite
  <2>a. /\ x \in ConnRec /\ x.seq = None /\ ~x.ndjson
        /\ x.write = k.write /\ x.at = k.at /\ x.done = k.done /\ x.cut = k.cut
        /\ x.last = k.last /\ x.taken = k.taken
    <3>1. 0 \in 0 .. MaxTokens
      BY <1>1
    <3> QED BY <1>1, <3>1 DEF ConnRec
  <2> HIDE DEF x
  <2>2. /\ r \in ConnRec /\ r.req = None /\ r.seq = None /\ ~r.ndjson /\ ~r.finalized
        /\ r.write = k.write /\ r.at = k.at /\ r.done = k.done /\ r.cut = k.cut
        /\ r.last = k.last /\ r.taken = k.taken
    BY <2>a DEF ConnRec
  <2> HIDE DEF r
  <2>3. Resting(r)
    BY <1>1, <1>3, <2>2 DEF Resting, Typed
  <2>4. Good(c, TryTake(r)) /\ TryTake(r).seq = None
    BY <2>2, <2>3, RestingGood, TakeGood DEF TryTake
  <2> QED BY <1>3, <2>1, <2>4
<1> QED BY <1>2, <1>3

-----------------------------------------------------------------------------
(* What the clock and the sockets do to a connection. *)

LEMMA ExpireGood ==
  ASSUME NEW c, Good(c, conn[c]), NEW k \in ExpireConn(c)
  PROVE  Good(c, k) /\ k.seq = conn[c].seq
<1>1. k \in {conn[c], [conn[c] EXCEPT !.done = TRUE], Cut(conn[c])}
  BY DEF ExpireConn
<1>2. PICK x : x = conn[c]
  OBVIOUS
<1>3. /\ Good(c, [x EXCEPT !.done = TRUE]) /\ [x EXCEPT !.done = TRUE].seq = x.seq
      /\ Good(c, Cut(x)) /\ Cut(x).seq = x.seq
  BY <1>2, DoneGood
<1> QED BY <1>1, <1>2, <1>3

LEMMA ReadGood ==
  ASSUME ServeAssumption, NEW c \in Conns, Good(c, conn[c]), ScriptsOK, NEW o \in ReadConn(c)
  PROVE  Good(c, o[1]) /\ o[1].seq = conn[c].seq /\ o[2] \in 0 .. Len(script[c])
<1> DEFINE w(n) == [conn[c] EXCEPT !.read = @ \o SubSeq(script[c], got[c] + 1, got[c] + n)]
           left == Len(script[c]) - got[c]
           quiet == ~conn[c].done /\ conn[c].req = None /\ conn[c].write = <<>>
<1>1. PICK k, g : k = conn[c] /\ g = got[c]
  OBVIOUS
<1>2. /\ script[c] \in Text /\ Len(script[c]) \in Nat /\ g \in 0 .. Len(script[c])
      /\ \A i \in 1 .. Len(script[c]) : script[c][i] \in {Part} \cup Request
  <2>1. script[c] \in Text /\ g \in 0 .. Len(script[c])
    BY <1>1 DEF ScriptsOK, ServeAssumption, Text
  <2> QED BY <2>1, LenProperties, ElementOfSeq DEF Text
<1>3. ASSUME NEW n \in 0 .. left
      PROVE  Good(c, w(n)) /\ g + n \in 0 .. Len(script[c])
             /\ w(n).req = k.req /\ w(n).write = k.write /\ w(n).seq = k.seq
             /\ w(n).done = k.done
  <2>1. PICK s, a, b : s = script[c] /\ a = g + 1 /\ b = g + n
    OBVIOUS
  <2>2. a \in Int /\ b \in Int /\ \A i \in a .. b : s[i] \in {Part} \cup Request
    BY <1>1, <1>2, <2>1
  <2>3. SubSeq(s, a, b) \in Text
    BY <2>2, SubSeqProperties DEF Text
  <2>4. PICK t : t = k.read \o SubSeq(s, a, b)
    OBVIOUS
  <2>5. k \in ConnRec /\ k.read \in Text
    BY <1>1 DEF Good, Sound, Typed, ConnRec
  <2>6. t \in Text
    BY <2>3, <2>4, <2>5, ConcatProperties DEF Text
  <2>7. w(n) = [k EXCEPT !.read = t]
    BY <1>1, <2>1, <2>4, <2>5 DEF ConnRec
  <2>8. PICK r : r = [k EXCEPT !.read = t]
    OBVIOUS
  <2>9. /\ r \in ConnRec /\ r.req = k.req /\ r.seq = k.seq /\ r.write = k.write
        /\ r.at = k.at /\ r.done = k.done /\ r.ndjson = k.ndjson /\ r.cut = k.cut
        /\ r.finalized = k.finalized /\ r.keepAlive = k.keepAlive
        /\ r.taken = k.taken /\ r.last = k.last
    BY <2>5, <2>6, <2>8 DEF ConnRec
  <2>10. Typed(r) /\ Shape(r) /\ Named(c, r)
    BY <1>1, <2>9 DEF Good, Sound, Typed, Shape, Named
  <2>11. Tells(r)
    <3>1. Tells(k) /\ Tip(r) = Tip(k)
      BY <1>1, <2>9 DEF Good, Sound, Tip
    <3>2. Owes(k) => Owes(r)
      BY <2>9, <3>1 DEF Owes
    <3> QED BY <2>9, <3>1, <3>2 DEF Tells, Refused
  <2>12. g + n \in 0 .. Len(script[c])
    BY <1>1, <1>2
  <2> QED BY <2>7, <2>8, <2>9, <2>10, <2>11, <2>12 DEF Good, Sound
<1> DEFINE tooLarge(n) == Len(w(n).read) > MaxRead
           goesOn(n) == n = 0 \/ (~tooLarge(n) /\ ~CanTake(w(n)))
           ends(n) == ~goesOn(n) /\ \E m \in 0 .. n - 1 : n - m <= ReadChunk /\ goesOn(m)
           Idles == {<<w(n), got[c] + n>> : n \in {n \in 0 .. left : goesOn(n)}}
           Fails == {<<Cut(w(n)), got[c] + n>> : n \in {n \in 0 .. left : goesOn(n)}}
           Ends == {<<IF tooLarge(n) THEN QueueErr(w(n)) ELSE Take(w(n)), got[c] + n>> :
                      n \in {n \in 1 .. left : ends(n)}}
<1>4. o \in IF ~quiet THEN {<<conn[c], got[c]>>}
            ELSE IF CanTake(conn[c]) THEN {<<Take(conn[c]), got[c]>>}
            ELSE Idles \cup Fails \cup Ends
  BY Zenon DEF ReadConn
<1> HIDE DEF w
<1>5. ASSUME NEW n \in 0 .. left, quiet
      PROVE  /\ g + n \in 0 .. Len(script[c])
             /\ Good(c, w(n)) /\ w(n).seq = k.seq
             /\ Good(c, Cut(w(n))) /\ Cut(w(n)).seq = k.seq
             /\ Good(c, QueueErr(w(n))) /\ QueueErr(w(n)).seq = k.seq
             /\ CanTake(w(n)) => Good(c, Take(w(n))) /\ Take(w(n)).seq = k.seq
  <2>1. /\ Good(c, w(n)) /\ g + n \in 0 .. Len(script[c])
        /\ w(n).req = None /\ w(n).write = <<>> /\ ~w(n).done /\ w(n).seq = k.seq
    BY <1>1, <1>3, <1>5
  <2>2. Good(c, Cut(w(n))) /\ Cut(w(n)).seq = k.seq
    BY <2>1, DoneGood
  <2>4. Good(c, QueueErr(w(n))) /\ QueueErr(w(n)).seq = k.seq
    <3>1. Typed(w(n)) /\ Shape(w(n)) /\ Named(c, w(n))
      BY <2>1 DEF Good, Sound
    <3> QED BY <2>1, <3>1, QueueErrGood
  <2>3. CanTake(w(n)) => Good(c, Take(w(n))) /\ Take(w(n)).seq = k.seq
    BY <2>1, GoodRests, TakeGood DEF CanTake
  <2> QED BY <2>1, <2>2, <2>3, <2>4
<1>6. CASE o = <<k, g>>
  BY <1>1, <1>2, <1>6
<1>7. CASE quiet /\ CanTake(k) /\ o = <<Take(k), g>>
  <2>1. Resting(k)
    BY <1>1, <1>7, GoodRests DEF CanTake
  <2>2. Good(c, Take(k)) /\ Take(k).seq = None
    BY <1>7, <2>1, TakeGood
  <2> QED BY <1>1, <1>2, <1>7, <2>2 DEF CanTake
<1>8. CASE quiet /\ o \in Idles \cup Fails
  <2>1. PICK n \in 0 .. left : o[1] \in {w(n), Cut(w(n))} /\ o[2] = g + n
    BY <1>1, <1>8
  <2> QED BY <1>1, <1>5, <1>8, <2>1
<1>9. CASE quiet /\ o \in Ends
  <2>1. PICK n \in 1 .. left : /\ ends(n)
                               /\ o = <<IF tooLarge(n) THEN QueueErr(w(n)) ELSE Take(w(n)), got[c] + n>>
    BY <1>9
  <2>2. n \in 0 .. left /\ n # 0
    BY <1>1, <1>2
  <2>3. tooLarge(n) \/ CanTake(w(n))
    BY <2>1, <2>2
  <2> HIDE DEF tooLarge, ends
  <2> QED BY <1>1, <1>5, <1>9, <2>1, <2>2, <2>3
<1> HIDE DEF Idles, Fails, Ends
<1> QED BY <1>1, <1>4, <1>6, <1>7, <1>8, <1>9

LEMMA WriteGood ==
  ASSUME ServeAssumption, NEW c \in Conns, Good(c, conn[c]), NEW o \in WriteConn(c)
  PROVE  Good(c, o) /\ o.seq = conn[c].seq
<1> DEFINE sent(n) == [conn[c] EXCEPT
                         !.at = @ + n, !.stalled = TRUE,
                         !.last = IF n = 0 \/ conn[c].write[conn[c].at + n].part = "error" THEN @
                                  ELSE conn[c].write[conn[c].at + n]]
           room == 0 .. Len(Unsent(conn[c]))
           all == Len(Unsent(conn[c]))
           flushed == [sent(all) EXCEPT !.write = <<>>, !.at = 0, !.stalled = FALSE]
           quiet == conn[c].done \/ conn[c].write = <<>>
<1>1. o \in IF quiet THEN {[conn[c] EXCEPT !.stalled = FALSE]}
            ELSE {sent(n) : n \in room} \cup {Cut(sent(n)) : n \in room}
                 \cup {IF conn[c].ndjson /\ ~conn[c].finalized THEN flushed
                       ELSE FinishWrite(flushed)}
  BY Zenon DEF WriteConn
<1>2. PICK k : k = conn[c]
  OBVIOUS
<1>3. /\ k \in ConnRec /\ Typed(k) /\ Shape(k) /\ Named(c, k) /\ Tells(k)
      /\ Len(k.write) \in Nat /\ k.at \in Nat /\ all = Len(k.write) - k.at
      /\ k.at <= Len(k.write)
      /\ \A i \in 1 .. Len(k.write) : k.write[i] \in Piece
  <2>1. k \in ConnRec /\ Typed(k) /\ Shape(k) /\ Named(c, k) /\ Tells(k)
    BY <1>2 DEF Good, Sound, Typed
  <2> QED BY <1>2, <2>1, UnsentSeq DEF Typed
<1> HIDE DEF all
<1>4. CASE quiet
  <2>1. PICK r : r = [k EXCEPT !.stalled = FALSE]
    OBVIOUS
  <2>2. o = r
    BY <1>1, <1>2, <1>4, <2>1
  <2>3. /\ r \in ConnRec /\ r.req = k.req /\ r.seq = k.seq /\ r.write = k.write
        /\ r.at = k.at /\ r.done = k.done /\ r.ndjson = k.ndjson /\ r.cut = k.cut
        /\ r.finalized = k.finalized /\ r.keepAlive = k.keepAlive
        /\ r.taken = k.taken /\ r.last = k.last
    BY <1>3, <2>1 DEF ConnRec
  <2>4. Typed(r) /\ Shape(r) /\ Named(c, r)
    BY <1>3, <2>3 DEF Typed, Shape, Named
  <2>5. Tells(r)
    <3>1. Tip(r) = Tip(k)
      BY <2>3 DEF Tip
    <3>2. Owes(k) => Owes(r)
      BY <2>3, <3>1 DEF Owes
    <3> QED BY <1>3, <2>3, <3>2 DEF Tells, Refused
  <2> QED BY <1>2, <2>2, <2>3, <2>4, <2>5 DEF Good, Sound
<1>5. ASSUME ~quiet, NEW n \in room
      PROVE  /\ Good(c, sent(n)) /\ sent(n) \in ConnRec
             /\ sent(n).seq = k.seq /\ sent(n).req = k.req /\ sent(n).ndjson = k.ndjson
             /\ sent(n).finalized = k.finalized /\ sent(n).keepAlive = k.keepAlive
             /\ sent(n).cut = k.cut /\ sent(n).done = k.done /\ sent(n).taken = k.taken
             /\ sent(n).at = k.at + n
             /\ ~k.cut /\ k.at + n > 0 => sent(n).last = k.write[k.at + n]
  <2>1. PICK a, l : /\ a = k.at + n
                    /\ l = IF n = 0 \/ k.write[k.at + n].part = "error" THEN k.last
                           ELSE k.write[k.at + n]
    OBVIOUS
  <2>2. n \in Nat /\ a \in Nat /\ a <= Len(k.write) /\ (n = 0 \/ a \in 1 .. Len(k.write))
    <3>1. room = 0 .. all
      BY DEF all
    <3> QED BY <1>3, <2>1, <3>1
  <2>3. l \in Piece
    BY <1>3, <2>1, <2>2 DEF ConnRec
  <2>4. PICK r : r = [k EXCEPT !.at = a, !.stalled = TRUE, !.last = l]
    OBVIOUS
  <2>5. sent(n) = r
    BY <1>2, <1>3, <2>1, <2>4 DEF ConnRec
  <2>6. /\ r \in ConnRec /\ r.req = k.req /\ r.seq = k.seq /\ r.write = k.write
        /\ r.at = a /\ r.done = k.done /\ r.ndjson = k.ndjson /\ r.cut = k.cut
        /\ r.finalized = k.finalized /\ r.keepAlive = k.keepAlive
        /\ r.taken = k.taken /\ r.last = l
    BY <1>3, <2>2, <2>3, <2>4 DEF ConnRec
  <2>7. Typed(r) /\ Shape(r) /\ Named(c, r)
    BY <1>3, <2>2, <2>6 DEF Typed, Shape, Named
  <2>8. ~k.done /\ k.write # <<>>
    BY <1>2, <1>5
  <2>9. ~k.cut /\ a > 0 => l = k.write[a]
    BY <1>3, <2>1, <2>2, <2>8 DEF Tells, Owes
  <2>10. Tells(r)
    <3>1. Tip(r) = Tip(k)
      BY <2>6, <2>8 DEF Tip
    <3>2. ~k.cut /\ Owes(k) => Owes(r)
      BY <2>6, <2>9, <3>1 DEF Owes
    <3> QED BY <1>3, <2>6, <2>8, <3>2 DEF Tells, Refused
  <2> QED BY <2>1, <2>5, <2>6, <2>7, <2>9, <2>10 DEF Good, Sound
<1> HIDE DEF sent
<1>6. CASE ~quiet
  <2>1. all \in room /\ k.at + all = Len(k.write) /\ Len(k.write) > 0
    <3>1. room = 0 .. all
      BY DEF all
    <3>2. k.write \in Seq(Piece) /\ k.write # <<>>
      BY <1>2, <1>3, <1>6 DEF ConnRec
    <3> QED BY <1>3, <3>1, <3>2, EmptySeq
  <2>2. PICK x : x = sent(all)
    OBVIOUS
  <2>3. PICK r : r = [x EXCEPT !.write = <<>>, !.at = 0, !.stalled = FALSE]
    OBVIOUS
  <2>4. /\ x \in ConnRec /\ x.seq = k.seq /\ x.req = k.req /\ x.ndjson = k.ndjson
        /\ x.finalized = k.finalized /\ x.keepAlive = k.keepAlive
        /\ x.cut = k.cut /\ x.done = k.done /\ x.taken = k.taken
        /\ ~k.cut => x.last = k.write[Len(k.write)]
    BY <1>5, <1>6, <2>1, <2>2
  <2>5. /\ r \in ConnRec /\ r.seq = k.seq /\ r.req = k.req /\ r.ndjson = k.ndjson
        /\ r.finalized = k.finalized /\ r.keepAlive = k.keepAlive
        /\ r.cut = k.cut /\ r.done = k.done /\ r.taken = k.taken
        /\ r.at = 0 /\ r.write = <<>> /\ r.last = x.last
    BY <2>3, <2>4, EmptySeq DEF ConnRec
  <2>6. ~k.done /\ k.write # <<>> /\ k.req = None
    BY <1>2, <1>3, <1>6 DEF Shape
  <2>7. Typed(r) /\ Named(c, r) /\ Len(r.write) = 0
    BY <1>3, <2>5 DEF Typed, Named
  <2>8. ~k.cut => Tip(k) = r.last
    BY <2>4, <2>5, <2>6 DEF Tip
  <2>9. ASSUME k.ndjson /\ ~k.finalized PROVE Good(c, r)
    <3>1. k.seq # None
      BY <1>3, <2>9 DEF Shape
    <3>2. Shape(r)
      BY <2>5, <2>6, <2>7, <2>9, <3>1 DEF Shape, ServeAssumption
    <3>3. ASSUME k.cut PROVE Tells(r)
      BY <1>3, <2>5, <2>6, <3>1, <3>3 DEF Tells, Refused
    <3>4. ASSUME ~k.cut PROVE Tells(r)
      <4>1. r.last.part \in {"head", "tokens"} /\ r.last.of = k.taken
        BY <1>3, <2>6, <2>8, <2>9, <3>1, <3>4 DEF Tells, Owes
      <4>2. Tip(r) = r.last
        BY <2>5 DEF Tip
      <4>3. Owes(r)
        BY <2>5, <2>6, <2>7, <2>9, <3>1, <4>1, <4>2 DEF Owes
      <4> QED BY <2>5, <3>4, <4>3 DEF Tells
    <3> QED BY <2>7, <3>2, <3>3, <3>4 DEF Good, Sound
  <2>10. ASSUME ~(k.ndjson /\ ~k.finalized) PROVE Good(c, FinishWrite(r)) /\ FinishWrite(r).seq = k.seq
    <3>1. k.keepAlive => k.seq = None /\ ~k.cut
      BY <1>3, <2>6, <2>10 DEF Shape, Tells, Refused
    <3>2. k.keepAlive => Closes(r.last) /\ r.last.of = r.taken
      BY <1>3, <2>5, <2>6, <2>8, <3>1 DEF Tells, Owes
    <3>3. /\ r.seq # None => ~r.finalized
          /\ r.ndjson /\ r.seq = None => r.finalized
      BY <1>3, <2>5 DEF Shape
    <3>4. Good(c, FinishWrite(r)) /\ FinishWrite(r).seq = r.seq
      BY <2>5, <2>6, <2>7, <3>1, <3>2, <3>3, FinishWriteGood
    <3> QED BY <2>5, <3>4
  <2>11. \/ \E n \in room : o = sent(n) \/ o = Cut(sent(n))
         \/ k.ndjson /\ ~k.finalized /\ o = r
         \/ ~(k.ndjson /\ ~k.finalized) /\ o = FinishWrite(r)
    BY <1>1, <1>2, <1>6, <2>2, <2>3
  <2>12. \A n \in room : Good(c, Cut(sent(n))) /\ Cut(sent(n)).seq = k.seq
    BY <1>5, <1>6, DoneGood
  <2> QED BY <1>2, <1>5, <1>6, <2>5, <2>9, <2>10, <2>11, <2>12
<1> QED BY <1>4, <1>6

-----------------------------------------------------------------------------
(* What poll does to a connection in a stage of its own. *)

Clean(k) == \A i \in 1 .. Len(k.write) : k.write[i].part # "error"

(* Queueing what is no error leaves the queue clean. *)
LEMMA QueuedClean ==
  ASSUME NEW k, Typed(k), NEW p \in Piece, p.part # "error", NEW r, Queued(r, k, p),
         Clean(k), ~r.done
  PROVE  Clean(r) /\ Tip(r) = p
<1>1. /\ Len(Unsent(k)) = Len(k.write) - k.at /\ Len(k.write) \in Nat /\ k.at \in Nat
      /\ r.write # <<>> /\ Len(r.write) = Len(Unsent(k)) + 1 /\ r.write[Len(r.write)] = p
      /\ \A i \in 1 .. Len(Unsent(k)) : r.write[i] = k.write[k.at + i]
      /\ k.at <= Len(k.write)
  BY UnsentSeq DEF Queued, Typed
<1>2. ASSUME NEW i \in 1 .. Len(r.write) PROVE r.write[i].part # "error"
  <2>1. CASE i = Len(r.write)
    BY <1>1, <2>1
  <2>2. CASE i # Len(r.write)
    <3>1. i \in 1 .. Len(Unsent(k)) /\ k.at + i \in 1 .. Len(k.write)
      BY <1>1, <2>2
    <3> QED BY <1>1, <3>1 DEF Clean
  <2> QED BY <2>1, <2>2
<1> QED BY <1>1, <1>2 DEF Clean, Tip

(* A stream goes on with one more piece. *)
LEMMA StreamedGood ==
  ASSUME NEW c, NEW k, Typed(k), Named(c, k), ~k.done, k.req = None, k.seq # None,
         k.ndjson, ~k.finalized, k.cut => ~k.keepAlive, ~k.cut => Clean(k),
         NEW p \in Piece, p.part \in {"head", "tokens"}, p.of = k.taken,
         NEW r, Queued(r, k, p), ServeAssumption
  PROVE  Good(c, r)
<1>1. /\ r \in ConnRec /\ r.at = 0 /\ r.req = None /\ r.seq = k.seq /\ r.ndjson
      /\ ~r.finalized /\ r.keepAlive = k.keepAlive /\ r.taken = k.taken
      /\ r.done \/ r.cut = k.cut
  BY DEF Queued, SameTalk
<1>2. Len(r.write) \in Nat /\ Len(r.write) <= MaxPending /\ (r.done \/ r.write # <<>>)
  <2>1. r.write \in Seq(Piece)
    BY <1>1 DEF ConnRec
  <2>2. Len(r.write) \in Nat /\ (r.write = <<>> => Len(r.write) = 0)
    BY <2>1, LenProperties
  <2> QED BY <2>2 DEF Queued, ServeAssumption
<1>3. Typed(r) /\ Named(c, r) /\ Shape(r)
  BY <1>1, <1>2 DEF Typed, Named, Shape
<1>4. ASSUME ~r.done PROVE IF r.cut THEN Refused(r) ELSE Owes(r)
  <2>1. CASE k.cut
    BY <1>1, <1>4, <2>1 DEF Refused
  <2>2. CASE ~k.cut
    <3>1. Clean(r) /\ Tip(r) = p
      BY <1>4, <2>2, QueuedClean
    <3>2. Owes(r)
      BY <1>1, <3>1 DEF Owes, Clean
    <3> QED BY <1>1, <1>4, <2>2, <3>2
  <2> QED BY <2>1, <2>2
<1> QED BY <1>3, <1>4 DEF Good, Sound, Tells

LEMMA StreamGood ==
  ASSUME ServeAssumption, EngineOK, NEW c \in Conns, Good(c, conn[c])
  PROVE  Good(c, StreamConn(c)) /\ StreamConn(c).seq = conn[c].seq
<1>1. PICK k : k = conn[c]
  OBVIOUS
<1>2. CASE \/ k.done \/ ~k.ndjson \/ k.finalized \/ k.seq \notin DOMAIN seqs
           \/ seqs[k.seq].made <= k.streamed
  BY <1>1, <1>2 DEF StreamConn
<1>3. CASE ~(\/ k.done \/ ~k.ndjson \/ k.finalized \/ k.seq \notin DOMAIN seqs
             \/ seqs[k.seq].made <= k.streamed)
  <2>1. PICK m : m = seqs[k.seq].made
    OBVIOUS
  <2>2. k.seq # None /\ m \in 0 .. MaxTokens
    BY <1>3, <2>1 DEF EngineOK, EngineSeq
  <2>3. /\ Typed(k) /\ Named(c, k) /\ k.req = None /\ k.streamed \in Nat /\ k.taken \in Nat
        /\ k.seq[2] = k.taken
    BY <1>1, <2>2 DEF Good, Sound, Shape, Named, Typed, ConnRec
  <2>4. (k.cut => ~k.keepAlive) /\ (~k.cut => Clean(k))
    BY <1>1, <1>3 DEF Good, Sound, Tells, Refused, Owes, Clean
  <2>5. PICK p : p = Answer(k.seq[2], "tokens", k.streamed + 1, m)
    OBVIOUS
  <2>6. p \in Piece /\ p.part = "tokens" /\ p.of = k.taken
    BY <2>2, <2>3, <2>5 DEF Answer, Piece, ServeAssumption
  <2>7. PICK x : x = QueueStream(k, p)
    OBVIOUS
  <2>8. Queued(x, k, p)
    BY <1>3, <2>3, <2>6, <2>7, QueueStreamQueues
  <2>9. Good(c, x) /\ x.seq = k.seq
    BY <1>3, <2>2, <2>3, <2>4, <2>6, <2>8, StreamedGood DEF Queued, SameTalk
  <2>10. PICK r : r = [x EXCEPT !.streamed = m]
    OBVIOUS
  <2>11. StreamConn(c) = r
    BY <1>1, <1>3, <2>1, <2>5, <2>7, <2>10 DEF StreamConn
  <2>12. /\ r \in ConnRec /\ r.req = x.req /\ r.seq = x.seq /\ r.write = x.write
         /\ r.at = x.at /\ r.done = x.done /\ r.ndjson = x.ndjson /\ r.cut = x.cut
         /\ r.finalized = x.finalized /\ r.keepAlive = x.keepAlive
         /\ r.taken = x.taken /\ r.last = x.last
    BY <2>2, <2>9, <2>10 DEF ConnRec, Good, Sound, Typed
  <2>13. Typed(r) /\ Shape(r) /\ Named(c, r) /\ Tells(x)
    BY <2>9, <2>12 DEF Good, Sound, Typed, Shape, Named
  <2>14. Tells(r)
    <3>1. Tip(r) = Tip(x)
      BY <2>12 DEF Tip
    <3>2. Owes(x) => Owes(r)
      BY <2>12, <3>1 DEF Owes
    <3> QED BY <2>12, <2>13, <3>2 DEF Tells, Refused
  <2> QED BY <1>1, <2>9, <2>11, <2>12, <2>13, <2>14 DEF Good, Sound
<1> QED BY <1>2, <1>3

LEMMA AdmitGood ==
  ASSUME ServeAssumption, NEW c \in Conns, Good(c, conn[c])
  PROVE  /\ Good(c, AdmitConn(c))
         /\ \/ AdmitConn(c).seq = conn[c].seq
            \/ /\ conn[c].seq = None /\ conn[c].req \in Request
               /\ AdmitConn(c).seq = <<c, conn[c].taken>> /\ AdmitConn(c).seq # None
<1>1. PICK k : k = conn[c]
  OBVIOUS
<1>2. CASE ~CanAdmit(k)
  BY <1>1, <1>2 DEF AdmitConn
<1>3. CASE CanAdmit(k)
  <2>1. /\ k \in ConnRec /\ Typed(k) /\ k.req \in Request /\ k.seq = None /\ k.write = <<>>
        /\ ~k.done /\ ~k.ndjson /\ ~k.finalized
    BY <1>1, <1>3 DEF CanAdmit, Good, Sound, Typed, ConnRec, Shape
  <2>2. ~k.cut /\ Closes(k.last) /\ k.last.of + 1 = k.taken /\ k.at = 0 /\ Len(k.write) = 0
    BY <1>1, <1>3, <2>1 DEF Good, Sound, Tells, Refused, Owes, Tip, CanAdmit, Typed, ConnRec
  <2>3. PICK r : r = k.req
    OBVIOUS
  <2>4. r \in Request /\ r.kind \in {"plain", "whole", "stream", "echo", "bad"} /\ r.keepAlive \in BOOLEAN
    BY <2>1, <2>3 DEF Request
  <2>5. PICK x : x = [k EXCEPT !.req = None]
    OBVIOUS
  <2>6. /\ x \in ConnRec /\ x.req = None /\ x.seq = None /\ x.write = <<>> /\ x.at = 0
        /\ ~x.done /\ ~x.ndjson /\ ~x.cut /\ ~x.finalized /\ x.taken = k.taken
        /\ x.last = k.last /\ x.taken \in Nat
    BY <2>1, <2>2, <2>5 DEF ConnRec
  <2>7. CASE r.kind = "plain"
    <3>1. PICK p : p = Answer(k.taken, "whole", 0, 0)
      OBVIOUS
    <3>2. p \in Piece /\ p.part = "whole" /\ p.of = k.taken
      BY <2>6, <3>1 DEF Answer, Piece
    <3>3. <<p>> \in Seq(Piece) /\ Len(<<p>>) = 1 /\ <<p>> # <<>> /\ <<p>>[1] = p
      BY <3>2
    <3>4. PICK y : y = [x EXCEPT !.write = <<p>>, !.at = 0]
      OBVIOUS
    <3>5. /\ y \in ConnRec /\ y.req = None /\ y.seq = None /\ y.write = <<p>> /\ y.at = 0
          /\ ~y.done /\ ~y.ndjson /\ ~y.cut /\ ~y.finalized /\ y.taken = k.taken
      BY <2>6, <3>3, <3>4 DEF ConnRec
    <3>6. AdmitConn(c) = y
      BY <1>1, <1>3, <2>3, <2>5, <2>6, <2>7, <3>1, <3>4 DEF AdmitConn
    <3>7. Typed(y) /\ Shape(y) /\ Named(c, y)
      BY <3>3, <3>5 DEF Typed, Shape, Named
    <3>8. Tells(y)
      BY <3>2, <3>3, <3>5 DEF Tells, Owes, Tip, Closes
    <3> QED BY <1>1, <2>1, <3>5, <3>6, <3>7, <3>8 DEF Good, Sound
  <2>8. CASE r.kind # "plain"
    <3>1. PICK i, b, v : i = <<c, k.taken>> /\ b = (r.kind \in {"stream", "echo"})
                       /\ v = r.keepAlive
      OBVIOUS
    <3>2. i \in Id /\ i # None /\ b \in BOOLEAN /\ v \in BOOLEAN
      BY <2>4, <2>6, <3>1 DEF Id, ServeAssumption
    <3>3. PICK y : y = [x EXCEPT !.seq = i, !.ndjson = b, !.keepAlive = v]
      OBVIOUS
    <3>4. /\ y \in ConnRec /\ y.req = None /\ y.seq = i /\ y.write = <<>> /\ y.at = 0
          /\ ~y.done /\ y.ndjson = b /\ ~y.cut /\ ~y.finalized /\ y.taken = k.taken
          /\ y.last = k.last
      BY <2>6, <3>2, <3>3 DEF ConnRec
    <3>5. Typed(y) /\ Named(c, y)
      BY <2>2, <2>6, <3>1, <3>4 DEF Typed, Named
    <3>6. CASE b
      <4>1. PICK p : p = Answer(k.taken, "head", 0, 0)
        OBVIOUS
      <4>2. p \in Piece /\ p.part = "head" /\ p.of = y.taken
        BY <2>6, <3>4, <4>1 DEF Answer, Piece
      <4>4. PICK z : z = IF r.kind = "stream" THEN QueueStream(y, p) ELSE Overrun(y)
        OBVIOUS
      <4>3. Queued(z, y, p) /\ Clean(y)
        BY <2>2, <2>6, <3>4, <3>5, <4>2, <4>4, QueueStreamQueues, OverrunQueues DEF Clean
      <4>5. Good(c, z)
        BY <3>2, <3>4, <3>5, <3>6, <4>2, <4>3, StreamedGood
      <4>6. z.seq = i
        BY <3>4, <4>3 DEF Queued, SameTalk
      <4>7. AdmitConn(c) = z
        <5>1. CASE r.kind = "stream"
          BY <5>1, <1>1, <1>3, <2>3, <2>5, <2>6, <2>8, <3>1, <3>3, <3>6, <4>1, <4>4 DEF AdmitConn
        <5>2. CASE r.kind = "echo"
          BY <5>2, <1>1, <1>3, <2>3, <2>5, <2>6, <2>8, <3>1, <3>3, <3>6, <4>1, <4>4 DEF AdmitConn
        <5> QED BY <3>1, <3>6, <5>1, <5>2
      <4> QED BY <1>1, <2>1, <3>1, <3>2, <4>5, <4>6, <4>7
    <3>7. CASE ~b
      <4>1. AdmitConn(c) = y
        BY <1>1, <1>3, <2>3, <2>5, <2>6, <2>8, <3>1, <3>3, <3>7 DEF AdmitConn
      <4>2. Shape(y) /\ Tells(y)
        BY <2>2, <2>6, <3>2, <3>4, <3>7 DEF Shape, Tells, Owes, Tip
      <4> QED BY <1>1, <2>1, <3>1, <3>2, <3>4, <3>5, <4>1, <4>2 DEF Good, Sound
    <3> QED BY <3>2, <3>6, <3>7
  <2> QED BY <2>7, <2>8
<1> QED BY <1>2, <1>3

LEMMA FinishSeqGood ==
  ASSUME ServeAssumption, EngineOK, NEW c \in Ready, PlacesOK, Good(c, conn[c])
  PROVE  Good(c, FinishSeq(c)) /\ FinishSeq(c).seq = None
<1>1. PICK k : k = conn[c]
  OBVIOUS
<1>2. PICK m : m = seqs[k.seq].made
  OBVIOUS
<1>3. /\ k.seq # None /\ m \in 0 .. MaxTokens /\ m \in Nat /\ ~k.done
      /\ IF k.ndjson THEN ~k.finalized ELSE k.write = <<>>
  BY <1>1, <1>2 DEF Ready, EngineOK, EngineSeq, ServeAssumption
<1>4. /\ k \in ConnRec /\ Typed(k) /\ Shape(k) /\ Named(c, k) /\ k.req = None
      /\ k.taken \in Nat /\ k.seq[2] = k.taken /\ ~k.finalized
  BY <1>1, <1>3 DEF Good, Sound, Shape, Named, Typed, ConnRec
<1>5. Tells(k)
  BY <1>1 DEF Good, Sound
<1>6. CASE ~k.ndjson
  <2>1. PICK p : p = Answer(k.seq[2], "whole", 0, m)
    OBVIOUS
  <2>2. p \in Piece /\ p.part = "whole" /\ p.of = k.taken
    BY <1>3, <1>4, <2>1 DEF Answer, Piece
  <2>3. <<p>> \in Seq(Piece) /\ Len(<<p>>) = 1 /\ <<p>> # <<>> /\ <<p>>[1] = p
    BY <2>2
  <2>4. PICK r : r = [k EXCEPT !.write = <<p>>, !.at = 0, !.seq = None]
    OBVIOUS
  <2>5. FinishSeq(c) = r
    BY <1>1, <1>2, <1>6, <2>1, <2>4 DEF FinishSeq
  <2>6. /\ r \in ConnRec /\ r.req = None /\ r.seq = None /\ r.write = <<p>> /\ r.at = 0
        /\ ~r.done /\ ~r.ndjson /\ r.cut = k.cut /\ ~r.finalized /\ r.taken = k.taken
        /\ r.keepAlive = k.keepAlive
    BY <1>3, <1>4, <1>6, <2>3, <2>4 DEF ConnRec
  <2>7. Typed(r) /\ Shape(r) /\ Named(c, r)
    BY <2>3, <2>6 DEF Typed, Shape, Named
  <2>8. Tells(r)
    BY <1>3, <1>5, <2>2, <2>3, <2>6 DEF Tells, Owes, Tip, Closes, Refused
  <2> QED BY <2>5, <2>6, <2>7, <2>8 DEF Good, Sound
<1>7. CASE k.ndjson
  <2>1. PICK p, q : /\ p = Answer(k.seq[2], "last", 0, m)
                    /\ q = Answer(k.seq[2], "end", 0, m)
    OBVIOUS
  <2>2. /\ p \in Piece /\ p.part = "last" /\ q \in Piece /\ q.part = "end" /\ q.of = k.taken
    BY <1>3, <1>4, <2>1 DEF Answer, Piece
  <2>3. PICK x : x = QueueStream(k, p)
    OBVIOUS
  <2>4. Queued(x, k, p)
    BY <1>3, <1>4, <2>2, <2>3, QueueStreamQueues
  <2>5. PICK y : y = QueueStream(x, q)
    OBVIOUS
  <2>6. PICK r : r = [y EXCEPT !.finalized = TRUE, !.seq = None]
    OBVIOUS
  <2>7. FinishSeq(c) = r
    BY <1>1, <1>2, <1>7, <2>1, <2>3, <2>5, <2>6 DEF FinishSeq
  <2>8. (~k.cut => Clean(k)) /\ (k.cut => ~k.keepAlive)
    BY <1>3, <1>5 DEF Tells, Owes, Clean, Refused
  <2>9. Typed(x)
    <3>1. x \in ConnRec /\ x.at = 0 /\ x.write \in Seq(Piece)
      BY <2>4 DEF Queued, ConnRec
    <3> QED BY <3>1, LenProperties DEF Typed
  <2>10. /\ y \in ConnRec /\ y.at = 0 /\ y.req = None /\ y.keepAlive = k.keepAlive
         /\ y.taken = k.taken /\ y.ndjson /\ (y.done \/ y.write # <<>>)
         /\ y.done \/ y.cut = k.cut
         /\ ~y.done /\ ~k.cut => Clean(y) /\ Tip(y) = q
         /\ Len(y.write) \in Nat /\ Len(y.write) <= MaxPending
    <3>1. CASE x.done
      <4>1. y = x
        BY <2>5, <3>1 DEF QueueStream
      <4>2. Len(x.write) = 0 /\ 0 <= MaxPending
        BY <2>4, <3>1 DEF Queued, ServeAssumption
      <4> QED BY <1>4, <1>7, <2>4, <3>1, <4>1, <4>2 DEF Queued, SameTalk
    <3>2. CASE ~x.done
      <4>1. Queued(y, x, q)
        BY <2>2, <2>5, <2>9, <3>2, QueueStreamQueues
      <4>2. /\ y \in ConnRec /\ y.at = 0 /\ y.req = None /\ y.keepAlive = k.keepAlive
            /\ y.taken = k.taken /\ y.ndjson /\ x.cut = k.cut
            /\ y.done \/ y.cut = k.cut
        BY <1>4, <1>7, <2>4, <3>2, <4>1 DEF Queued, SameTalk
      <4>3. (y.done \/ y.write # <<>>) /\ Len(y.write) \in Nat /\ Len(y.write) <= MaxPending
        <5>1. y.write \in Seq(Piece)
          BY <4>2 DEF ConnRec
        <5>2. Len(y.write) \in Nat /\ (y.write = <<>> => Len(y.write) = 0)
          BY <5>1, LenProperties
        <5> QED BY <4>1, <5>2 DEF Queued, ServeAssumption
      <4>4. ASSUME ~y.done, ~k.cut PROVE Clean(y) /\ Tip(y) = q
        <5>1. Clean(x)
          BY <1>4, <2>2, <2>4, <2>8, <3>2, <4>4, QueuedClean
        <5> QED BY <2>2, <2>9, <4>1, <4>4, <5>1, QueuedClean
      <4> QED BY <4>2, <4>3, <4>4
    <3> QED BY <3>1, <3>2
  <2>11. /\ r \in ConnRec /\ r.req = None /\ r.seq = None /\ r.write = y.write /\ r.at = 0
         /\ r.done = y.done /\ r.ndjson /\ r.cut = y.cut /\ r.finalized /\ r.taken = k.taken
         /\ r.keepAlive = k.keepAlive
    BY <2>6, <2>10 DEF ConnRec
  <2>12. Typed(r) /\ Shape(r) /\ Named(c, r)
    BY <2>10, <2>11 DEF Typed, Shape, Named
  <2>13. ASSUME ~r.done PROVE IF r.cut THEN Refused(r) ELSE Owes(r)
    <3>1. CASE k.cut
      BY <2>8, <2>10, <2>11, <2>13, <3>1 DEF Refused
    <3>2. CASE ~k.cut
      <4>1. Clean(y) /\ Tip(y) = q /\ Tip(r) = Tip(y)
        BY <2>10, <2>11, <2>13, <3>2 DEF Tip
      <4>2. Owes(r)
        BY <2>2, <2>11, <4>1 DEF Owes, Clean, Closes
      <4> QED BY <2>10, <2>11, <2>13, <3>2, <4>2
    <3> QED BY <3>1, <3>2
  <2> QED BY <2>7, <2>11, <2>12, <2>13 DEF Good, Sound, Tells
<1> QED BY <1>6, <1>7

-----------------------------------------------------------------------------
(* The steps. *)

(* The connections that remain in `open`. *)
LEMMA RemainingRange ==
  ASSUME ServeAssumption, PlacesOK, NEW dead, NEW q \in Remaining(dead)
  PROVE  q \in Seq(Conns) /\ Len(q) \in Nat /\ Range(q) = Range(open) \ dead
<1>1. Range(open) \ dead \subseteq Conns
  BY DEF PlacesOK
<1>2. IsFiniteSet(Range(open) \ dead)
  BY <1>1, FS_Subset DEF ServeAssumption
<1>3. q \in SetToSeqs(Range(open) \ dead)
  BY DEF Remaining
<1>4. q \in Seq(Range(open) \ dead) /\ Range(q) = Range(open) \ dead
  BY <1>2, <1>3, Enumerated
<1>5. q \in Seq(Conns)
  BY <1>1, <1>4, SeqMonotonic
<1> QED BY <1>4, <1>5, LenProperties

LEMMA OpenElement ==
  ASSUME PlacesOK, turn <= Len(open), NEW c, c = open[turn]
  PROVE  c \in Range(open) /\ c \in Conns /\ Len(open) \in Nat
<1>1. Len(open) \in Nat /\ DOMAIN open = 1 .. Len(open)
  BY LenProperties DEF PlacesOK
<1>2. turn \in 1 .. Len(open)
  BY <1>1 DEF PlacesOK
<1> QED BY <1>1, <1>2 DEF PlacesOK, Range

(* A step that changes one open connection and keeps its sequence. *)
LEMMA OneConn ==
  ASSUME ServeAssumption, IInv, NEW c \in Range(open), NEW k, Good(c, k),
         k.seq = conn[c].seq, conn' = [conn EXCEPT ![c] = k], UNCHANGED <<open, arrived, seqs>>
  PROVE  ConnsOK' /\ EngineOK'
<1>1. c \in Conns /\ DOMAIN conn = Conns /\ c \in arrived
  BY DEF IInv, PlacesOK, ConnsOK
<1>2. conn'[c] = k /\ \A d \in Conns : d # c => conn'[d] = conn[d]
  BY <1>1
<1>3. \A d \in Conns : conn'[d].seq = conn[d].seq
  BY <1>2
<1>4. EngineOK'
  BY <1>3 DEF IInv, EngineOK
<1>5. ASSUME NEW d \in Range(open) PROVE Good(d, conn[d])'
  <2>1. d \in Conns /\ Good(d, conn[d])
    BY DEF IInv, PlacesOK, ConnsOK
  <2>2. PICK x : x = conn'[d]
    OBVIOUS
  <2>3. Good(d, x)
    BY <1>2, <2>1, <2>2
  <2> QED BY <2>2, <2>3 DEF Good, Sound, Named, Typed, Shape, Tells, Refused, Owes, Tip, Closes
<1>6. ASSUME NEW d \in Conns \ Range(open) PROVE Typed(conn[d])' /\ Absent(conn[d])'
  <2>1. conn'[d] = conn[d] /\ Typed(conn[d]) /\ Absent(conn[d])
    BY <1>2 DEF IInv, ConnsOK
  <2> QED BY <2>1 DEF Typed, Absent
<1>7. \A d \in Conns \ arrived : conn'[d] = NewConn
  BY <1>1, <1>2 DEF IInv, ConnsOK
<1> QED BY <1>1, <1>4, <1>5, <1>6, <1>7 DEF ConnsOK

LEMMA ExpireStep ==
  ASSUME ServeAssumption, IInv, NEW c \in Conns, Expire(c)
  PROVE  IInv'
<1>1. c \in Range(open) /\ Len(open) \in Nat
  BY OpenElement DEF Expire, IInv
<1>2. PICK k \in ExpireConn(c) : conn' = [conn EXCEPT ![c] = k]
  BY DEF Expire
<1>3. Good(c, k) /\ k.seq = conn[c].seq
  BY <1>1, ExpireGood DEF IInv, ConnsOK
<1>4. ConnsOK' /\ EngineOK'
  BY <1>1, <1>2, <1>3, OneConn DEF Expire, Others
<1>5. PlacesOK' /\ ScriptsOK' /\ got' = got
  BY <1>1 DEF Expire, Others, IInv, PlacesOK, ScriptsOK
<1> QED BY <1>4, <1>5 DEF IInv

LEMMA WriteStep ==
  ASSUME ServeAssumption, IInv, NEW c \in Conns, Write(c)
  PROVE  IInv'
<1>1. c \in Range(open) /\ Len(open) \in Nat
  BY OpenElement DEF Write, IInv
<1>2. PICK k \in WriteConn(c) : conn' = [conn EXCEPT ![c] = k]
  BY DEF Write
<1>3. Good(c, k) /\ k.seq = conn[c].seq
  BY <1>1, WriteGood DEF IInv, ConnsOK
<1>4. ConnsOK' /\ EngineOK'
  BY <1>1, <1>2, <1>3, OneConn DEF Write, Others
<1>5. PlacesOK' /\ ScriptsOK' /\ got' = got
  BY <1>1 DEF Write, Others, IInv, PlacesOK, ScriptsOK
<1> QED BY <1>4, <1>5 DEF IInv

LEMMA ReadStep ==
  ASSUME ServeAssumption, IInv, NEW c \in Conns, Read(c)
  PROVE  IInv'
<1>1. c \in Range(open) /\ Len(open) \in Nat
  BY OpenElement DEF Read, IInv
<1>2. PICK o \in ReadConn(c) : conn' = [conn EXCEPT ![c] = o[1]] /\ got' = [got EXCEPT ![c] = o[2]]
  BY DEF Read
<1>3. Good(c, o[1]) /\ o[1].seq = conn[c].seq /\ o[2] \in 0 .. Len(script[c])
  <2>1. Good(c, conn[c]) /\ ScriptsOK
    BY <1>1 DEF IInv, ConnsOK
  <2> QED BY <2>1, ReadGood
<1>4. ConnsOK' /\ EngineOK'
  <2>1. PICK k : k = o[1]
    OBVIOUS
  <2>2. Good(c, k) /\ k.seq = conn[c].seq /\ conn' = [conn EXCEPT ![c] = k]
    BY <1>2, <1>3, <2>1
  <2> QED BY <1>1, <2>2, OneConn DEF Read, Others
<1>5. PlacesOK' /\ ScriptsOK' /\ DOMAIN got' = Conns
  BY <1>1, <1>2, <1>3 DEF Read, Others, IInv, PlacesOK, ScriptsOK
<1> QED BY <1>4, <1>5 DEF IInv

LEMMA NewConnRests ==
  ASSUME ServeAssumption
  PROVE  Resting(NewConn) /\ Absent(NewConn) /\ NewConn.seq = None
<1>1. Before \in Piece /\ Closes(Before) /\ Before.of = 0
  BY DEF Before, Piece, Closes
<1>2. 0 \in 0 .. MaxTokens /\ 0 \in Nat /\ <<>> \in Text /\ <<>> \in Seq(Piece) /\ Len(<<>>) = 0
  BY EmptySeq DEF ServeAssumption, Text
<1> HIDE DEF Before
<1>3. NewConn \in ConnRec
  BY <1>1, <1>2 DEF NewConn, ConnRec
<1>4. /\ NewConn.req = None /\ NewConn.seq = None /\ NewConn.write = <<>> /\ NewConn.at = 0
      /\ ~NewConn.ndjson /\ ~NewConn.finalized /\ ~NewConn.done /\ ~NewConn.cut
      /\ NewConn.last = Before /\ NewConn.taken = 0
  BY DEF NewConn
<1> QED BY <1>1, <1>2, <1>3, <1>4 DEF Resting, Typed, Absent

LEMMA AcceptStep ==
  ASSUME ServeAssumption, IInv, Accept
  PROVE  IInv'
<1>1. PICK new \in SUBSET (Conns \ arrived) :
        /\ open' \in {open \o q : q \in SetToSeqs(new)}
        /\ arrived' = arrived \cup new
  BY DEF Accept
<1>2. PICK q \in SetToSeqs(new) : open' = open \o q
  BY <1>1
<1>3. IsFiniteSet(new)
  BY FS_Subset DEF ServeAssumption
<1>4. q \in Seq(new) /\ Range(q) = new
  BY <1>3, Enumerated
<1>5. q \in Seq(Conns) /\ open \in Seq(Conns)
  BY <1>4, SeqMonotonic DEF IInv, PlacesOK
<1>6. open' \in Seq(Conns) /\ Range(open') = Range(open) \cup new /\ Len(open') = Len(open) + Len(q)
  BY <1>2, <1>4, <1>5, RangeConcatenation, ConcatProperties
<1>7. Len(open) \in Nat /\ Len(q) \in Nat
  BY <1>5, LenProperties
<1>8. PlacesOK'
  BY <1>1, <1>6, <1>7 DEF Accept, IInv, PlacesOK
<1>9. ConnsOK'
  <2>1. ASSUME NEW c \in Range(open') PROVE Good(c, conn[c])'
    <3>1. CASE c \in Range(open)
      <4>1. Good(c, conn[c]) /\ conn' = conn
        BY <3>1 DEF Accept, IInv, ConnsOK
      <4> QED BY <4>1 DEF Good, Sound, Named, Typed, Shape, Tells, Refused, Owes, Tip, Closes
    <3>2. CASE c \in new
      <4>1. conn[c] = NewConn /\ conn' = conn
        BY <3>2 DEF Accept, IInv, ConnsOK
      <4>2. Good(c, conn[c])
        BY <4>1, NewConnRests, RestingGood
      <4> QED BY <4>1, <4>2 DEF Good, Sound, Named, Typed, Shape, Tells, Refused, Owes, Tip, Closes
    <3> QED BY <1>6, <3>1, <3>2
  <2>2. ASSUME NEW c \in Conns \ Range(open') PROVE Typed(conn[c])' /\ Absent(conn[c])'
    <3>1. conn' = conn /\ Typed(conn[c]) /\ Absent(conn[c])
      BY <1>6 DEF Accept, IInv, ConnsOK
    <3> QED BY <3>1 DEF Typed, Absent
  <2> QED BY <1>1, <2>1, <2>2 DEF Accept, IInv, ConnsOK
<1>10. EngineOK' /\ ScriptsOK' /\ got' = got
  BY DEF Accept, IInv, EngineOK, ScriptsOK
<1> QED BY <1>8, <1>9, <1>10 DEF IInv

(* reap leaves what the connections that are not done need. f and engine are the
   connections and the engine it finds. *)
LEMMA ReapedOK ==
  ASSUME ServeAssumption, IInv, NEW f, NEW engine, Reaped(f, engine), UNCHANGED arrived,
         \A c \in Range(open) : Good(c, f[c]),
         \A c \in Conns \ Range(open) : f[c] = conn[c],
         DOMAIN engine = {f[c].seq : c \in Conns} \ {None},
         \A s \in DOMAIN engine : engine[s] \in EngineSeq
  PROVE  ConnsOK' /\ EngineOK' /\ open' \in Seq(Conns) /\ turn' \in 1 .. Len(open') + 1
         /\ Range(open') \subseteq arrived
<1> DEFINE dead == {c \in Range(open) : f[c].done}
           kept == DOMAIN engine \ {f[c].seq : c \in dead}
<1>1. /\ open' \in Remaining(dead) /\ turn' = 1
      /\ seqs' = [s \in kept |-> engine[s]]
      /\ conn' = [c \in Conns |->
           IF c \notin dead THEN f[c]
           ELSE IF f[c].cut THEN [NewConn EXCEPT !.cut = TRUE]
           ELSE [NewConn EXCEPT !.taken = f[c].taken, !.last = f[c].last]]
  BY DEF Reaped
<1>2. open' \in Seq(Conns) /\ Len(open') \in Nat /\ Range(open') = Range(open) \ dead
  BY <1>1, RemainingRange DEF IInv
<1>3. Range(open) \subseteq Conns /\ Range(open) \subseteq arrived
  BY DEF IInv, PlacesOK
<1>4. ASSUME NEW c \in dead
      PROVE  /\ Typed(conn'[c]) /\ Absent(conn'[c]) /\ conn'[c].seq = None
             /\ f[c].seq # None => f[c].seq = <<c, f[c].taken>>
  <2>1. Typed(NewConn) /\ NewConn \in ConnRec /\ Absent(NewConn) /\ NewConn.seq = None
    BY NewConnRests DEF Resting, Typed
  <2>2. f[c].taken \in Nat /\ f[c].last \in Piece /\ Named(c, f[c])
    BY DEF Good, Sound, Typed, ConnRec
  <2>3. PICK n, p, x : n = f[c].taken /\ p = f[c].last /\ x = NewConn
    OBVIOUS
  <2>4. PICK y, z : y = [x EXCEPT !.cut = TRUE] /\ z = [x EXCEPT !.taken = n, !.last = p]
    OBVIOUS
  <2>5. conn'[c] \in {y, z}
    BY <1>1, <1>3, <2>3, <2>4
  <2>6. /\ y \in ConnRec /\ y.at = x.at /\ y.write = x.write /\ y.req = x.req
        /\ y.seq = x.seq /\ y.ndjson = x.ndjson
        /\ z \in ConnRec /\ z.at = x.at /\ z.write = x.write /\ z.req = x.req
        /\ z.seq = x.seq /\ z.ndjson = x.ndjson
    BY <2>1, <2>2, <2>3, <2>4 DEF ConnRec
  <2> QED BY <2>1, <2>2, <2>3, <2>5, <2>6 DEF Typed, Absent, Named
<1>5. \A c \in Conns \ dead : conn'[c] = f[c]
  BY <1>1
<1>6. ConnsOK'
  <2>1. ASSUME NEW c \in Range(open') PROVE Good(c, conn[c])'
    <3>1. conn'[c] = f[c] /\ Good(c, f[c])
      BY <1>2, <1>3, <1>5
    <3>2. PICK k : k = conn'[c]
      OBVIOUS
    <3>3. Good(c, k)
      BY <3>1, <3>2
    <3> QED BY <3>2, <3>3 DEF Good, Sound, Named, Typed, Shape, Tells, Refused, Owes, Tip, Closes
  <2>2. ASSUME NEW c \in Conns \ Range(open') PROVE Typed(conn'[c]) /\ Absent(conn'[c])
    <3>1. CASE c \in dead
      BY <1>4, <3>1
    <3>2. CASE c \notin dead
      BY <1>2, <1>5, <2>2, <3>2 DEF IInv, ConnsOK
    <3> QED BY <3>1, <3>2
  <2>3. \A c \in Conns \ arrived : conn'[c] = NewConn
    BY <1>3, <1>5 DEF IInv, ConnsOK
  <2>4. DOMAIN conn' = Conns
    BY <1>1
  <2> QED BY <2>1, <2>2, <2>3, <2>4 DEF ConnsOK, Typed, Absent
<1>7. EngineOK'
  <2>1. DOMAIN seqs' = kept /\ \A s \in kept : seqs'[s] = engine[s]
    BY <1>1
  <2>2. kept = {conn'[c].seq : c \in Conns} \ {None}
    <3>1. ASSUME NEW s \in kept PROVE s \in {conn'[c].seq : c \in Conns} \ {None}
      <4>1. PICK c \in Conns : s = f[c].seq /\ s # None
        OBVIOUS
      <4>2. c \notin dead
        BY <4>1
      <4> QED BY <1>5, <4>1, <4>2
    <3>2. ASSUME NEW c \in Conns, conn'[c].seq # None PROVE conn'[c].seq \in kept
      <4>1. c \notin dead
        BY <1>4, <3>2
      <4>2. conn'[c].seq = f[c].seq
        BY <1>5, <4>1
      <4>3. f[c].seq = <<c, f[c].taken>>
        <5>1. c \in Range(open)
          BY <3>2, <4>2 DEF IInv, ConnsOK, Absent
        <5> QED BY <3>2, <4>2, <5>1 DEF Good, Named
      <4>4. ASSUME NEW d \in dead PROVE f[d].seq # f[c].seq
        <5>1. f[d].seq # None => f[d].seq[1] = d
          BY <1>4
        <5>2. f[c].seq # None /\ f[c].seq[1] = c
          BY <3>2, <4>2, <4>3
        <5>3. c # d
          BY <4>1
        <5> QED BY <5>1, <5>2, <5>3
      <4> QED BY <3>2, <4>2, <4>4
    <3> QED BY <3>1, <3>2
  <2> QED BY <2>1, <2>2 DEF EngineOK
<1>8. turn' \in 1 .. Len(open') + 1 /\ Range(open') \subseteq arrived
  <2>1. turn' = 1 /\ Len(open') \in Nat /\ Range(open') \subseteq Range(open)
    BY <1>1, <1>2
  <2>2. 1 \in 1 .. Len(open') + 1
    BY <2>1
  <2> QED BY <1>3, <2>1, <2>2
<1> QED BY <1>2, <1>6, <1>7, <1>8

LEMMA ReapStep ==
  ASSUME ServeAssumption, IInv, Reap
  PROVE  IInv'
<1>1. /\ Reaped(conn, seqs) /\ UNCHANGED arrived
      /\ stage' \in {"accept", "admit", "expire"} /\ UNCHANGED <<script, got>>
  BY DEF Reap
<1>2. /\ \A c \in Range(open) : Good(c, conn[c])
      /\ DOMAIN seqs = {conn[c].seq : c \in Conns} \ {None}
      /\ \A s \in DOMAIN seqs : seqs[s] \in EngineSeq
  BY DEF IInv, ConnsOK, EngineOK
<1>3. PICK f, engine : f = conn /\ engine = seqs
  OBVIOUS
<1>4. /\ ConnsOK' /\ EngineOK' /\ open' \in Seq(Conns) /\ turn' \in 1 .. Len(open') + 1
      /\ Range(open') \subseteq arrived
  BY <1>1, <1>2, <1>3, ReapedOK
<1>5. PlacesOK' /\ ScriptsOK'
  BY <1>1, <1>4 DEF IInv, PlacesOK, ScriptsOK
<1> QED BY <1>1, <1>4, <1>5 DEF IInv

LEMMA AdmitStep ==
  ASSUME ServeAssumption, IInv, AdmitParsed
  PROVE  IInv'
<1> DEFINE g == [c \in Conns |-> AdmitConn(c)]
           added == {g[c].seq : c \in Conns} \ (DOMAIN seqs \cup {None})
           e == [s \in DOMAIN seqs \cup added |->
                   IF s \notin added THEN seqs[s]
                   ELSE [made |-> 0, predict |-> conn[s[1]].req.predict, finished |-> FALSE]]
<1>1. Reaped(g, e) /\ stage' = "step" /\ UNCHANGED <<arrived, script, got>>
  BY DEF AdmitParsed
<1>2. PICK f, engine : f = g /\ engine = e
  OBVIOUS
<1>3. ASSUME NEW c \in Range(open)
      PROVE  /\ Good(c, g[c])
             /\ \/ g[c].seq = conn[c].seq
                \/ /\ conn[c].seq = None /\ conn[c].req \in Request
                   /\ g[c].seq = <<c, conn[c].taken>> /\ g[c].seq # None
  <2>1. c \in Conns /\ Good(c, conn[c])
    BY DEF IInv, PlacesOK, ConnsOK
  <2> QED BY <2>1, AdmitGood
<1>4. ASSUME NEW c \in Conns \ Range(open) PROVE g[c] = conn[c] /\ g[c].seq = None
  <2>1. conn[c].req = None /\ conn[c].seq = None
    BY DEF IInv, ConnsOK, Absent
  <2> QED BY <2>1 DEF AdmitConn, CanAdmit
<1>5. DOMAIN seqs = {conn[c].seq : c \in Conns} \ {None}
      /\ \A s \in DOMAIN seqs : seqs[s] \in EngineSeq
  BY DEF IInv, EngineOK
<1> HIDE DEF g
<1>6. DOMAIN e = {g[c].seq : c \in Conns} \ {None}
  <2>1. ASSUME NEW s \in DOMAIN seqs PROVE s \in {g[c].seq : c \in Conns}
    <3>1. PICK c \in Conns : s = conn[c].seq /\ s # None
      BY <1>5
    <3>2. g[c].seq = s
      BY <1>3, <1>4, <3>1
    <3> QED BY <3>2
  <2> QED BY <1>5, <2>1
<1>7. ASSUME NEW s \in DOMAIN e PROVE e[s] \in EngineSeq
  <2>1. CASE s \notin added
    BY <1>5, <2>1
  <2>2. CASE s \in added
    <3>1. PICK c \in Conns : s = g[c].seq /\ s # None /\ s \notin DOMAIN seqs
      BY <2>2
    <3>2. s # conn[c].seq
      BY <1>5, <3>1
    <3>3. conn[c].req \in Request /\ s = <<c, conn[c].taken>>
      BY <1>3, <1>4, <3>1, <3>2
    <3>4. PICK z, p : z = 0 /\ p = conn[s[1]].req.predict
      OBVIOUS
    <3>5. z \in 0 .. MaxTokens /\ p \in 0 .. MaxTokens
      BY <3>3, <3>4 DEF Request, ServeAssumption
    <3>6. e[s] = [made |-> z, predict |-> p, finished |-> FALSE]
      BY <2>2, <3>4
    <3> HIDE DEF e
    <3> QED BY <3>5, <3>6 DEF EngineSeq
  <2> QED BY <2>1, <2>2
<1> HIDE DEF e
<1>8. /\ ConnsOK' /\ EngineOK' /\ open' \in Seq(Conns) /\ turn' \in 1 .. Len(open') + 1
      /\ Range(open') \subseteq arrived
  BY <1>1, <1>2, <1>3, <1>4, <1>6, <1>7, ReapedOK
<1>9. PlacesOK' /\ ScriptsOK'
  BY <1>1, <1>8 DEF IInv, PlacesOK, ScriptsOK
<1> QED BY <1>1, <1>8, <1>9 DEF IInv

LEMMA EngineStep ==
  ASSUME ServeAssumption, IInv, StepIfBusy
  PROVE  IInv'
<1> DEFINE running == {s \in DOMAIN seqs : ~seqs[s].finished}
<1>1. PICK runs \in SUBSET {s \in running : seqs[s].made < seqs[s].predict},
           ends \in SUBSET running :
        seqs' = [s \in DOMAIN seqs |->
                   [seqs[s] EXCEPT !.made = IF s \in runs THEN @ + 1 ELSE @,
                                   !.finished = @ \/ s \in ends]]
  BY DEF StepIfBusy
<1>2. ASSUME NEW s \in DOMAIN seqs PROVE seqs'[s] \in EngineSeq
  <2>1. PICK q, m, b : /\ q = seqs[s] /\ m = (IF s \in runs THEN q.made + 1 ELSE q.made)
                       /\ b = (q.finished \/ s \in ends)
    OBVIOUS
  <2>2. q \in EngineSeq
    BY <2>1 DEF IInv, EngineOK
  <2>6. s \in runs => q.made < q.predict
    BY <1>1, <2>1
  <2>7. q.made \in 0 .. MaxTokens /\ q.predict \in 0 .. MaxTokens /\ MaxTokens \in Nat
    BY <2>2 DEF EngineSeq, ServeAssumption
  <2>3. m \in 0 .. MaxTokens
    BY <2>1, <2>6, <2>7
  <2>4. b \in BOOLEAN
    BY <2>1
  <2>5. seqs'[s] = [q EXCEPT !.made = m, !.finished = b]
    BY <1>1, <2>1, <2>2 DEF EngineSeq
  <2> QED BY <2>2, <2>3, <2>4, <2>5 DEF EngineSeq
<1>3. UNCHANGED <<turn, open, conn, arrived, script, got>> /\ stage' = "stream"
  BY DEF StepIfBusy
<1>4. EngineOK'
  BY <1>1, <1>2, <1>3 DEF IInv, EngineOK
<1>5. ConnsOK'
  BY <1>3 DEF IInv, ConnsOK, Good, Sound, Named, Typed, Shape, Tells, Refused, Owes, Tip,
              Closes, Absent
<1>6. PlacesOK' /\ ScriptsOK'
  BY <1>3 DEF IInv, PlacesOK, ScriptsOK
<1> QED BY <1>3, <1>4, <1>5, <1>6 DEF IInv

(* A step that changes what some open connections hold; f is what it leaves. *)
LEMMA ConnsChange ==
  ASSUME IInv, NEW f, conn' = f, DOMAIN f = Conns, UNCHANGED <<open, arrived>>,
         \A c \in Range(open) : Good(c, f[c]),
         \A c \in Conns \ Range(open) : f[c] = conn[c]
  PROVE  ConnsOK'
<1>1. \A c \in Conns \ Range(open) : Typed(f[c]) /\ Absent(f[c])
  BY DEF IInv, ConnsOK
<1>2. \A c \in Conns \ arrived : f[c] = NewConn
  BY DEF IInv, ConnsOK, PlacesOK
<1> QED BY <1>1, <1>2 DEF ConnsOK, Good, Sound, Named, Typed, Shape, Tells, Refused, Owes, Tip,
                      Closes, Absent

LEMMA StreamStep ==
  ASSUME ServeAssumption, IInv, StreamProgress
  PROVE  IInv'
<1>1. PICK f : f = [c \in Conns |-> StreamConn(c)]
  OBVIOUS
<1>2. /\ conn' = f /\ stage' = "harvest"
      /\ UNCHANGED <<turn, open, arrived, script, got, seqs>>
  BY <1>1 DEF StreamProgress
<1>3. \A c \in Range(open) : Good(c, f[c]) /\ f[c].seq = conn[c].seq
  <2>1. TAKE c \in Range(open)
  <2>2. c \in Conns /\ Good(c, conn[c]) /\ EngineOK
    BY DEF IInv, PlacesOK, ConnsOK
  <2> QED BY <1>1, <2>2, StreamGood
<1>4. \A c \in Conns \ Range(open) : f[c] = conn[c]
  <2>1. TAKE c \in Conns \ Range(open)
  <2>2. ~conn[c].ndjson
    BY DEF IInv, ConnsOK, Absent
  <2> QED BY <1>1, <2>2 DEF StreamConn
<1>5. ConnsOK'
  BY <1>1, <1>2, <1>3, <1>4, ConnsChange
<1>6. EngineOK'
  <2>1. \A c \in Conns : conn'[c].seq = conn[c].seq
    BY <1>2, <1>3, <1>4
  <2> QED BY <1>2, <2>1 DEF IInv, EngineOK
<1>7. PlacesOK' /\ ScriptsOK'
  BY <1>2 DEF IInv, PlacesOK, ScriptsOK
<1> QED BY <1>2, <1>5, <1>6, <1>7 DEF IInv

LEMMA HarvestStep ==
  ASSUME ServeAssumption, IInv, Harvest
  PROVE  IInv'
<1>1. PICK f : f = [c \in Conns |-> IF c \in Ready THEN FinishSeq(c) ELSE conn[c]]
  OBVIOUS
<1>2. /\ conn' = f /\ stage' = "write" /\ UNCHANGED <<turn, open, arrived, script, got>>
      /\ seqs' = [s \in DOMAIN seqs \ {conn[c].seq : c \in Ready} |-> seqs[s]]
  BY <1>1 DEF Harvest
<1>3. Ready \subseteq Range(open) /\ Range(open) \subseteq Conns
  BY DEF Ready, IInv, PlacesOK
<1>4. \A c \in Ready : Good(c, f[c]) /\ f[c].seq = None
  <2>1. TAKE c \in Ready
  <2>2. Good(c, conn[c]) /\ EngineOK /\ PlacesOK
    BY <1>3 DEF IInv, ConnsOK
  <2> QED BY <1>1, <1>3, <2>2, FinishSeqGood
<1>5. \A c \in Conns \ Ready : f[c] = conn[c]
  BY <1>1
<1>6. ConnsOK'
  <2>1. \A c \in Range(open) : Good(c, f[c])
    BY <1>3, <1>4, <1>5 DEF IInv, ConnsOK
  <2> QED BY <1>1, <1>2, <1>3, <1>5, <2>1, ConnsChange
<1>7. EngineOK'
  <2>1. DOMAIN seqs = {conn[c].seq : c \in Conns} \ {None}
        /\ \A s \in DOMAIN seqs : seqs[s] \in EngineSeq
    BY DEF IInv, EngineOK
  <2>2. ASSUME NEW c \in Conns \ Ready, NEW d \in Ready, conn[c].seq # None
        PROVE conn[c].seq # conn[d].seq
    <3>1. c \in Range(open)
      BY <2>2 DEF IInv, ConnsOK, Absent
    <3>2. conn[c].seq[1] = c
      BY <2>2, <3>1 DEF IInv, ConnsOK, Good, Named
    <3>3. conn[d].seq # None => conn[d].seq[1] = d
      BY <1>3 DEF IInv, ConnsOK, Good, Named
    <3> QED BY <2>2, <3>2, <3>3
  <2>3. DOMAIN seqs' = {conn'[c].seq : c \in Conns} \ {None}
    <3>1. ASSUME NEW s \in DOMAIN seqs' PROVE s \in {conn'[c].seq : c \in Conns} \ {None}
      <4>1. PICK c \in Conns : s = conn[c].seq /\ s # None /\ c \notin Ready
        BY <1>2, <2>1
      <4> QED BY <1>2, <1>5, <4>1
    <3>2. ASSUME NEW c \in Conns, conn'[c].seq # None PROVE conn'[c].seq \in DOMAIN seqs'
      <4>1. c \notin Ready
        BY <1>2, <1>4, <3>2
      <4>2. conn'[c].seq = conn[c].seq
        BY <1>2, <1>5, <4>1
      <4>3. conn[c].seq \in DOMAIN seqs /\ \A d \in Ready : conn[c].seq # conn[d].seq
        BY <2>1, <2>2, <3>2, <4>1, <4>2
      <4> QED BY <1>2, <4>2, <4>3
    <3> QED BY <3>1, <3>2
  <2> QED BY <1>2, <2>1, <2>3 DEF EngineOK
<1>8. PlacesOK' /\ ScriptsOK'
  BY <1>2 DEF IInv, PlacesOK, ScriptsOK
<1> QED BY <1>2, <1>6, <1>7, <1>8 DEF IInv

LEMMA InitServe == ASSUME ServeAssumption, Init PROVE IInv
<1>1. open = <<>> /\ open \in Seq(Conns) /\ Len(open) = 0 /\ Range(open) = {}
  BY EmptySeq DEF Init, Range
<1>2. PlacesOK
  <2>1. 1 \in 1 .. 0 + 1
    OBVIOUS
  <2> QED BY <1>1, <2>1 DEF Init, PlacesOK
<1>3. ScriptsOK /\ DOMAIN got = Conns
  <2>1. \A c \in Conns : script[c] \in Scripts[c] /\ got[c] = 0 /\ script[c] \in Text
    BY DEF Init, ServeAssumption, Text
  <2>2. \A c \in Conns : Len(script[c]) \in Nat
    BY <2>1, LenProperties DEF Text
  <2> QED BY <2>1, <2>2 DEF Init, ScriptsOK
<1>4. ConnsOK
  <2>1. Typed(NewConn) /\ Absent(NewConn)
    BY NewConnRests DEF Resting
  <2> QED BY <1>1, <2>1 DEF Init, ConnsOK
<1>5. EngineOK
  <2>1. DOMAIN seqs = {}
    BY DEF Init
  <2>2. \A c \in Conns : conn[c].seq = None
    BY NewConnRests DEF Init
  <2> QED BY <2>1, <2>2 DEF EngineOK
<1> QED BY <1>2, <1>3, <1>4, <1>5 DEF IInv

LEMMA ServeNext ==
  ASSUME ServeAssumption, IInv, [Next]_vars
  PROVE  IInv'
<1>1. CASE UNCHANGED <<turn, open, conn, arrived, script, got, seqs>>
           /\ stage' \in {stage, "stopped"}
  <2>1. PlacesOK' /\ ScriptsOK' /\ EngineOK' /\ DOMAIN got' = Conns
    BY <1>1 DEF IInv, PlacesOK, ScriptsOK, EngineOK
  <2>2. ConnsOK'
    BY <1>1 DEF IInv, ConnsOK, Good, Sound, Named, Typed, Shape, Tells, Refused, Owes, Tip,
                Closes, Absent
  <2> QED BY <2>1, <2>2 DEF IInv
<1>2. CASE UNCHANGED vars
  BY <1>1, <1>2 DEF vars
<1>3. CASE Stop
  BY <1>1, <1>3 DEF Stop
<1>4. CASE \E c \in Conns : Expire(c) \/ Read(c) \/ Write(c)
  BY <1>4, ExpireStep, ReadStep, WriteStep
<1>5. CASE Reap
  BY <1>5, ReapStep
<1>6. CASE Accept
  BY <1>6, AcceptStep
<1>7. CASE AdmitParsed
  BY <1>7, AdmitStep
<1>8. CASE StepIfBusy
  BY <1>8, EngineStep
<1>9. CASE StreamProgress
  BY <1>9, StreamStep
<1>10. CASE Harvest
  BY <1>10, HarvestStep
<1> QED BY <1>2, <1>3, <1>4, <1>5, <1>6, <1>7, <1>8, <1>9, <1>10 DEF Next

(* Every state the server reaches satisfies the invariant. *)
THEOREM ServeInvariant == Spec => []IInv
<1>1. Init => IInv
  BY ServeAssumption, InitServe
<1>2. IInv /\ [Next]_vars => IInv'
  BY ServeAssumption, ServeNext
<1> QED BY <1>1, <1>2, PTL DEF Spec

-----------------------------------------------------------------------------
(* The theorems. *)

(* Every buffer, offset, answer and sequence stays of its type, whatever the
   sockets and the clock do (serve_engine.rs, EngineHttp and Conn). *)
THEOREM ServeTypeCorrect == Spec => []TypeOK
<1>1. IInv => TypeOK
  <2> SUFFICES ASSUME IInv PROVE TypeOK
    OBVIOUS
  <2>1. \A c \in Conns : Typed(conn[c])
    BY DEF IInv, ConnsOK, Good, Sound
  <2>2. DOMAIN seqs \subseteq Id
    <3>1. \A c \in Conns : conn[c].seq \in Id \cup {None}
      BY <2>1 DEF Typed, ConnRec
    <3> QED BY <3>1 DEF IInv, EngineOK
  <2> QED BY <2>1, <2>2 DEF TypeOK, IInv, PlacesOK, ScriptsOK, EngineOK, Typed, ConnRec, Text
<1> QED BY <1>1, ServeInvariant, PTL

(* The engine computes for the open connections and for nobody else: reap, admit and
   harvest keep its sequences and the connections' in step. *)
THEOREM SequencesAlwaysOwned == Spec => []SequencesOwned
<1>1. IInv => SequencesOwned
  <2> SUFFICES ASSUME IInv PROVE SequencesOwned
    OBVIOUS
  <2>1. DOMAIN seqs = {conn[c].seq : c \in Range(open)} \ {None}
    <3>1. \A c \in Conns \ Range(open) : conn[c].seq = None
      BY DEF IInv, ConnsOK, Absent
    <3>2. Range(open) \subseteq Conns
      BY DEF IInv, PlacesOK
    <3> QED BY <3>1, <3>2 DEF IInv, EngineOK
  <2> QED BY <2>1 DEF SequencesOwned, IInv, ConnsOK, Good, Named
<1> QED BY <1>1, ServeInvariant, PTL

(* A connection with nothing pending holds no request. *)
Heard(k) ==
  k.req = None /\ k.seq = None /\ k.write = <<>> /\ ~k.done => Complete(k) = {}

Attends == \A c \in Range(open) : Heard(conn[c])

(* A request that is taken is in hand, or refused. *)
LEMMA TakeHeard ==
  ASSUME ServeAssumption, NEW k, Typed(k), CanTake(k)
  PROVE  Heard(Take(k))
<1>1. k \in ConnRec /\ k.read \in Text
  BY DEF Typed, ConnRec
<1>2. Len(k.read) \in Nat /\ DOMAIN k.read = 1 .. Len(k.read)
      /\ \A j \in 1 .. Len(k.read) : k.read[j] \in {Part} \cup Request
  BY <1>1, LenProperties, ElementOfSeq DEF Text
<1>3. Complete(k) \subseteq Nat /\ Complete(k) # {} /\ Complete(k) \subseteq 1 .. Len(k.read)
  BY <1>2 DEF CanTake, Complete
<1>4. PICK i : i = CHOOSE a \in Complete(k) : \A j \in Complete(k) : a <= j
  OBVIOUS
<1>5. i \in Complete(k)
  BY <1>3, <1>4, FirstOf
<1>6. PICK q, rest, n : /\ q = k.read[i] /\ rest = SubSeq(k.read, i + 1, Len(k.read))
                        /\ n = k.taken + 1
  OBVIOUS
<1>7. q \in Request /\ q # None
  BY <1>2, <1>3, <1>5, <1>6 DEF Complete, ServeAssumption
<1>8. CASE q.kind = "bad"
  <2>1. Take(k) = QueueErr(k)
    BY <1>4, <1>6, <1>8 DEF Take
  <2>2. QueueErr(k).write # <<>>
    BY <1>1 DEF QueueErr, ConnRec
  <2> QED BY <2>1, <2>2 DEF Heard
<1>9. CASE q.kind # "bad"
  <2>1. PICK v : v = q.keepAlive
    OBVIOUS
  <2>2. Take(k) = [k EXCEPT !.read = rest, !.keepAlive = v, !.req = q, !.taken = n]
    BY <1>1, <1>4, <1>6, <1>9, <2>1 DEF Take, ConnRec
  <2>3. Take(k).req = q
    BY <1>1, <2>2 DEF ConnRec
  <2> QED BY <1>7, <2>3 DEF Heard
<1> QED BY <1>8, <1>9

(* read_conn waits for more only while there is no request in the buffer. *)
LEMMA ReadHeard ==
  ASSUME ServeAssumption, NEW c \in Conns, Good(c, conn[c]), ScriptsOK, Heard(conn[c]),
         NEW o \in ReadConn(c)
  PROVE  Heard(o[1])
<1> DEFINE w(n) == [conn[c] EXCEPT !.read = @ \o SubSeq(script[c], got[c] + 1, got[c] + n)]
           left == Len(script[c]) - got[c]
           quiet == ~conn[c].done /\ conn[c].req = None /\ conn[c].write = <<>>
           tooLarge(n) == Len(w(n).read) > MaxRead
           goesOn(n) == n = 0 \/ (~tooLarge(n) /\ ~CanTake(w(n)))
           ends(n) == ~goesOn(n) /\ \E m \in 0 .. n - 1 : n - m <= ReadChunk /\ goesOn(m)
           Idles == {<<w(n), got[c] + n>> : n \in {n \in 0 .. left : goesOn(n)}}
           Fails == {<<Cut(w(n)), got[c] + n>> : n \in {n \in 0 .. left : goesOn(n)}}
           Ends == {<<IF tooLarge(n) THEN QueueErr(w(n)) ELSE Take(w(n)), got[c] + n>> :
                      n \in {n \in 1 .. left : ends(n)}}
<1>1. o \in IF ~quiet THEN {<<conn[c], got[c]>>}
            ELSE IF CanTake(conn[c]) THEN {<<Take(conn[c]), got[c]>>}
            ELSE Idles \cup Fails \cup Ends
  BY Zenon DEF ReadConn
<1>2. PICK k, g, s : k = conn[c] /\ g = got[c] /\ s = script[c]
  OBVIOUS
<1>3. k \in ConnRec /\ Typed(k) /\ k.read \in Text /\ s \in Text /\ g \in 0 .. Len(s)
      /\ Len(s) \in Nat
  <2>1. k \in ConnRec /\ Typed(k) /\ k.read \in Text
    BY <1>2 DEF Good, Sound, Typed, ConnRec
  <2>2. s \in Scripts[c] /\ g \in 0 .. Len(s)
    BY <1>2 DEF ScriptsOK
  <2>3. s \in Text
    BY <2>2 DEF ServeAssumption, Text
  <2> QED BY <2>1, <2>2, <2>3, LenProperties DEF Text
<1>4. ASSUME NEW n \in 0 .. left
      PROVE  /\ Typed(w(n)) /\ w(n) \in ConnRec /\ w(n).seq = k.seq
             /\ n = 0 => w(n).read = k.read
  <2>1. PICK t, a, b : t = SubSeq(s, a, b) /\ a = g + 1 /\ b = g + n
    OBVIOUS
  <2>2. a \in Int /\ b \in Int /\ \A i \in a .. b : s[i] \in {Part} \cup Request
    <3>1. PICK N : N = Len(s)
      OBVIOUS
    <3>2. N \in Nat /\ g \in 0 .. N /\ n \in 0 .. N - g
      BY <1>2, <1>3, <3>1
    <3>3. a \in Int /\ b \in Int /\ \A i \in a .. b : i \in 1 .. N
      BY <2>1, <3>2
    <3> QED BY <1>3, <3>1, <3>3, ElementOfSeq DEF Text
  <2>3. t \in Text /\ Len(t) = IF a <= b THEN b - a + 1 ELSE 0
    BY <2>1, <2>2, SubSeqProperties DEF Text
  <2>4. PICK d : d = k.read
    OBVIOUS
  <2>5. d \o t \in Text
    BY <1>3, <2>3, <2>4, ConcatProperties DEF Text
  <2>6. n = 0 => d \o t = d
    <3>1. n = 0 => t = <<>>
      <4>1. n = 0 => Len(t) = 0
        BY <1>3, <2>1, <2>3
      <4> QED BY <2>3, <4>1, EmptySeq DEF Text
    <3> QED BY <1>3, <2>4, <3>1, ConcatEmptySeq DEF Text
  <2>7. PICK f : f = d \o t
    OBVIOUS
  <2>8. w(n) = [k EXCEPT !.read = f]
    BY <1>2, <1>3, <2>1, <2>4, <2>7 DEF ConnRec
  <2>9. w(n) \in ConnRec /\ w(n).read = f /\ w(n).seq = k.seq /\ w(n).write = k.write
        /\ w(n).at = k.at
    BY <1>3, <2>5, <2>7, <2>8 DEF ConnRec
  <2> HIDE DEF w
  <2> QED BY <1>3, <2>4, <2>6, <2>7, <2>9 DEF Typed
<1> HIDE DEF w
<1>5. CASE o = <<k, g>>
  BY <1>2, <1>5
<1>6. CASE CanTake(k) /\ o = <<Take(k), g>>
  BY <1>3, <1>6, TakeHeard
<1>7. CASE ~CanTake(k) /\ o \in Idles
  <2>1. PICK n \in 0 .. left : goesOn(n) /\ o[1] = w(n)
    BY <1>7
  <2>2. PICK r : r = w(n)
    OBVIOUS
  <2>3. n = 0 => Complete(r) = Complete(k)
    BY <1>4, <2>2 DEF Complete
  <2>4. ~CanTake(r)
    BY <1>4, <1>7, <2>1, <2>2, <2>3 DEF CanTake
  <2> QED BY <2>1, <2>2, <2>4 DEF CanTake, Heard
<1>8. CASE o \in Fails
  <2>1. PICK n \in 0 .. left : o[1] = Cut(w(n))
    BY <1>8
  <2>2. Cut(w(n)).done
    BY <1>4 DEF Cut, ConnRec
  <2> QED BY <2>1, <2>2 DEF Heard
<1>9. CASE o \in Ends
  <2>1. PICK n \in 1 .. left : /\ ends(n)
                               /\ o = <<IF tooLarge(n) THEN QueueErr(w(n)) ELSE Take(w(n)), got[c] + n>>
    BY <1>9
  <2>2. n \in 0 .. left /\ n # 0
    BY <1>2, <1>3
  <2>3. tooLarge(n) \/ CanTake(w(n))
    BY <2>1, <2>2
  <2>4. Heard(QueueErr(w(n)))
    <3>1. QueueErr(w(n)).write # <<>>
      BY <1>4, <2>2 DEF QueueErr, ConnRec
    <3> QED BY <3>1 DEF Heard
  <2>5. CanTake(w(n)) => Heard(Take(w(n)))
    BY <1>4, <2>2, TakeHeard
  <2> HIDE DEF tooLarge, ends
  <2> QED BY <2>1, <2>3, <2>4, <2>5
<1> HIDE DEF Idles, Fails, Ends
<1> QED BY <1>1, <1>2, <1>5, <1>6, <1>7, <1>8, <1>9

(* What is written is followed by the next request in the buffer. *)
LEMMA FinishWriteHeard ==
  ASSUME ServeAssumption, NEW k, Typed(k)
  PROVE  Heard(FinishWrite(k))
<1>1. k \in ConnRec /\ 0 \in 0 .. MaxTokens
  BY DEF Typed, ServeAssumption
<1>2. CASE ~k.keepAlive
  <2>1. FinishWrite(k).done
    BY <1>1, <1>2 DEF FinishWrite, ConnRec
  <2> QED BY <2>1 DEF Heard
<1>3. CASE k.keepAlive
  <2> DEFINE x == [k EXCEPT !.seq = None, !.ndjson = FALSE, !.streamed = 0]
  <2>1. PICK r : r = [x EXCEPT !.finalized = FALSE, !.req = None]
    OBVIOUS
  <2>2. FinishWrite(k) = TryTake(r)
    BY <1>3, <2>1 DEF FinishWrite
  <2>3. x \in ConnRec /\ x.seq = None /\ x.write = k.write /\ x.at = k.at
    BY <1>1 DEF ConnRec
  <2> HIDE DEF x
  <2>4. Typed(r) /\ r.seq = None
    BY <2>1, <2>3 DEF Typed, ConnRec
  <2>5. CanTake(r) => Heard(Take(r))
    BY <2>4, TakeHeard
  <2>6. ~CanTake(r) => Heard(r)
    BY <2>4 DEF CanTake, Heard
  <2> QED BY <2>2, <2>5, <2>6 DEF TryTake
<1> QED BY <1>2, <1>3

(* What is written is followed by the next request in the buffer. *)
LEMMA WriteHeard ==
  ASSUME ServeAssumption, NEW c, Good(c, conn[c]), Heard(conn[c]), NEW o \in WriteConn(c)
  PROVE  Heard(o)
<1> DEFINE sent(n) == [conn[c] EXCEPT
                         !.at = @ + n, !.stalled = TRUE,
                         !.last = IF n = 0 \/ conn[c].write[conn[c].at + n].part = "error" THEN @
                                  ELSE conn[c].write[conn[c].at + n]]
           room == 0 .. Len(Unsent(conn[c]))
           all == Len(Unsent(conn[c]))
           flushed == [sent(all) EXCEPT !.write = <<>>, !.at = 0, !.stalled = FALSE]
           quiet == conn[c].done \/ conn[c].write = <<>>
<1>1. o \in IF quiet THEN {[conn[c] EXCEPT !.stalled = FALSE]}
            ELSE {sent(n) : n \in room} \cup {Cut(sent(n)) : n \in room}
                 \cup {IF conn[c].ndjson /\ ~conn[c].finalized THEN flushed
                       ELSE FinishWrite(flushed)}
  BY Zenon DEF WriteConn
<1>2. PICK k : k = conn[c]
  OBVIOUS
<1>3. /\ k \in ConnRec /\ Shape(k) /\ Len(k.write) \in Nat /\ k.at \in Nat
      /\ all = Len(k.write) - k.at /\ k.at <= Len(k.write)
      /\ \A i \in 1 .. Len(k.write) : k.write[i] \in Piece
  <2>1. k \in ConnRec /\ Typed(k) /\ Shape(k)
    BY <1>2 DEF Good, Sound, Typed
  <2> QED BY <1>2, <2>1, UnsentSeq DEF Typed
<1>4. room = 0 .. Len(k.write) - k.at
  BY <1>3
<1> HIDE DEF all
<1>5. CASE quiet
  <2>1. PICK r : r = [k EXCEPT !.stalled = FALSE]
    OBVIOUS
  <2>2. /\ o = r /\ r.req = k.req /\ r.seq = k.seq /\ r.write = k.write /\ r.done = k.done
        /\ r.read = k.read
    BY <1>1, <1>2, <1>3, <1>5, <2>1 DEF ConnRec
  <2> QED BY <1>2, <2>2 DEF Heard, Complete
<1>6. ASSUME NEW n \in room
      PROVE  sent(n) \in ConnRec /\ sent(n).write = k.write /\ sent(n).seq = k.seq
  <2>1. PICK a, l : /\ a = k.at + n
                    /\ l = IF n = 0 \/ k.write[k.at + n].part = "error" THEN k.last
                           ELSE k.write[k.at + n]
    OBVIOUS
  <2>2. n \in Nat /\ a \in Nat /\ (n = 0 \/ a \in 1 .. Len(k.write))
    BY <1>3, <1>4, <2>1
  <2>3. l \in Piece
    BY <1>3, <2>1, <2>2 DEF ConnRec
  <2>4. sent(n) = [k EXCEPT !.at = a, !.stalled = TRUE, !.last = l]
    BY <1>2, <1>3, <2>1 DEF ConnRec
  <2> QED BY <1>3, <2>2, <2>3, <2>4 DEF ConnRec
<1> HIDE DEF sent
<1>7. CASE ~quiet
  <2>1. k.write # <<>> /\ all \in room
    BY <1>2, <1>3, <1>4, <1>7
  <2>2. ASSUME NEW n \in room PROVE Heard(sent(n)) /\ Heard(Cut(sent(n)))
    <3>1. Cut(sent(n)).done
      BY <1>6 DEF Cut, ConnRec
    <3> QED BY <1>6, <2>1, <3>1 DEF Heard
  <2>3. PICK r : r = flushed
    OBVIOUS
  <2>4. Typed(r) /\ r.seq = k.seq
    <3>1. PICK x : x = sent(all)
      OBVIOUS
    <3>2. x \in ConnRec /\ x.seq = k.seq
      BY <1>6, <2>1, <3>1
    <3>3. r = [x EXCEPT !.write = <<>>, !.at = 0, !.stalled = FALSE]
      BY <2>3, <3>1
    <3>4. /\ r \in ConnRec /\ r.seq = k.seq /\ r.at = 0 /\ r.write = <<>>
      BY <3>2, <3>3, EmptySeq DEF ConnRec
    <3> QED BY <3>4 DEF Typed
  <2>5. k.ndjson /\ ~k.finalized => Heard(r)
    BY <1>3, <2>4 DEF Shape, Heard
  <2>6. Heard(FinishWrite(r))
    BY <2>4, FinishWriteHeard
  <2> QED BY <1>1, <1>2, <1>7, <2>2, <2>3, <2>5, <2>6
<1> QED BY <1>5, <1>7

(* The other stages leave no connection idle but those they find so. *)
LEMMA StagesHeard ==
  ASSUME ServeAssumption, IInv, NEW c \in Range(open), Heard(conn[c])
  PROVE  /\ \A k \in ExpireConn(c) : Heard(k)
         /\ Heard(AdmitConn(c)) /\ Heard(StreamConn(c))
         /\ c \in Ready => Heard(FinishSeq(c))
<1>1. PICK k : k = conn[c]
  OBVIOUS
<1>2. c \in Conns /\ Good(c, k) /\ Typed(k) /\ Shape(k) /\ k \in ConnRec /\ Heard(k)
      /\ None \notin DOMAIN seqs /\ None \notin Id
  BY <1>1 DEF IInv, PlacesOK, ConnsOK, EngineOK, Good, Sound, Typed, ServeAssumption, Id
<1>3. \A x \in ExpireConn(c) : Heard(x)
  <2>1. [k EXCEPT !.done = TRUE].done /\ Cut(k).done
    BY <1>2 DEF ConnRec, Cut
  <2>2. Heard([k EXCEPT !.done = TRUE]) /\ Heard(Cut(k))
    BY <2>1 DEF Heard
  <2> QED BY <1>1, <1>2, <2>2 DEF ExpireConn
<1>4. ASSUME NEW x \in ConnRec, NEW p
      PROVE  QueueStream(x, p).seq = x.seq /\ Overrun(x).seq = x.seq
             /\ DOMAIN QueueStream(x, p) = DOMAIN x
  <2>1. Overrun(x).seq = x.seq /\ DOMAIN Overrun(x) = DOMAIN x
    BY <1>4 DEF Overrun, Cut, ConnRec
  <2>2. PICK u : u = Append(Unsent(x), p)
    OBVIOUS
  <2>3. /\ [x EXCEPT !.write = u, !.at = 0].seq = x.seq
        /\ DOMAIN [x EXCEPT !.write = u, !.at = 0] = DOMAIN x
    BY <1>4 DEF ConnRec
  <2> QED BY <2>1, <2>2, <2>3 DEF QueueStream
<1>5. Heard(AdmitConn(c))
  <2>1. CASE ~CanAdmit(k)
    BY <1>1, <1>2, <2>1 DEF AdmitConn
  <2>2. PICK r, x : r = k.req /\ x = [k EXCEPT !.req = None]
    OBVIOUS
  <2>3. x \in ConnRec /\ x.taken = k.taken /\ k.taken \in Nat
    BY <1>2, <2>2 DEF ConnRec
  <2>4. CASE CanAdmit(k) /\ r.kind = "plain"
    <3>1. PICK p : p = Answer(k.taken, "whole", 0, 0)
      OBVIOUS
    <3>2. AdmitConn(c) = [x EXCEPT !.write = <<p>>, !.at = 0]
      BY <1>1, <2>2, <2>3, <2>4, <3>1 DEF AdmitConn
    <3>3. AdmitConn(c).write # <<>>
      BY <2>3, <3>2 DEF ConnRec
    <3> QED BY <3>3 DEF Heard
  <2>5. CASE CanAdmit(k) /\ r.kind # "plain"
    <3>1. r \in Request
      BY <1>2, <2>2, <2>5 DEF CanAdmit, ConnRec
    <3>2. PICK i, b, v : i = <<c, k.taken>> /\ b = (r.kind \in {"stream", "echo"})
                         /\ v = r.keepAlive
      OBVIOUS
    <3>3. i \in Id /\ b \in BOOLEAN /\ v \in BOOLEAN
      BY <1>2, <2>3, <3>1, <3>2 DEF Id, Request
    <3>4. PICK y : y = [x EXCEPT !.seq = i, !.ndjson = b, !.keepAlive = v]
      OBVIOUS
    <3>5. y \in ConnRec /\ y.seq = i
      BY <2>3, <3>3, <3>4 DEF ConnRec
    <3>6. PICK p : p = Answer(k.taken, "head", 0, 0)
      OBVIOUS
    <3>7. AdmitConn(c) \in {QueueStream(y, p), Overrun(y), y}
      BY <1>1, <2>2, <2>3, <2>5, <3>2, <3>4, <3>6 DEF AdmitConn
    <3>8. AdmitConn(c).seq # None
      BY <1>2, <1>4, <3>3, <3>5, <3>7
    <3> QED BY <3>8 DEF Heard
  <2> QED BY <2>1, <2>4, <2>5
<1>6. Heard(StreamConn(c))
  <2>1. CASE StreamConn(c) = k
    BY <1>2, <2>1
  <2>2. CASE StreamConn(c) # k
    <3>1. PICK m, p : /\ m = seqs[k.seq].made
                      /\ p = Answer(k.seq[2], "tokens", k.streamed + 1, m)
      OBVIOUS
    <3>2. k.seq \in DOMAIN seqs
          /\ StreamConn(c) = [QueueStream(k, p) EXCEPT !.streamed = m]
      BY <1>1, <2>2, <3>1 DEF StreamConn
    <3>3. StreamConn(c).seq # None
      BY <1>2, <1>4, <3>2 DEF ConnRec
    <3> QED BY <3>3 DEF Heard
  <2> QED BY <2>1, <2>2
<1>7. ASSUME c \in Ready PROVE Heard(FinishSeq(c))
  <2>1. PICK m : m = seqs[k.seq].made
    OBVIOUS
  <2>2. CASE ~k.ndjson
    <3>1. PICK p : p = Answer(k.seq[2], "whole", 0, m)
      OBVIOUS
    <3>2. FinishSeq(c) = [k EXCEPT !.write = <<p>>, !.at = 0, !.seq = None]
      BY <1>1, <2>1, <2>2, <3>1 DEF FinishSeq
    <3>3. FinishSeq(c).write # <<>>
      BY <1>2, <3>2 DEF ConnRec
    <3> QED BY <3>3 DEF Heard
  <2>3. CASE k.ndjson
    <3>1. PICK p, q : /\ p = Answer(k.seq[2], "last", 0, m)
                      /\ q = Answer(k.seq[2], "end", 0, m)
      OBVIOUS
    <3>2. PICK y : y = QueueStream(QueueStream(k, p), q)
      OBVIOUS
    <3>3. FinishSeq(c) = [y EXCEPT !.finalized = TRUE, !.seq = None]
      BY <1>1, <2>1, <2>3, <3>1, <3>2 DEF FinishSeq
    <3>4. Good(c, FinishSeq(c))
      BY <1>1, <1>2, <1>7, FinishSeqGood DEF IInv
    <3>5. FinishSeq(c).finalized
      <4>1. FinishSeq(c) \in ConnRec
        BY <3>4 DEF Good, Sound, Typed
      <4>2. PICK f : f = FinishSeq(c)
        OBVIOUS
      <4>3. DOMAIN f = DOMAIN y /\ "finalized" \in DOMAIN f
        BY <3>3, <4>1, <4>2 DEF ConnRec
      <4> QED BY <3>3, <4>2, <4>3
    <3> QED BY <3>4, <3>5 DEF Good, Sound, Shape, Heard
  <2> QED BY <2>2, <2>3
<1> QED BY <1>3, <1>5, <1>6, <1>7

(* What happens to one connection. *)
LEMMA HeardOne ==
  ASSUME IInv, Attends, NEW c \in Conns, NEW k, Heard(k),
         conn' = [conn EXCEPT ![c] = k], UNCHANGED open
  PROVE  Attends'
<1>1. ASSUME NEW d \in Range(open) PROVE Heard(conn'[d])
  <2>1. DOMAIN conn = Conns /\ d \in Conns
    BY DEF IInv, PlacesOK, ConnsOK
  <2> QED BY <2>1 DEF Attends
<1> QED BY <1>1 DEF Attends, Range, Heard, Complete

LEMMA HeardNext ==
  ASSUME ServeAssumption, IInv, Attends, [Next]_vars
  PROVE  Attends'
<1>1. IInv' /\ Range(open) \subseteq Conns /\ DOMAIN conn = Conns
  BY ServeNext DEF IInv, PlacesOK, ConnsOK
<1>2. ASSUME NEW f, conn' = f, Range(open') \subseteq Range(open),
             \A c \in Range(open') : Heard(f[c])
      PROVE  Attends'
  BY <1>2 DEF Attends, Range, Heard, Complete
<1>3. \A c \in Range(open) : Heard(conn[c]) /\ Good(c, conn[c])
  BY DEF Attends, IInv, ConnsOK
<1>4. CASE UNCHANGED <<conn, open>>
  BY <1>2, <1>3, <1>4
<1>5. ASSUME NEW c \in Conns, Expire(c) \/ Read(c) \/ Write(c) PROVE Attends'
  <2>1. c \in Range(open) /\ UNCHANGED open
    BY <1>5, OpenElement DEF Expire, Read, Write, Others, IInv
  <2>2. PICK k : conn' = [conn EXCEPT ![c] = k] /\ Heard(k)
    <3>1. CASE Expire(c)
      BY <1>3, <2>1, <3>1, StagesHeard DEF Expire
    <3>2. CASE Read(c)
      <4>1. PICK o \in ReadConn(c) : conn' = [conn EXCEPT ![c] = o[1]]
        BY <3>2 DEF Read
      <4> QED BY <1>3, <2>1, <4>1, ReadHeard DEF IInv
    <3>3. CASE Write(c)
      <4>1. PICK o \in WriteConn(c) : conn' = [conn EXCEPT ![c] = o]
        BY <3>3 DEF Write
      <4> QED BY <1>3, <2>1, <4>1, WriteHeard
    <3> QED BY <1>5, <3>1, <3>2, <3>3
  <2> QED BY <2>1, <2>2, HeardOne
<1>6. ASSUME NEW f, NEW engine, Reaped(f, engine), \A c \in Range(open) : Heard(f[c])
      PROVE  Attends'
  <2>1. PICK dead : dead = {c \in Range(open) : f[c].done}
    OBVIOUS
  <2>2. Range(open') = Range(open) \ dead
    BY <1>6, <2>1, RemainingRange DEF Reaped, IInv, PlacesOK
  <2>3. ASSUME NEW c \in Range(open') PROVE Heard(conn'[c])
    <3>1. c \in Conns /\ c \notin dead /\ conn'[c] = f[c]
      BY <1>1, <1>6, <2>1, <2>2, <2>3 DEF Reaped
    <3> QED BY <1>6, <2>2, <2>3, <3>1
  <2> QED BY <1>2, <2>2, <2>3
<1>7. CASE Reap
  BY <1>3, <1>6, <1>7 DEF Reap
<1>8. CASE AdmitParsed
  <2>1. PICK f, engine : Reaped(f, engine) /\ f = [c \in Conns |-> AdmitConn(c)]
    BY <1>8 DEF AdmitParsed
  <2>2. \A c \in Range(open) : Heard(f[c])
    BY <1>1, <1>3, <2>1, StagesHeard
  <2> QED BY <1>6, <2>1, <2>2
<1>9. CASE StreamProgress
  <2>1. \A c \in Range(open) : Heard(conn'[c])
    BY <1>1, <1>3, <1>9, StagesHeard DEF StreamProgress
  <2> QED BY <1>2, <1>9, <2>1 DEF StreamProgress
<1>10. CASE Harvest
  <2>1. ASSUME NEW c \in Range(open) PROVE Heard(conn'[c])
    <3>1. conn'[c] = IF c \in Ready THEN FinishSeq(c) ELSE conn[c]
      BY <1>1, <1>10, <2>1 DEF Harvest
    <3> QED BY <1>3, <2>1, <3>1, StagesHeard
  <2> QED BY <1>2, <1>10, <2>1 DEF Harvest
<1>11. CASE Accept
  <2>1. PICK new \in SUBSET (Conns \ arrived) : open' \in {open \o q : q \in SetToSeqs(new)}
    BY <1>11 DEF Accept
  <2>2. PICK q \in SetToSeqs(new) : open' = open \o q
    BY <2>1
  <2>3. Range(open') = Range(open) \cup new
    <3>1. IsFiniteSet(new)
      BY FS_Subset DEF ServeAssumption
    <3>2. q \in Seq(new) /\ Range(q) = new
      BY <3>1, Enumerated
    <3>3. q \in Seq(Conns) /\ open \in Seq(Conns)
      BY <3>2, SeqMonotonic DEF IInv, PlacesOK
    <3> QED BY <2>2, <3>2, <3>3, RangeConcatenation
  <2>4. ASSUME NEW c \in Range(open') PROVE Heard(conn'[c])
    <3>1. UNCHANGED conn /\ c \in Conns
      BY <1>1, <1>11, <2>4 DEF Accept, IInv, PlacesOK
    <3>2. CASE c \in Range(open)
      BY <1>3, <3>1, <3>2
    <3>3. CASE c \notin Range(open)
      <4>1. conn[c] = NewConn
        BY <2>3, <2>4, <3>3 DEF IInv, ConnsOK
      <4>2. Complete(NewConn) = {}
        BY EmptySeq DEF Complete, NewConn
      <4> QED BY <3>1, <4>1, <4>2 DEF Heard
    <3> QED BY <3>2, <3>3
  <2> QED BY <2>4 DEF Attends
<1>12. UNCHANGED vars \/ StepIfBusy \/ Stop => UNCHANGED <<conn, open>>
  BY DEF vars, StepIfBusy, Stop
<1> QED BY <1>4, <1>5, <1>7, <1>8, <1>9, <1>10, <1>11, <1>12 DEF Next

(* A connection with nothing pending has had an answer to every request it took, and no
   other waits in its buffer, so the read deadline of Conn::expire drops none. *)
THEOREM IdleNeverOwes == Spec => []IdleOwesNothing
<1>1. Init => IInv /\ Attends
  <2>1. Init => Attends
    BY EmptySeq DEF Init, Attends, Range
  <2> QED BY <2>1, ServeAssumption, InitServe
<1>2. IInv /\ Attends /\ [Next]_vars => (IInv /\ Attends)'
  BY ServeAssumption, ServeNext, HeardNext
<1>3. IInv /\ Attends => IdleOwesNothing
  <2> SUFFICES ASSUME IInv, Attends, NEW c \in Range(open),
                      conn[c].req = None, conn[c].seq = None, conn[c].write = <<>>, ~conn[c].done
               PROVE  Answered(c) = conn[c].taken /\ Complete(conn[c]) = {}
    BY DEF IdleOwesNothing
  <2>1. PICK k : k = conn[c]
    OBVIOUS
  <2>2. Resting(k) /\ Heard(k)
    BY <2>1, GoodRests DEF IInv, ConnsOK, Attends
  <2> QED BY <2>1, <2>2 DEF Resting, Answered, Closes, Heard
<1> QED BY <1>1, <1>2, <1>3, PTL DEF Spec

(* However long a stream runs and however slow its reader, what queue_stream retains
   stays within its limit. *)
THEOREM RetainedAlwaysBounded == Spec => []RetainedBounded
<1>1. IInv => RetainedBounded
  BY DEF IInv, ConnsOK, Good, Sound, Shape, RetainedBounded
<1> QED BY <1>1, ServeInvariant, PTL

(* No answer is told out of order.  The connections' ends of the answers are in the
   invariant above; here is how what is being sent goes on from what was sent, and how
   the buffer lies in the script. *)

(* What has been said before the i-th piece of the buffer. *)
Spoken(k, i) ==
  IF i > k.at + 1 /\ k.write[i - 1].part # "error" THEN k.write[i - 1] ELSE k.last

(* What is left to send goes on from what was sent; an error is the first piece of its
   buffer. *)
InLine(c, k) ==
  /\ k.last.part # "error"
  /\ \A i \in k.at + 1 .. Len(k.write) :
       IF k.write[i].part = "error" THEN i = 1 ELSE Follows(c, Spoken(k, i), k.write[i])

(* The buffer holds the last fragments of the first g of the script, and the requests
   before them have been taken. *)
Buffered(c, k, g) ==
  /\ Len(k.read) <= g
  /\ \A i \in 1 .. Len(k.read) : k.read[i] = script[c][g - Len(k.read) + i]
  /\ k.taken = Asked(c, g - Len(k.read))

(* Every request taken but the last asked to go on. *)
Continued(c, k) == \A n \in 1 .. k.taken - 1 : KeepsAlive(c, n)

(* keepAlive is what the last request taken asked for, unless it has been refused. *)
Alive(c, k) ==
  /\ Continued(c, k)
  /\ k.keepAlive /\ k.taken > 0 => KeepsAlive(c, k.taken)
  /\ k.req # None => k.req.keepAlive = k.keepAlive
  /\ k.req = None /\ k.seq = None /\ k.write = <<>> /\ k.taken > 0 => k.keepAlive

(* What a stream that goes on has said. *)
Streams(k) ==
  /\ k.cut => k.write # <<>> \/ k.ndjson
  /\ ~k.ndjson => k.streamed = 0
  /\ k.seq # None /\ k.ndjson =>
       LET p == Spoken(k, Len(k.write) + 1)
       IN  p.part \in {"head", "tokens"} /\ p.of = k.taken /\ p.upto = k.streamed

Told(c, k, g) == InLine(c, k) /\ (~k.done => Buffered(c, k, g) /\ Alive(c, k) /\ Streams(k))

(* A stream has told no more than its sequence has made; all of it, once
   stream_progress has run. *)
StreamsMade ==
  \A c \in Range(open) :
    LET k == conn[c]
    IN  k.seq # None /\ k.ndjson /\ ~k.done =>
          /\ k.streamed <= seqs[k.seq].made
          /\ stage = "harvest" => k.streamed = seqs[k.seq].made

TellsInOrder ==
  /\ \A c \in Range(open) : Told(c, conn[c], got[c])
  /\ \A c \in Conns \ Range(open) : InLine(c, conn[c])
  /\ \A c \in Conns \ arrived : got[c] = 0
  /\ StreamsMade

-----------------------------------------------------------------------------
(* Lemmas. *)

LEMMA PieceCounts ==
  ASSUME NEW k, Typed(k)
  PROVE  Len(k.write) \in Nat /\ k.at \in Nat /\ k.at <= Len(k.write)
         /\ k.write \in Seq(Piece) /\ k \in ConnRec /\ (k.write = <<>> => Len(k.write) = 0)
BY UnsentSeq, LenProperties DEF Typed, ConnRec

(* A connection that differs in nothing that is told. *)
SameTale(r, k) ==
  /\ r.read = k.read /\ r.taken = k.taken /\ r.keepAlive = k.keepAlive /\ r.req = k.req
  /\ r.seq = k.seq /\ r.write = k.write /\ r.at = k.at /\ r.cut = k.cut
  /\ r.ndjson = k.ndjson /\ r.streamed = k.streamed /\ r.last = k.last

LEMMA ToldSame ==
  ASSUME NEW c, NEW k, NEW r, NEW g, SameTale(r, k), Told(c, k, g), r.done \/ ~k.done
  PROVE  Told(c, r, g)
<1>1. \A i : Spoken(r, i) = Spoken(k, i)
  BY DEF SameTale, Spoken
<1>2. InLine(c, r)
  BY <1>1 DEF Told, SameTale, InLine
<1>3. ~r.done => Buffered(c, r, g) /\ Alive(c, r) /\ Streams(r)
  <2>1. ~r.done => Buffered(c, k, g) /\ Alive(c, k) /\ Streams(k)
    BY DEF Told
  <2>2. Buffered(c, k, g) => Buffered(c, r, g)
    BY DEF SameTale, Buffered
  <2>3. Alive(c, k) => Alive(c, r)
    BY DEF SameTale, Alive, Continued
  <2>4. Streams(k) => Streams(r)
    BY <1>1 DEF SameTale, Streams
  <2> QED BY <2>1, <2>2, <2>3, <2>4
<1> QED BY <1>2, <1>3 DEF Told

(* A piece that goes on from what was said before keeps the buffer in line. *)
LEMMA QueueTold ==
  ASSUME NEW c, NEW k, Typed(k), InLine(c, k),
         NEW p, p.part # "error", Follows(c, Spoken(k, Len(k.write) + 1), p),
         NEW r, Queued(r, k, p)
  PROVE  InLine(c, r) /\ (~r.done => Spoken(r, Len(r.write) + 1) = p)
<1>1. /\ Len(k.write) \in Nat /\ k.at \in Nat /\ k.at <= Len(k.write)
      /\ Len(Unsent(k)) = Len(k.write) - k.at
  BY PieceCounts, UnsentSeq
<1>2. r.at = 0 /\ r.last = k.last
  BY DEF Queued, SameTalk
<1>3. CASE r.done /\ r.write = <<>>
  BY <1>2, <1>3 DEF InLine
<1>4. CASE ~r.done
  <2>1. PICK u, a, w, v : u = Len(k.write) - k.at /\ a = k.at /\ w = k.write /\ v = r.write
    OBVIOUS
  <2>2. /\ Len(v) = u + 1 /\ v[u + 1] = p /\ u \in Nat /\ a \in Nat /\ Len(w) = a + u
        /\ \A i \in 1 .. u : v[i] = w[a + i]
    BY <1>1, <1>4, <2>1 DEF Queued
  <2>3. ASSUME NEW i \in 1 .. u + 1 PROVE Spoken(r, i) = Spoken(k, a + i)
    <3>1. CASE i = 1
      BY <1>2, <2>1, <2>2, <3>1 DEF Spoken
    <3>2. CASE i # 1
      <4>1. i - 1 \in 1 .. u /\ a + (i - 1) = (a + i) - 1 /\ i > 1 /\ a + i > a + 1
        BY <2>2, <3>2
      <4>2. v[i - 1] = w[(a + i) - 1]
        BY <2>2, <4>1
      <4>3. i > r.at + 1 /\ a + i > k.at + 1
        BY <1>2, <2>1, <2>2, <4>1
      <4>4. r.write[i - 1] = k.write[(a + i) - 1]
        BY <2>1, <4>2
      <4> HIDE <2>1
      <4> QED BY <1>2, <4>3, <4>4 DEF Spoken
    <3> QED BY <3>1, <3>2
  <2>4. ASSUME NEW i \in 1 .. u + 1
        PROVE  IF v[i].part = "error" THEN i = 1 ELSE Follows(c, Spoken(r, i), v[i])
    <3>1. CASE i = u + 1
      <4>1. a + i = Len(k.write) + 1
        BY <2>1, <2>2, <3>1
      <4>2. v[i] = p /\ Spoken(r, i) = Spoken(k, Len(k.write) + 1)
        BY <2>2, <2>3, <3>1, <4>1
      <4> QED BY <4>2
    <3>2. CASE i # u + 1
      <4>1. i \in 1 .. u /\ a + i \in a + 1 .. Len(w) /\ (a + i = 1 => i = 1)
        BY <2>2, <3>2
      <4>2. IF w[a + i].part = "error" THEN a + i = 1 ELSE Follows(c, Spoken(k, a + i), w[a + i])
        BY <2>1, <4>1 DEF InLine
      <4> QED BY <2>2, <2>3, <4>1, <4>2
    <3> QED BY <3>1, <3>2
  <2>5. Spoken(r, Len(v) + 1) = p
    <3>1. u + 2 > 1 /\ Len(v) + 1 = u + 2 /\ u + 2 - 1 = u + 1 /\ 0 + 1 = 1
      BY <2>2
    <3> QED BY <1>2, <2>1, <2>2, <3>1 DEF Spoken
  <2> QED BY <1>2, <2>1, <2>2, <2>4, <2>5 DEF InLine
<1> QED BY <1>3, <1>4 DEF Queued

(* A refusal goes before whatever the stream that is cut off may still queue. *)
LEMMA ErrTold ==
  ASSUME NEW c, NEW k, Typed(k), k.write = <<>>, k.req = None, NEW g, Told(c, k, g)
  PROVE  Told(c, QueueErr(k), g)
<1>1. PICK e : e = Answer(k.taken + 1, "error", 0, 0)
  OBVIOUS
<1>2. e.part = "error" /\ Len(<<e>>) = 1 /\ <<e>>[1] = e /\ <<e>> # <<>>
  BY <1>1 DEF Answer
<1>3. PICK r : r = QueueErr(k)
  OBVIOUS
<1>4. /\ r.write = <<e>> /\ r.at = 0 /\ ~r.keepAlive /\ r.cut /\ r.read = k.read
      /\ r.taken = k.taken /\ r.req = k.req /\ r.seq = k.seq /\ r.ndjson = k.ndjson
      /\ r.streamed = k.streamed /\ r.last = k.last /\ r.done = k.done
  BY <1>1, <1>3 DEF QueueErr, Typed, ConnRec
<1>5. k.at = 0 /\ Len(k.write) = 0
  BY PieceCounts
<1>6. InLine(c, r)
  BY <1>2, <1>4 DEF Told, InLine
<1>7. ASSUME ~k.done PROVE Buffered(c, r, g) /\ Alive(c, r) /\ Streams(r)
  <2>1. Buffered(c, k, g) /\ Alive(c, k) /\ Streams(k)
    BY <1>7 DEF Told
  <2>2. Buffered(c, r, g)
    BY <1>4, <2>1 DEF Buffered
  <2>3. Alive(c, r)
    BY <1>2, <1>4, <2>1 DEF Alive, Continued
  <2>4. Spoken(r, Len(r.write) + 1) = r.last /\ Spoken(k, Len(k.write) + 1) = k.last
    BY <1>2, <1>4, <1>5 DEF Spoken
  <2>5. Streams(r)
    BY <1>2, <1>4, <2>1, <2>4 DEF Streams
  <2> QED BY <2>2, <2>3, <2>5
<1> QED BY <1>3, <1>4, <1>6, <1>7 DEF Told

(* The request that completes next is one more. *)
LEMMA AskedNext ==
  ASSUME NEW c, NEW p \in Nat, NEW i \in Nat \ {0}, script[c][p + i] # Part,
         \A j \in 1 .. i - 1 : script[c][p + j] = Part
  PROVE  Asked(c, p + i) = Asked(c, p) + 1
<1> DEFINE S(n) == {j \in 1 .. n : script[c][j] # Part}
<1>1. S(p + i) = S(p) \cup {p + i}
  <2>1. ASSUME NEW j \in 1 .. p + i, script[c][j] # Part PROVE j \in S(p) \cup {p + i}
    <3>1. CASE j <= p
      BY <2>1, <3>1
    <3>2. CASE j > p /\ j # p + i
      <4>1. j - p \in 1 .. i - 1 /\ p + (j - p) = j
        BY <3>2
      <4> QED BY <2>1, <4>1
    <3> QED BY <3>1, <3>2
  <2> QED BY <2>1
<1>2. IsFiniteSet(S(p)) /\ p + i \notin S(p)
  <2>1. IsFiniteSet(1 .. p)
    BY FS_Interval
  <2>2. S(p) \subseteq 1 .. p
    OBVIOUS
  <2> QED BY <2>1, <2>2, FS_Subset
<1> QED BY <1>1, <1>2, FS_AddElement DEF Asked

(* The script of a connection and how far it has been read. *)
Scripted(c, g) ==
  /\ script[c] \in Text /\ Len(script[c]) \in Nat /\ g \in 0 .. Len(script[c])
  /\ \A i \in 1 .. Len(script[c]) : script[c][i] \in {Part} \cup Request

(* The first request buffered is the next one of the script. *)
LEMMA TakeTold ==
  ASSUME ServeAssumption, NEW c, NEW k, Resting(k), CanTake(k), NEW g, Scripted(c, g),
         Told(c, k, g)
  PROVE  Told(c, Take(k), g)
<1>1. /\ k \in ConnRec /\ k.read \in Text /\ k.at = 0 /\ Len(k.write) = 0 /\ k.write = <<>>
      /\ Typed(k) /\ k.taken \in Nat /\ k.req = None /\ k.seq = None /\ ~k.done /\ ~k.cut
      /\ ~k.ndjson
  BY DEF Resting, Typed, ConnRec
<1>2. Len(k.read) \in Nat /\ DOMAIN k.read = 1 .. Len(k.read)
      /\ \A j \in 1 .. Len(k.read) : k.read[j] \in {Part} \cup Request
  BY <1>1, LenProperties, ElementOfSeq DEF Text
<1>3. Complete(k) \subseteq Nat /\ Complete(k) # {} /\ Complete(k) \subseteq 1 .. Len(k.read)
  BY <1>2 DEF CanTake, Complete
<1>4. PICK i : i = CHOOSE a \in Complete(k) : \A j \in Complete(k) : a <= j
  OBVIOUS
<1>5. i \in Complete(k) /\ \A j \in Complete(k) : i <= j
  BY <1>3, <1>4, FirstOf
<1>6. PICK q, rest, L, p : /\ q = k.read[i] /\ rest = SubSeq(k.read, i + 1, Len(k.read))
                           /\ L = Len(k.read) /\ p = g - Len(k.read)
  OBVIOUS
<1>7. /\ Buffered(c, k, g) /\ Alive(c, k) /\ Streams(k) /\ InLine(c, k)
  BY <1>1 DEF Told
<1>8. CASE q.kind = "bad"
  <2>1. Take(k) = QueueErr(k)
    BY <1>4, <1>6, <1>8 DEF Take
  <2> QED BY <1>1, <2>1, ErrTold
<1>9. CASE q.kind # "bad"
  <2>1. PICK v, n : v = q.keepAlive /\ n = k.taken + 1
    OBVIOUS
  <2>2. PICK r : r = [k EXCEPT !.read = rest, !.keepAlive = v, !.req = q, !.taken = n]
    OBVIOUS
  <2>3. Take(k) = r
    BY <1>1, <1>4, <1>6, <1>9, <2>1, <2>2 DEF Take, ConnRec
  <2>4. /\ r.read = rest /\ r.keepAlive = v /\ r.req = q /\ r.taken = n /\ r.seq = k.seq
        /\ r.write = k.write /\ r.at = k.at /\ r.cut = k.cut /\ r.ndjson = k.ndjson
        /\ r.streamed = k.streamed /\ r.last = k.last
    BY <1>1, <2>2 DEF ConnRec
  <2>5. /\ L \in Nat /\ i \in 1 .. L /\ g \in Nat /\ L <= g /\ p \in Nat /\ p + L = g
        /\ g <= Len(script[c]) /\ q # Part /\ q \in Request
        /\ \A j \in 1 .. L : k.read[j] = script[c][p + j]
        /\ \A j \in 1 .. i - 1 : k.read[j] = Part
    <3>1. /\ L \in Nat /\ i \in 1 .. L /\ g \in Nat /\ L <= g /\ p = g - L /\ g <= Len(script[c])
          /\ \A j \in 1 .. L : k.read[j] = script[c][p + j]
      <4>1. L <= g /\ \A j \in 1 .. L : k.read[j] = script[c][p + j]
        BY <1>6, <1>7, Zenon DEF Buffered
      <4>2. L \in Nat /\ i \in 1 .. L /\ p = g - L
        BY <1>2, <1>3, <1>5, <1>6
      <4>3. g \in Nat /\ g <= Len(script[c])
        BY DEF Scripted
      <4> QED BY <4>1, <4>2, <4>3
    <3>2. q # Part /\ q \in Request
      BY <1>2, <1>5, <1>6, <3>1 DEF Complete
    <3>3. ASSUME NEW j \in 1 .. i - 1 PROVE k.read[j] = Part
      <4>1. j \in 1 .. L /\ ~(i <= j)
        BY <3>1
      <4> QED BY <1>2, <1>5, <1>6, <4>1 DEF Complete
    <3> QED BY <3>1, <3>2, <3>3
  <2>6. Len(rest) = L - i /\ \A j \in 1 .. L - i : rest[j] = k.read[i + j]
    <3>1. PICK t, a : t = k.read /\ a = i + 1
      OBVIOUS
    <3>2. a \in Int /\ L \in Int /\ (\A j \in a .. L : t[j] \in {Part} \cup Request)
          /\ rest = SubSeq(t, a, L)
      BY <1>2, <1>6, <2>5, <3>1
    <3>3. /\ Len(rest) = IF a <= L THEN L - a + 1 ELSE 0
          /\ \A j \in 1 .. L - a + 1 : rest[j] = t[a + j - 1]
      BY <3>2, SubSeqProperties
    <3>4. ASSUME NEW j \in 1 .. L - i PROVE rest[j] = t[i + j]
      <4>1. j \in 1 .. L - a + 1 /\ a + j - 1 = i + j
        BY <2>5, <3>1
      <4> QED BY <3>3, <4>1
    <3> QED BY <2>5, <3>1, <3>3, <3>4
  <2>7. script[c][p + i] = q /\ p + i \in DOMAIN script[c] /\ Asked(c, p + i) = n
    <3>a. i \in 1 .. L /\ i \in Nat \ {0} /\ p \in Nat /\ \A j \in 1 .. i - 1 : j \in 1 .. L
      BY <2>5
    <3>1. script[c][p + i] = q /\ \A j \in 1 .. i - 1 : script[c][p + j] = Part
      BY <1>6, <2>5, <3>a, Zenon
    <3>2. Asked(c, p + i) = Asked(c, p) + 1
      BY <2>5, <3>1, <3>a, AskedNext, Zenon
    <3>3. Asked(c, p) = k.taken
      BY <1>6, <1>7 DEF Buffered
    <3>4. p + i \in 1 .. Len(script[c]) /\ DOMAIN script[c] = 1 .. Len(script[c])
      <4>1. p + i \in 1 .. Len(script[c])
        BY <2>5 DEF Scripted
      <4> QED BY <4>1, LenProperties DEF Scripted, Text
    <3> QED BY <2>1, <3>1, <3>2, <3>3, <3>4
  <2>8. InLine(c, r)
    BY <1>1, <1>7, <2>4 DEF InLine
  <2>9. Buffered(c, r, g)
    <3>1. g - Len(rest) = p + i /\ Len(rest) <= g /\ Len(rest) = L - i
      BY <2>5, <2>6
    <3>2. ASSUME NEW j \in 1 .. Len(rest) PROVE rest[j] = script[c][g - Len(rest) + j]
      <4>1. j \in 1 .. L - i /\ i + j \in 1 .. L /\ p + (i + j) = (p + i) + j
        BY <2>5, <2>6
      <4> QED BY <2>5, <2>6, <3>1, <4>1
    <3> QED BY <2>4, <2>7, <3>1, <3>2 DEF Buffered
  <2>10. Alive(c, r)
    <3>1. ASSUME NEW a \in 1 .. n - 1 PROVE KeepsAlive(c, a)
      <4>1. CASE a = k.taken
        BY <1>1, <1>7, <2>1, <4>1 DEF Alive
      <4>2. CASE a # k.taken
        <5>1. a \in 1 .. k.taken - 1
          BY <1>1, <2>1, <4>2
        <5> QED BY <1>7, <5>1 DEF Alive, Continued
      <4> QED BY <4>1, <4>2
    <3>2. v => KeepsAlive(c, n)
      BY <2>1, <2>5, <2>7 DEF KeepsAlive
    <3>3. q # None
      BY <2>5 DEF ServeAssumption
    <3> QED BY <2>1, <2>4, <3>1, <3>2, <3>3 DEF Alive, Continued
  <2>11. Streams(r)
    BY <1>1, <1>7, <2>4 DEF Streams
  <2> QED BY <2>3, <2>8, <2>9, <2>10, <2>11 DEF Told
<1> QED BY <1>8, <1>9

LEMMA DoneTold ==
  ASSUME NEW c, NEW k, NEW g, NEW h, Told(c, k, g), k \in ConnRec
  PROVE  Told(c, [k EXCEPT !.done = TRUE], h) /\ Told(c, Cut(k), h)
         /\ [k EXCEPT !.done = TRUE].done /\ Cut(k).done
<1>1. ASSUME NEW r \in {[k EXCEPT !.done = TRUE], Cut(k)} PROVE Told(c, r, h) /\ r.done
  <2>1. r.write = k.write /\ r.at = k.at /\ r.last = k.last /\ r.done
    BY DEF ConnRec, Cut
  <2>2. \A i : Spoken(r, i) = Spoken(k, i)
    BY <2>1 DEF Spoken
  <2>3. InLine(c, r)
    BY <2>1, <2>2 DEF Told, InLine
  <2> QED BY <2>1, <2>3 DEF Told
<1> QED BY <1>1

(* The next request is taken in the place of the one that has been answered. *)
LEMMA FinishWriteTold ==
  ASSUME ServeAssumption, NEW c, NEW k, NEW g, Scripted(c, g), Typed(k),
         k.write = <<>>, k.req = None, InLine(c, k), ~k.done,
         Buffered(c, k, g), Continued(c, k),
         k.keepAlive /\ k.taken > 0 => KeepsAlive(c, k.taken),
         k.keepAlive => /\ k.seq = None /\ ~k.cut
                        /\ Closes(k.last) /\ k.last.of = k.taken
  PROVE  Told(c, FinishWrite(k), g) /\ (~FinishWrite(k).done => FinishWrite(k).seq = None)
<1>1. k \in ConnRec /\ Len(k.write) = 0 /\ k.at = 0 /\ MaxTokens \in Nat
  BY PieceCounts DEF Typed, ConnRec, ServeAssumption
<1>2. CASE ~k.keepAlive
  <2>1. PICK r : r = [k EXCEPT !.done = TRUE]
    OBVIOUS
  <2>2. FinishWrite(k) = r
    BY <1>2, <2>1 DEF FinishWrite
  <2>3. r.write = <<>> /\ r.at = 0 /\ r.last = k.last /\ r.done /\ Len(r.write) = 0
    BY <1>1, <2>1 DEF ConnRec
  <2> QED BY <2>2, <2>3 DEF Told, InLine
<1>3. CASE k.keepAlive
  <2> DEFINE x == [k EXCEPT !.seq = None, !.ndjson = FALSE, !.streamed = 0]
             r == [x EXCEPT !.finalized = FALSE, !.req = None]
  <2>1. FinishWrite(k) = TryTake(r)
    BY <1>3 DEF FinishWrite
  <2>a. /\ x \in ConnRec /\ x.seq = None /\ ~x.ndjson /\ x.read = k.read /\ x.streamed = 0
        /\ x.write = k.write /\ x.at = k.at /\ x.done = k.done /\ x.cut = k.cut
        /\ x.last = k.last /\ x.taken = k.taken /\ x.keepAlive = k.keepAlive
    <3>1. 0 \in 0 .. MaxTokens
      BY <1>1
    <3> QED BY <1>1, <3>1 DEF ConnRec
  <2> HIDE DEF x
  <2>2. /\ r \in ConnRec /\ r.req = None /\ r.seq = None /\ ~r.ndjson /\ ~r.finalized
        /\ r.write = k.write /\ r.at = k.at /\ r.done = k.done /\ r.cut = k.cut
        /\ r.last = k.last /\ r.taken = k.taken /\ r.keepAlive = k.keepAlive
        /\ r.read = k.read /\ r.streamed = 0
    BY <2>a DEF ConnRec
  <2> HIDE DEF r
  <2>3. Resting(r)
    BY <1>1, <1>3, <2>2 DEF Resting, Typed
  <2>4. Buffered(c, r, g) /\ InLine(c, r)
    BY <1>1, <2>2 DEF Buffered, InLine
  <2>5. Alive(c, r) /\ Streams(r)
    BY <1>3, <2>2 DEF Alive, Continued, Streams
  <2>6. Told(c, r, g)
    BY <2>4, <2>5 DEF Told
  <2>7. Told(c, TryTake(r), g) /\ TryTake(r).seq = None
    BY <2>2, <2>3, <2>6, TakeTold, TakeGood DEF TryTake
  <2> QED BY <2>1, <2>7
<1> QED BY <1>2, <1>3

(* A connection that streams went on with the stream it had. *)
SameStream(r, k) ==
  r.seq # None /\ r.ndjson /\ ~r.done =>
    r.seq = k.seq /\ k.ndjson /\ ~k.done /\ r.streamed = k.streamed

LEMMA ExpireTold ==
  ASSUME NEW c, NEW g, Good(c, conn[c]), Told(c, conn[c], g), NEW k \in ExpireConn(c)
  PROVE  Told(c, k, g) /\ SameStream(k, conn[c])
<1>1. k \in {conn[c], [conn[c] EXCEPT !.done = TRUE], Cut(conn[c])}
  BY DEF ExpireConn
<1>2. PICK x : x = conn[c]
  OBVIOUS
<1>3. x \in ConnRec /\ Told(c, x, g)
  BY <1>2 DEF Good, Sound, Typed
<1>4. /\ Told(c, [x EXCEPT !.done = TRUE], g) /\ [x EXCEPT !.done = TRUE].done
      /\ Told(c, Cut(x), g) /\ Cut(x).done
  BY <1>3, DoneTold
<1> QED BY <1>1, <1>2, <1>3, <1>4 DEF SameStream

(* A connection that has done nothing but read. *)
SameTurn(r, k) ==
  /\ r.req = k.req /\ r.seq = k.seq /\ r.write = k.write /\ r.done = k.done
  /\ r.at = k.at /\ r.cut = k.cut /\ r.ndjson = k.ndjson /\ r.streamed = k.streamed
  /\ r.finalized = k.finalized /\ r.last = k.last /\ r.taken = k.taken

(* More of the script is read into the buffer. *)
LEMMA MoreTold ==
  ASSUME NEW c, NEW k, Typed(k), NEW g, Scripted(c, g), Told(c, k, g), ~k.done,
         NEW n \in 0 .. Len(script[c]) - g,
         NEW f, f = k.read \o SubSeq(script[c], g + 1, g + n),
         NEW r, r = [k EXCEPT !.read = f]
  PROVE  Told(c, r, g + n) /\ Scripted(c, g + n) /\ Typed(r) /\ SameTurn(r, k)
<1>1. PICK s, t, L, N : /\ s = script[c] /\ t = SubSeq(script[c], g + 1, g + n)
                        /\ L = Len(k.read) /\ N = Len(script[c])
  OBVIOUS
<1>2. /\ s \in Text /\ N \in Nat /\ N = Len(s) /\ g \in 0 .. N /\ n \in 0 .. N - g /\ L \in Nat
      /\ k.read \in Text /\ \A i \in 1 .. N : s[i] \in {Part} \cup Request
  <2>1. k.read \in Text
    BY DEF Typed, ConnRec
  <2> QED BY <1>1, <2>1, LenProperties DEF Scripted, Text
<1>3. t \in Text /\ Len(t) = n /\ \A j \in 1 .. n : t[j] = s[g + j]
  <2>1. PICK a, b : a = g + 1 /\ b = g + n
    OBVIOUS
  <2>2. a \in Int /\ b \in Int /\ (\A i \in a .. b : s[i] \in {Part} \cup Request)
        /\ t = SubSeq(s, a, b)
    <3>1. a \in Int /\ b \in Int /\ \A i \in a .. b : i \in 1 .. N
      BY <1>2, <2>1
    <3>2. t = SubSeq(s, a, b)
      BY <1>1, <2>1
    <3> QED BY <1>2, <3>1, <3>2
  <2>3. /\ t \in Text /\ Len(t) = IF a <= b THEN b - a + 1 ELSE 0
        /\ \A j \in 1 .. b - a + 1 : t[j] = s[a + j - 1]
    BY <2>2, SubSeqProperties DEF Text
  <2>4. ASSUME NEW j \in 1 .. n PROVE t[j] = s[g + j]
    <3>1. j \in 1 .. b - a + 1 /\ a + j - 1 = g + j
      BY <1>2, <2>1
    <3> QED BY <2>3, <3>1
  <2> QED BY <1>2, <2>1, <2>3, <2>4
<1>4. f \in Text /\ Len(f) = L + n
      /\ \A j \in 1 .. L + n : f[j] = IF j <= L THEN k.read[j] ELSE t[j - L]
  <2>1. PICK d : d = k.read
    OBVIOUS
  <2>2. d \in Text /\ f = d \o t /\ L = Len(d)
    BY <1>1, <1>2, <2>1
  <2>3. t \in Text /\ Len(t) = n
    BY <1>3
  <2>4. /\ d \o t \in Text /\ Len(d \o t) = Len(d) + Len(t)
        /\ \A j \in 1 .. Len(d) + Len(t) :
             (d \o t)[j] = IF j <= Len(d) THEN d[j] ELSE t[j - Len(d)]
    BY <2>2, <2>3, ConcatProperties DEF Text
  <2> QED BY <2>1, <2>2, <2>3, <2>4
<1>6. /\ r \in ConnRec /\ r.read = f
      /\ r.req = k.req /\ r.seq = k.seq /\ r.write = k.write /\ r.done = k.done
      /\ r.at = k.at /\ r.cut = k.cut /\ r.ndjson = k.ndjson /\ r.streamed = k.streamed
      /\ r.finalized = k.finalized /\ r.last = k.last /\ r.taken = k.taken
      /\ r.keepAlive = k.keepAlive
  BY <1>4 DEF Typed, ConnRec
<1>7. Typed(r) /\ SameTurn(r, k)
  BY <1>6 DEF Typed, SameTurn
<1>8. Scripted(c, g + n)
  <2>1. g + n \in 0 .. N
    BY <1>2
  <2> QED BY <1>1, <1>2, <2>1 DEF Scripted
<1>9. Buffered(c, k, g) /\ Alive(c, k) /\ Streams(k) /\ InLine(c, k)
  BY DEF Told
<1>10. Buffered(c, r, g + n)
  <2>1. L <= g /\ k.taken = Asked(c, g - L) /\ \A i \in 1 .. L : k.read[i] = s[g - L + i]
    BY <1>1, <1>9, Zenon DEF Buffered
  <2>2. (g + n) - (L + n) = g - L /\ L + n <= g + n
    BY <1>2, <2>1
  <2>3. ASSUME NEW i \in 1 .. L + n PROVE f[i] = s[(g + n) - (L + n) + i]
    <3>1. CASE i <= L
      <4>1. i \in 1 .. L
        BY <1>2, <3>1
      <4> QED BY <1>4, <2>1, <2>2, <3>1, <4>1
    <3>2. CASE ~(i <= L)
      <4>0. i \in Int /\ L \in Int /\ g \in Int /\ n \in Int /\ 1 <= i /\ i <= L + n
        BY <1>2
      <4>1. i - L \in 1 .. n /\ g + (i - L) = g - L + i
        BY <3>2, <4>0
      <4>2. f[i] = s[g + (i - L)]
        BY <1>3, <1>4, <3>2, <4>1
      <4> QED BY <2>2, <4>1, <4>2
    <3> QED BY <3>1, <3>2
  <2>4. /\ Len(r.read) = L + n /\ Len(r.read) <= g + n
        /\ (g + n) - Len(r.read) = g - L /\ r.taken = k.taken
    BY <1>4, <1>6, <2>2
  <2>5. ASSUME NEW i \in 1 .. Len(r.read)
        PROVE  r.read[i] = script[c][(g + n) - Len(r.read) + i]
    BY <1>1, <1>6, <2>2, <2>3, <2>4
  <2> QED BY <2>1, <2>4, <2>5 DEF Buffered
<1>11. \A i : Spoken(r, i) = Spoken(k, i)
  BY <1>6 DEF Spoken
<1>12. InLine(c, r) /\ Alive(c, r) /\ Streams(r)
  <2>1. InLine(c, r)
    BY <1>6, <1>9, <1>11 DEF InLine
  <2>2. Alive(c, r)
    BY <1>6, <1>9 DEF Alive, Continued
  <2>3. Streams(r)
    BY <1>6, <1>9, <1>11 DEF Streams
  <2> QED BY <2>1, <2>2, <2>3
<1> QED BY <1>6, <1>7, <1>8, <1>10, <1>12 DEF Told

LEMMA ReadTold ==
  ASSUME ServeAssumption, NEW c \in Conns, Good(c, conn[c]), ScriptsOK,
         Scripted(c, got[c]), Told(c, conn[c], got[c]), NEW o \in ReadConn(c)
  PROVE  Told(c, o[1], o[2]) /\ SameStream(o[1], conn[c])
<1> DEFINE w(n) == [conn[c] EXCEPT !.read = @ \o SubSeq(script[c], got[c] + 1, got[c] + n)]
           left == Len(script[c]) - got[c]
           quiet == ~conn[c].done /\ conn[c].req = None /\ conn[c].write = <<>>
           tooLarge(n) == Len(w(n).read) > MaxRead
           goesOn(n) == n = 0 \/ (~tooLarge(n) /\ ~CanTake(w(n)))
           ends(n) == ~goesOn(n) /\ \E m \in 0 .. n - 1 : n - m <= ReadChunk /\ goesOn(m)
           Idles == {<<w(n), got[c] + n>> : n \in {n \in 0 .. left : goesOn(n)}}
           Fails == {<<Cut(w(n)), got[c] + n>> : n \in {n \in 0 .. left : goesOn(n)}}
           Ends == {<<IF tooLarge(n) THEN QueueErr(w(n)) ELSE Take(w(n)), got[c] + n>> :
                      n \in {n \in 1 .. left : ends(n)}}
<1>1. PICK k, g : k = conn[c] /\ g = got[c]
  OBVIOUS
<1>2. o \in IF ~quiet THEN {<<conn[c], got[c]>>}
            ELSE IF CanTake(conn[c]) THEN {<<Take(conn[c]), got[c]>>}
            ELSE Idles \cup Fails \cup Ends
  BY Zenon DEF ReadConn
<1>3. ASSUME NEW n \in 0 .. left, quiet
      PROVE  /\ Told(c, w(n), g + n) /\ SameStream(w(n), k)
             /\ Told(c, Cut(w(n)), g + n) /\ SameStream(Cut(w(n)), k)
             /\ Told(c, QueueErr(w(n)), g + n) /\ SameStream(QueueErr(w(n)), k)
             /\ CanTake(w(n)) => Told(c, Take(w(n)), g + n) /\ SameStream(Take(w(n)), k)
  <2>1. PICK r : r = w(n)
    OBVIOUS
  <2>2. PICK f : f = k.read \o SubSeq(script[c], g + 1, g + n)
    OBVIOUS
  <2>a. r = [k EXCEPT !.read = f]
    BY <1>1, <2>1, <2>2 DEF Good, Sound, Typed, ConnRec
  <2>3. /\ Typed(k) /\ Scripted(c, g) /\ Told(c, k, g) /\ ~k.done /\ Good(c, k)
        /\ n \in 0 .. Len(script[c]) - g /\ k.req = None /\ k.write = <<>>
    BY <1>1, <1>3 DEF Good, Sound
  <2> HIDE DEF w
  <2>b. Told(c, r, g + n) /\ Scripted(c, g + n) /\ Typed(r) /\ SameTurn(r, k)
    BY <2>2, <2>a, <2>3, MoreTold
  <2>4. /\ Told(c, r, g + n) /\ SameStream(r, k) /\ Scripted(c, g + n) /\ Typed(r)
        /\ r.req = k.req /\ r.seq = k.seq /\ r.write = k.write /\ r.done = k.done
        /\ r.at = k.at /\ r.cut = k.cut /\ r.ndjson = k.ndjson /\ r.streamed = k.streamed
        /\ r.finalized = k.finalized /\ r.last = k.last /\ r.taken = k.taken
    BY <2>b DEF SameTurn, SameStream
  <2>5. Told(c, Cut(r), g + n) /\ SameStream(Cut(r), k)
    BY <2>4, DoneTold DEF Typed, SameStream
  <2>6. Told(c, QueueErr(r), g + n) /\ SameStream(QueueErr(r), k)
    <3>1. Told(c, QueueErr(r), g + n)
      BY <2>3, <2>4, ErrTold
    <3>2. /\ QueueErr(r).seq = r.seq /\ QueueErr(r).ndjson = r.ndjson
          /\ QueueErr(r).streamed = r.streamed /\ QueueErr(r).done = r.done
      BY <2>4 DEF QueueErr, Typed, ConnRec
    <3> QED BY <2>4, <3>1, <3>2 DEF SameStream
  <2>7. ASSUME CanTake(r) PROVE Told(c, Take(r), g + n) /\ SameStream(Take(r), k)
    <3>1. Resting(k)
      BY <2>3, <2>4, <2>7, GoodRests DEF CanTake
    <3>2. Resting(r)
      BY <2>4, <3>1 DEF Resting
    <3>3. Take(r).seq = None /\ Told(c, Take(r), g + n)
      BY <2>4, <2>7, <3>2, TakeGood, TakeTold
    <3> QED BY <3>3 DEF SameStream
  <2> QED BY <2>1, <2>4, <2>5, <2>6, <2>7
<1>4. CASE o = <<k, g>>
  BY <1>1, <1>4 DEF SameStream
<1>5. CASE quiet /\ CanTake(k) /\ o = <<Take(k), g>>
  <2>1. Resting(k) /\ Told(c, k, g) /\ Scripted(c, g)
    BY <1>1, <1>5, GoodRests DEF CanTake
  <2>2. Told(c, Take(k), g) /\ Take(k).seq = None
    BY <1>5, <2>1, TakeGood, TakeTold
  <2> QED BY <1>5, <2>2 DEF SameStream
<1> HIDE DEF w
<1>6. CASE quiet /\ o \in Idles \cup Fails
  <2>1. PICK n \in 0 .. left : o[1] \in {w(n), Cut(w(n))} /\ o[2] = g + n
    BY <1>1, <1>6
  <2> QED BY <1>1, <1>3, <1>6, <2>1
<1>7. CASE quiet /\ o \in Ends
  <2>1. PICK n \in 1 .. left : /\ ends(n)
                               /\ o = <<IF tooLarge(n) THEN QueueErr(w(n)) ELSE Take(w(n)), got[c] + n>>
    BY <1>7
  <2>2. n \in 0 .. left /\ n # 0
    BY <1>1 DEF Scripted
  <2>3. tooLarge(n) \/ CanTake(w(n))
    BY <2>1, <2>2
  <2> HIDE DEF tooLarge, ends
  <2> QED BY <1>1, <1>3, <1>7, <2>1, <2>2, <2>3
<1> HIDE DEF Idles, Fails, Ends
<1> QED BY <1>1, <1>2, <1>4, <1>5, <1>6, <1>7

(* r is k with n more pieces sent. *)
SentMore(r, k, n) ==
  /\ r.read = k.read /\ r.taken = k.taken /\ r.keepAlive = k.keepAlive /\ r.req = k.req
  /\ r.seq = k.seq /\ r.write = k.write /\ r.cut = k.cut /\ r.done = k.done
  /\ r.ndjson = k.ndjson /\ r.streamed = k.streamed /\ r.finalized = k.finalized
  /\ r.at = k.at + n
  /\ r.last = IF n = 0 \/ k.write[k.at + n].part = "error" THEN k.last ELSE k.write[k.at + n]

(* Sending does not change what is said, nor in which order. *)
LEMMA SentTold ==
  ASSUME NEW c, NEW k, Typed(k), NEW g, Told(c, k, g), k.write # <<>>,
         NEW n \in 0 .. Len(k.write) - k.at, NEW r, SentMore(r, k, n)
  PROVE  Told(c, r, g) /\ Spoken(r, Len(k.write) + 1) = Spoken(k, Len(k.write) + 1)
<1>1. PICK w, a, b, l, N : /\ w = k.write /\ a = k.at /\ b = k.at + n /\ l = r.last
                           /\ N = Len(k.write)
  OBVIOUS
<1>2. N \in Nat /\ a \in Nat /\ n \in Nat /\ b = a + n /\ b <= N
  BY <1>1, PieceCounts
<1>3. l = IF n = 0 \/ w[b].part = "error" THEN k.last ELSE w[b]
  BY <1>1 DEF SentMore
<1>4. /\ InLine(c, k) /\ k.last.part # "error"
      /\ \A i \in a + 1 .. N :
           IF w[i].part = "error" THEN i = 1 ELSE Follows(c, Spoken(k, i), w[i])
  BY <1>1 DEF Told, InLine
<1>5. ASSUME NEW i \in b + 1 .. N + 1 PROVE Spoken(r, i) = Spoken(k, i)
  <2>1. /\ Spoken(r, i) = IF i > b + 1 /\ w[i - 1].part # "error" THEN w[i - 1] ELSE l
        /\ Spoken(k, i) = IF i > a + 1 /\ w[i - 1].part # "error" THEN w[i - 1] ELSE k.last
    BY <1>1, Zenon DEF Spoken, SentMore
  <2>2. i \in Int /\ b + 1 <= i /\ i <= N + 1
    BY <1>2
  <2>3. CASE i > b + 1
    <3>1. i > a + 1
      BY <1>2, <2>2, <2>3
    <3>2. ASSUME w[i - 1].part = "error" PROVE n = 0
      <4>1. i - 1 \in a + 1 .. N
        BY <1>2, <2>2, <2>3
      <4>2. i - 1 = 1
        BY <1>4, <3>2, <4>1
      <4> QED BY <1>2, <2>2, <2>3, <4>2
    <3> QED BY <1>3, <2>1, <2>3, <3>1, <3>2
  <2>4. CASE i = b + 1
    <3>1. i - 1 = b /\ ~(i > b + 1) /\ (i > a + 1 <=> n # 0)
      BY <1>2, <2>2, <2>4
    <3> QED BY <1>3, <2>1, <3>1
  <2> QED BY <1>2, <2>2, <2>3, <2>4
<1>6. N + 1 \in b + 1 .. N + 1 /\ \A i \in b + 1 .. N : i \in a + 1 .. N /\ i \in b + 1 .. N + 1
  BY <1>2
<1>7. Spoken(r, N + 1) = Spoken(k, N + 1)
  BY <1>5, <1>6
<1>8. InLine(c, r)
  <2>1. l.part # "error"
    BY <1>3, <1>4
  <2>2. \A i \in b + 1 .. N :
          IF w[i].part = "error" THEN i = 1 ELSE Follows(c, Spoken(r, i), w[i])
    BY <1>4, <1>5, <1>6
  <2>3. r.last = l /\ r.at = b /\ r.write = w /\ Len(r.write) = N
    BY <1>1 DEF SentMore
  <2> QED BY <2>1, <2>2, <2>3 DEF InLine
<1>9. ASSUME ~r.done PROVE Buffered(c, r, g) /\ Alive(c, r) /\ Streams(r)
  <2>1. Buffered(c, k, g) /\ Alive(c, k) /\ Streams(k)
    BY <1>9 DEF Told, SentMore
  <2>2. Buffered(c, r, g)
    BY <2>1 DEF Buffered, SentMore
  <2>3. Alive(c, r)
    BY <2>1 DEF Alive, Continued, SentMore
  <2>4. Streams(r)
    BY <1>1, <1>7, <2>1 DEF Streams, SentMore
  <2> QED BY <2>2, <2>3, <2>4
<1> QED BY <1>1, <1>7, <1>8, <1>9 DEF Told

(* The buffer has been sent, and a stream goes on. *)
LEMMA FlushTold ==
  ASSUME NEW c, NEW k, Typed(k), NEW g, Told(c, k, g), k.seq # None, k.ndjson,
         k.at = Len(k.write),
         NEW r, r = [k EXCEPT !.write = <<>>, !.at = 0, !.stalled = FALSE]
  PROVE  Told(c, r, g) /\ SameStream(r, k)
<1>1. /\ r.write = <<>> /\ r.at = 0 /\ Len(r.write) = 0 /\ r.read = k.read
      /\ r.taken = k.taken /\ r.keepAlive = k.keepAlive /\ r.req = k.req /\ r.seq = k.seq
      /\ r.cut = k.cut /\ r.done = k.done /\ r.ndjson = k.ndjson
      /\ r.streamed = k.streamed /\ r.last = k.last
  BY DEF Typed, ConnRec
<1>2. Spoken(r, Len(r.write) + 1) = k.last /\ Spoken(k, Len(k.write) + 1) = k.last
  <2>1. Len(k.write) \in Nat
    BY PieceCounts
  <2> QED BY <1>1, <2>1 DEF Spoken
<1>3. InLine(c, r)
  BY <1>1 DEF Told, InLine
<1>4. ASSUME ~r.done PROVE Buffered(c, r, g) /\ Alive(c, r) /\ Streams(r)
  <2>1. Buffered(c, k, g) /\ Alive(c, k) /\ Streams(k)
    BY <1>1, <1>4 DEF Told
  <2>2. Buffered(c, r, g)
    BY <1>1, <2>1 DEF Buffered
  <2>3. Alive(c, r)
    BY <1>1, <2>1 DEF Alive, Continued
  <2>4. Streams(r)
    BY <1>1, <1>2, <2>1 DEF Streams
  <2> QED BY <2>2, <2>3, <2>4
<1> QED BY <1>1, <1>3, <1>4 DEF Told, SameStream

LEMMA WriteTold ==
  ASSUME ServeAssumption, NEW c \in Conns, NEW g, Good(c, conn[c]), Scripted(c, g),
         Told(c, conn[c], g), NEW o \in WriteConn(c)
  PROVE  Told(c, o, g) /\ SameStream(o, conn[c])
<1> DEFINE sent(n) == [conn[c] EXCEPT
                         !.at = @ + n, !.stalled = TRUE,
                         !.last = IF n = 0 \/ conn[c].write[conn[c].at + n].part = "error" THEN @
                                  ELSE conn[c].write[conn[c].at + n]]
           room == 0 .. Len(Unsent(conn[c]))
           all == Len(Unsent(conn[c]))
           flushed == [sent(all) EXCEPT !.write = <<>>, !.at = 0, !.stalled = FALSE]
           quiet == conn[c].done \/ conn[c].write = <<>>
<1>1. o \in IF quiet THEN {[conn[c] EXCEPT !.stalled = FALSE]}
            ELSE {sent(n) : n \in room} \cup {Cut(sent(n)) : n \in room}
                 \cup {IF conn[c].ndjson /\ ~conn[c].finalized THEN flushed
                       ELSE FinishWrite(flushed)}
  BY Zenon DEF WriteConn
<1>2. PICK k : k = conn[c]
  OBVIOUS
<1>3. /\ k \in ConnRec /\ Typed(k) /\ Shape(k) /\ Tells(k) /\ Told(c, k, g)
      /\ Len(k.write) \in Nat /\ k.at \in Nat /\ all = Len(k.write) - k.at
      /\ k.at <= Len(k.write)
      /\ \A i \in 1 .. Len(k.write) : k.write[i] \in Piece
  <2>1. k \in ConnRec /\ Typed(k) /\ Shape(k) /\ Tells(k) /\ Told(c, k, g)
    BY <1>2 DEF Good, Sound, Typed
  <2> QED BY <1>2, <2>1, UnsentSeq DEF Typed
<1>4. room = 0 .. Len(k.write) - k.at
  BY <1>3
<1> HIDE DEF all
<1>5. CASE quiet
  <2>1. PICK r : r = [k EXCEPT !.stalled = FALSE]
    OBVIOUS
  <2>2. o = r
    BY <1>1, <1>2, <1>5, <2>1
  <2>3. SameTale(r, k) /\ r.done = k.done
    BY <1>3, <2>1 DEF ConnRec, SameTale
  <2>4. Told(c, r, g)
    BY <1>3, <2>3, ToldSame
  <2> QED BY <1>2, <2>2, <2>3, <2>4 DEF SameStream, SameTale
<1>6. ASSUME ~quiet, NEW n \in room
      PROVE  /\ sent(n) \in ConnRec /\ Typed(sent(n)) /\ SentMore(sent(n), k, n)
             /\ Told(c, sent(n), g)
             /\ Spoken(sent(n), Len(k.write) + 1) = Spoken(k, Len(k.write) + 1)
  <2>1. PICK a, l : /\ a = k.at + n
                    /\ l = IF n = 0 \/ k.write[k.at + n].part = "error" THEN k.last
                           ELSE k.write[k.at + n]
    OBVIOUS
  <2>2. n \in Nat /\ a \in Nat /\ a <= Len(k.write) /\ (n = 0 \/ a \in 1 .. Len(k.write))
    BY <1>3, <1>4, <2>1
  <2>3. l \in Piece
    BY <1>3, <2>1, <2>2 DEF ConnRec
  <2>4. PICK r : r = [k EXCEPT !.at = a, !.stalled = TRUE, !.last = l]
    OBVIOUS
  <2>5. sent(n) = r
    BY <1>2, <1>3, <2>1, <2>4 DEF ConnRec
  <2>6. /\ r \in ConnRec /\ r.req = k.req /\ r.seq = k.seq /\ r.write = k.write
        /\ r.at = a /\ r.done = k.done /\ r.ndjson = k.ndjson /\ r.cut = k.cut
        /\ r.finalized = k.finalized /\ r.keepAlive = k.keepAlive /\ r.read = k.read
        /\ r.taken = k.taken /\ r.last = l /\ r.streamed = k.streamed
    BY <1>3, <2>2, <2>3, <2>4 DEF ConnRec
  <2>7. Typed(r) /\ SentMore(r, k, n)
    BY <2>1, <2>2, <2>6 DEF Typed, SentMore
  <2>8. k.write # <<>> /\ n \in 0 .. Len(k.write) - k.at
    BY <1>2, <1>4, <1>6
  <2>9. Told(c, r, g) /\ Spoken(r, Len(k.write) + 1) = Spoken(k, Len(k.write) + 1)
    BY <1>3, <2>7, <2>8, SentTold
  <2> QED BY <2>5, <2>6, <2>7, <2>9
<1> HIDE DEF sent
<1>7. CASE ~quiet
  <2>1. ~k.done /\ k.write # <<>> /\ k.req = None
    BY <1>2, <1>3, <1>7 DEF Shape
  <2>2. all \in room /\ k.at + all = Len(k.write) /\ Len(k.write) > 0
    <3>1. k.write \in Seq(Piece)
      BY <1>3 DEF ConnRec
    <3> QED BY <1>3, <1>4, <2>1, <3>1, EmptySeq
  <2>3. PICK x : x = sent(all)
    OBVIOUS
  <2>4. PICK r : r = [x EXCEPT !.write = <<>>, !.at = 0, !.stalled = FALSE]
    OBVIOUS
  <2>5. /\ x \in ConnRec /\ Typed(x) /\ SentMore(x, k, all) /\ Told(c, x, g)
        /\ Spoken(x, Len(k.write) + 1) = Spoken(k, Len(k.write) + 1)
    BY <1>6, <1>7, <2>2, <2>3
  <2>a. /\ r \in ConnRec /\ r.write = <<>> /\ r.at = 0
        /\ r.read = x.read /\ r.taken = x.taken /\ r.keepAlive = x.keepAlive
        /\ r.req = x.req /\ r.seq = x.seq /\ r.cut = x.cut /\ r.done = x.done
        /\ r.ndjson = x.ndjson /\ r.streamed = x.streamed /\ r.last = x.last
    BY <2>4, <2>5, EmptySeq DEF ConnRec
  <2>6. Len(r.write) = 0 /\ Typed(r)
    BY <2>a DEF Typed
  <2>7. ASSUME k.ndjson, ~k.finalized PROVE Told(c, r, g) /\ SameStream(r, k)
    <3>1. k.seq # None
      BY <1>3, <2>7 DEF Shape
    <3>2. x.seq # None /\ x.ndjson /\ x.at = Len(x.write)
      BY <2>2, <2>5, <2>7, <3>1 DEF SentMore
    <3>3. Told(c, r, g) /\ SameStream(r, x)
      BY <2>4, <2>5, <3>2, FlushTold
    <3> QED BY <2>5, <3>3 DEF SameStream, SentMore
  <2>8. ASSUME ~(k.ndjson /\ ~k.finalized)
        PROVE  Told(c, FinishWrite(r), g) /\ SameStream(FinishWrite(r), k)
    <3>1. k.keepAlive => k.seq = None /\ ~k.cut
      BY <1>3, <2>1, <2>8 DEF Shape, Tells, Refused
    <3>2. ASSUME k.keepAlive PROVE Closes(r.last) /\ r.last.of = r.taken
      <4>1. Closes(Tip(k)) /\ Tip(k).of = k.taken /\ Tip(k) = k.write[Len(k.write)]
            /\ k.write[Len(k.write)].part # "error"
        BY <1>3, <2>1, <2>2, <3>1, <3>2 DEF Tells, Owes, Tip
      <4>2. all = 0 => k.last = Tip(k)
        <5>1. all = 0 => k.at = Len(k.write) /\ k.at > 0
          BY <1>3, <2>2
        <5>2. all = 0 => k.last = k.write[k.at]
          BY <1>3, <2>1, <3>1, <3>2, <5>1 DEF Tells, Owes
        <5> QED BY <4>1, <5>1, <5>2
      <4>3. x.last = Tip(k)
        <5>1. k.write[k.at + all] = Tip(k) /\ Tip(k).part # "error"
          BY <2>2, <4>1
        <5> QED BY <2>5, <4>2, <5>1 DEF SentMore
      <4> QED BY <2>5, <2>a, <4>1, <4>3 DEF SentMore
    <3>3. Buffered(c, x, g) /\ Alive(c, x) /\ InLine(c, x) /\ ~x.done
      BY <2>1, <2>5 DEF Told, SentMore
    <3>4. Buffered(c, r, g) /\ InLine(c, r)
      BY <2>a, <2>6, <3>3 DEF Buffered, InLine
    <3>5. Continued(c, r)
          /\ (r.keepAlive /\ r.taken > 0 => KeepsAlive(c, r.taken))
      BY <2>a, <3>3 DEF Alive, Continued
    <3>6. /\ r.req = None /\ ~r.done
          /\ r.keepAlive => r.seq = None /\ ~r.cut /\ Closes(r.last) /\ r.last.of = r.taken
      BY <2>1, <2>5, <2>a, <3>1, <3>2, <3>3 DEF SentMore
    <3>7. Told(c, FinishWrite(r), g) /\ (~FinishWrite(r).done => FinishWrite(r).seq = None)
      BY <2>a, <2>6, <3>4, <3>5, <3>6, FinishWriteTold
    <3> QED BY <3>7 DEF SameStream
  <2>9. \/ \E n \in room : o = sent(n) \/ o = Cut(sent(n))
        \/ k.ndjson /\ ~k.finalized /\ o = r
        \/ ~(k.ndjson /\ ~k.finalized) /\ o = FinishWrite(r)
    BY <1>1, <1>2, <1>7, <2>3, <2>4
  <2>10. \A n \in room : /\ Told(c, sent(n), g) /\ SameStream(sent(n), k)
                         /\ Told(c, Cut(sent(n)), g) /\ SameStream(Cut(sent(n)), k)
    <3>1. TAKE n \in room
    <3>2. PICK y : y = sent(n)
      OBVIOUS
    <3>3. y \in ConnRec /\ SentMore(y, k, n) /\ Told(c, y, g)
      BY <1>6, <1>7, <3>2
    <3>4. Told(c, Cut(y), g) /\ Cut(y).done
      BY <3>3, DoneTold
    <3> QED BY <3>2, <3>3, <3>4 DEF SameStream, SentMore
  <2> QED BY <1>2, <2>7, <2>8, <2>9, <2>10
<1> QED BY <1>5, <1>7

(* An answer may begin once the one before it is out. *)
LEMMA AnswerFollows ==
  ASSUME NEW c, NEW k, Typed(k), Closes(k.last), k.last.of + 1 = k.taken,
         Continued(c, k), NEW p, p.part \in {"whole", "head"}, p.of = k.taken
  PROVE  Follows(c, k.last, p)
<1>1. k.last.of \in Nat /\ k.taken \in Nat
  BY DEF Typed, ConnRec, Piece
<1>2. k.last.of > 0 => k.last.of \in 1 .. k.taken - 1
  BY <1>1
<1>3. k.last.of > 0 => KeepsAlive(c, k.last.of)
  BY <1>2 DEF Continued
<1>4. k.last.part \in {"whole", "end"} /\ p.of = k.last.of + 1
  BY DEF Closes
<1> QED BY <1>3, <1>4 DEF Follows

(* One piece that may follow, in an empty buffer. *)
LEMMA OnePiece ==
  ASSUME NEW c, NEW k, k.last.part # "error", NEW p, p.part # "error",
         Follows(c, k.last, p), k.write = <<p>>, k.at = 0
  PROVE  InLine(c, k)
<1>1. Len(k.write) = 1 /\ k.write[1] = p /\ k.write # <<>>
  OBVIOUS
<1>2. Spoken(k, 1) = k.last
  BY DEF Spoken
<1>3. \A i \in 0 + 1 .. 1 : i = 1
  OBVIOUS
<1> QED BY <1>1, <1>2, <1>3 DEF InLine

LEMMA AdmitTold ==
  ASSUME ServeAssumption, NEW c \in Conns, NEW g, Good(c, conn[c]), Told(c, conn[c], g)
  PROVE  /\ Told(c, AdmitConn(c), g)
         /\ SameStream(AdmitConn(c), conn[c]) \/ AdmitConn(c).streamed = 0
<1>1. PICK k : k = conn[c]
  OBVIOUS
<1>2. CASE ~CanAdmit(k)
  BY <1>1, <1>2 DEF AdmitConn, SameStream
<1>3. CASE CanAdmit(k)
  <2>1. /\ k \in ConnRec /\ Typed(k) /\ k.req \in Request /\ k.seq = None /\ k.write = <<>>
        /\ ~k.done /\ ~k.ndjson /\ ~k.finalized /\ k.req # None
    BY <1>1, <1>3 DEF CanAdmit, Good, Sound, Typed, ConnRec, Shape
  <2>2. ~k.cut /\ Closes(k.last) /\ k.last.of + 1 = k.taken /\ k.at = 0 /\ Len(k.write) = 0
    BY <1>1, <1>3, <2>1 DEF Good, Sound, Tells, Refused, Owes, Tip, CanAdmit, Typed, ConnRec
  <2>3. InLine(c, k) /\ Buffered(c, k, g) /\ Alive(c, k) /\ Streams(k)
    BY <1>1, <2>1 DEF Told
  <2>4. PICK r : r = k.req
    OBVIOUS
  <2>5. /\ r \in Request /\ r.kind \in {"plain", "whole", "stream", "echo", "bad"}
        /\ r.keepAlive = k.keepAlive /\ k.streamed = 0 /\ k.last.part # "error"
    BY <2>1, <2>3, <2>4 DEF Request, Alive, Streams, InLine
  <2>6. \A p : p.part \in {"whole", "head"} /\ p.of = k.taken => Follows(c, k.last, p)
    <3>1. Continued(c, k)
      BY <2>3 DEF Alive
    <3> QED BY <2>1, <2>2, <3>1, AnswerFollows
  <2>7. PICK x : x = [k EXCEPT !.req = None]
    OBVIOUS
  <2>8. /\ x \in ConnRec /\ x.req = None /\ x.seq = None /\ x.write = <<>> /\ x.at = 0
        /\ ~x.done /\ ~x.ndjson /\ ~x.cut /\ ~x.finalized /\ x.taken = k.taken
        /\ x.last = k.last /\ x.taken \in Nat /\ x.read = k.read
        /\ x.keepAlive = k.keepAlive /\ x.streamed = 0
    BY <2>1, <2>2, <2>5, <2>7 DEF ConnRec
  <2>9. CASE r.kind = "plain"
    <3>1. PICK p : p = Answer(k.taken, "whole", 0, 0)
      OBVIOUS
    <3>2. p \in Piece /\ p.part = "whole" /\ p.of = k.taken
      BY <2>8, <3>1 DEF Answer, Piece
    <3>3. <<p>> \in Seq(Piece) /\ <<p>> # <<>>
      BY <3>2
    <3>4. PICK y : y = [x EXCEPT !.write = <<p>>, !.at = 0]
      OBVIOUS
    <3>5. /\ y.req = None /\ y.seq = None /\ y.write = <<p>> /\ y.at = 0
          /\ ~y.ndjson /\ ~y.cut /\ y.taken = k.taken /\ y.last = k.last
          /\ y.read = k.read /\ y.keepAlive = k.keepAlive /\ y.streamed = 0
      BY <2>8, <3>3, <3>4 DEF ConnRec
    <3>6. AdmitConn(c) = y
      BY <1>1, <1>3, <2>4, <2>7, <2>8, <2>9, <3>1, <3>4 DEF AdmitConn
    <3>7. InLine(c, y)
      BY <2>5, <2>6, <3>2, <3>5, OnePiece
    <3>8. Buffered(c, y, g)
      BY <2>3, <3>5 DEF Buffered
    <3>9. Alive(c, y) /\ Streams(y)
      BY <2>3, <3>3, <3>5 DEF Alive, Continued, Streams
    <3> QED BY <3>5, <3>6, <3>7, <3>8, <3>9 DEF Told
  <2>10. CASE r.kind # "plain"
    <3>1. PICK i, b, v : i = <<c, k.taken>> /\ b = (r.kind \in {"stream", "echo"})
                       /\ v = r.keepAlive
      OBVIOUS
    <3>2. i \in Id /\ i # None /\ b \in BOOLEAN /\ v \in BOOLEAN /\ v = k.keepAlive
      BY <2>1, <2>5, <2>8, <3>1 DEF Id, ServeAssumption, ConnRec
    <3>3. PICK y : y = [x EXCEPT !.seq = i, !.ndjson = b, !.keepAlive = v]
      OBVIOUS
    <3>4. /\ y \in ConnRec /\ y.req = None /\ y.seq = i /\ y.write = <<>> /\ y.at = 0
          /\ ~y.done /\ y.ndjson = b /\ ~y.cut /\ ~y.finalized /\ y.taken = k.taken
          /\ y.last = k.last /\ y.read = k.read /\ y.keepAlive = k.keepAlive
          /\ y.streamed = 0
      BY <2>8, <3>2, <3>3 DEF ConnRec
    <3>5. Typed(y) /\ InLine(c, y) /\ Len(y.write) = 0
      BY <2>2, <2>5, <3>4 DEF Typed, InLine
    <3>6. CASE b
      <4>1. PICK p : p = Answer(k.taken, "head", 0, 0)
        OBVIOUS
      <4>2. p \in Piece /\ p.part = "head" /\ p.of = k.taken /\ p.upto = 0
        BY <2>8, <4>1 DEF Answer, Piece
      <4>3. PICK z : z = IF r.kind = "stream" THEN QueueStream(y, p) ELSE Overrun(y)
        OBVIOUS
      <4>4. Queued(z, y, p)
        BY <3>4, <3>5, <4>2, <4>3, QueueStreamQueues, OverrunQueues
      <4>5. AdmitConn(c) = z
        <5>1. CASE r.kind = "stream"
          BY <5>1, <1>1, <1>3, <2>4, <2>7, <2>8, <2>10, <3>1, <3>3, <3>6, <4>1, <4>3 DEF AdmitConn
        <5>2. CASE r.kind = "echo"
          BY <5>2, <1>1, <1>3, <2>4, <2>7, <2>8, <2>10, <3>1, <3>3, <3>6, <4>1, <4>3 DEF AdmitConn
        <5> QED BY <3>1, <3>6, <5>1, <5>2
      <4>6. Follows(c, Spoken(y, Len(y.write) + 1), p)
        <5>1. Spoken(y, Len(y.write) + 1) = k.last
          BY <3>4, <3>5 DEF Spoken
        <5> QED BY <2>6, <4>2, <5>1
      <4>7. InLine(c, z) /\ (~z.done => Spoken(z, Len(z.write) + 1) = p)
        BY <3>5, <4>2, <4>4, <4>6, QueueTold
      <4>8. /\ z.read = k.read /\ z.req = None /\ z.seq # None /\ z.ndjson
            /\ z.streamed = 0 /\ z.keepAlive = k.keepAlive /\ z.taken = k.taken
            /\ ~z.done => ~z.cut
        BY <3>2, <3>4, <3>6, <4>4 DEF Queued, SameTalk
      <4>9. Buffered(c, z, g)
        BY <2>3, <4>8 DEF Buffered
      <4>10. Alive(c, z)
        BY <2>3, <4>8 DEF Alive, Continued
      <4>11. ~z.done => Streams(z)
        BY <4>2, <4>7, <4>8 DEF Streams
      <4> QED BY <4>5, <4>7, <4>8, <4>9, <4>10, <4>11 DEF Told
    <3>7. CASE ~b
      <4>1. AdmitConn(c) = y
        BY <1>1, <1>3, <2>4, <2>7, <2>8, <2>10, <3>1, <3>3, <3>7 DEF AdmitConn
      <4>2. Buffered(c, y, g)
        BY <2>3, <3>4 DEF Buffered
      <4>3. Alive(c, y) /\ Streams(y)
        BY <2>3, <3>2, <3>4, <3>7 DEF Alive, Continued, Streams
      <4> QED BY <3>4, <3>5, <4>1, <4>2, <4>3 DEF Told
    <3> QED BY <3>2, <3>6, <3>7
  <2> QED BY <2>9, <2>10
<1> QED BY <1>2, <1>3

(* What a stream has made and not told yet. *)
LEMMA StreamTold ==
  ASSUME ServeAssumption, EngineOK, NEW c \in Conns, NEW g, Good(c, conn[c]),
         Told(c, conn[c], g),
         conn[c].seq # None /\ conn[c].ndjson /\ ~conn[c].done =>
           conn[c].streamed <= seqs[conn[c].seq].made
  PROVE  /\ Told(c, StreamConn(c), g)
         /\ LET r == StreamConn(c)
            IN  r.seq # None /\ r.ndjson /\ ~r.done => r.streamed = seqs[r.seq].made
<1>1. PICK k : k = conn[c]
  OBVIOUS
<1>2. k \in ConnRec /\ Typed(k) /\ Shape(k) /\ Named(c, k) /\ Told(c, k, g)
  BY <1>1 DEF Good, Sound, Typed
<1>3. k.seq # None => k.seq \in DOMAIN seqs /\ seqs[k.seq].made \in 0 .. MaxTokens
  BY <1>1 DEF EngineOK, EngineSeq
<1>4. CASE \/ k.done \/ ~k.ndjson \/ k.finalized \/ k.seq \notin DOMAIN seqs
           \/ seqs[k.seq].made <= k.streamed
  <2>1. StreamConn(c) = k
    BY <1>1, <1>4 DEF StreamConn
  <2>2. ASSUME k.seq # None, k.ndjson, ~k.done PROVE k.streamed = seqs[k.seq].made
    <3>1. PICK m, n : m = seqs[k.seq].made /\ n = k.streamed
      OBVIOUS
    <3>2. m \in Nat /\ n \in Nat /\ m <= n /\ n <= m
      BY <1>1, <1>2, <1>3, <1>4, <2>2, <3>1 DEF Shape, ConnRec, ServeAssumption
    <3> QED BY <3>1, <3>2
  <2> QED BY <1>2, <2>1, <2>2
<1>5. CASE ~(\/ k.done \/ ~k.ndjson \/ k.finalized \/ k.seq \notin DOMAIN seqs
             \/ seqs[k.seq].made <= k.streamed)
  <2>1. PICK m : m = seqs[k.seq].made
    OBVIOUS
  <2>2. k.seq # None /\ m \in 0 .. MaxTokens /\ k.ndjson /\ ~k.done
    BY <1>1, <1>5, <2>1 DEF EngineOK, EngineSeq
  <2>3. /\ k.req = None /\ k.streamed \in Nat /\ k.taken \in Nat /\ k.seq[2] = k.taken
    BY <1>2, <2>2 DEF Shape, Named, ConnRec
  <2>4. PICK p : p = Answer(k.seq[2], "tokens", k.streamed + 1, m)
    OBVIOUS
  <2>5. /\ p \in Piece /\ p.part = "tokens" /\ p.of = k.taken /\ p.upto = m
        /\ p.from = k.streamed + 1
    BY <2>2, <2>3, <2>4 DEF Answer, Piece, ServeAssumption
  <2>6. PICK x : x = QueueStream(k, p)
    OBVIOUS
  <2>7. Queued(x, k, p)
    BY <1>2, <2>2, <2>5, <2>6, QueueStreamQueues
  <2>8. InLine(c, k) /\ Buffered(c, k, g) /\ Alive(c, k) /\ Streams(k)
    BY <1>2, <2>2 DEF Told
  <2>9. Follows(c, Spoken(k, Len(k.write) + 1), p)
    <3>1. PICK t : t = Spoken(k, Len(k.write) + 1)
      OBVIOUS
    <3>2. t.part \in {"head", "tokens"} /\ t.of = k.taken /\ t.upto = k.streamed
      BY <2>2, <2>8, <3>1 DEF Streams
    <3>3. Follows(c, t, p)
      BY <2>5, <3>2 DEF Follows
    <3> QED BY <3>1, <3>3
  <2>10. InLine(c, x) /\ (~x.done => Spoken(x, Len(x.write) + 1) = p)
    BY <1>2, <2>5, <2>7, <2>8, <2>9, QueueTold
  <2>11. PICK r : r = [x EXCEPT !.streamed = m]
    OBVIOUS
  <2>12. StreamConn(c) = r
    BY <1>1, <1>5, <2>1, <2>4, <2>6, <2>11 DEF StreamConn
  <2>13. /\ r.write = x.write /\ r.at = x.at /\ r.last = x.last /\ r.done = x.done
         /\ r.read = k.read /\ r.req = None /\ r.seq = k.seq /\ r.ndjson
         /\ r.streamed = m /\ r.keepAlive = k.keepAlive /\ r.taken = k.taken
         /\ r.cut = x.cut
    BY <2>2, <2>3, <2>7, <2>11 DEF ConnRec, Queued, SameTalk
  <2>14. \A i : Spoken(r, i) = Spoken(x, i)
    BY <2>13 DEF Spoken
  <2>15. InLine(c, r)
    BY <2>10, <2>13, <2>14 DEF InLine
  <2>16. Buffered(c, r, g)
    BY <2>8, <2>13 DEF Buffered
  <2>17. Alive(c, r)
    BY <2>2, <2>8, <2>13 DEF Alive, Continued
  <2>18. ~r.done => Streams(r)
    BY <2>5, <2>10, <2>13, <2>14 DEF Streams
  <2> QED BY <2>1, <2>12, <2>13, <2>15, <2>16, <2>17, <2>18 DEF Told
<1> QED BY <1>4, <1>5

(* The end of an answer: everything its sequence made has been told. *)
LEMMA FinishSeqTold ==
  ASSUME ServeAssumption, EngineOK, NEW c \in Ready, PlacesOK, NEW g, Good(c, conn[c]),
         Told(c, conn[c], g),
         conn[c].ndjson => conn[c].streamed = seqs[conn[c].seq].made
  PROVE  Told(c, FinishSeq(c), g)
<1>1. PICK k : k = conn[c]
  OBVIOUS
<1>2. PICK m : m = seqs[k.seq].made
  OBVIOUS
<1>3. /\ k.seq # None /\ m \in 0 .. MaxTokens /\ m \in Nat /\ ~k.done
      /\ IF k.ndjson THEN ~k.finalized ELSE k.write = <<>>
  BY <1>1, <1>2 DEF Ready, EngineOK, EngineSeq, ServeAssumption
<1>4. /\ k \in ConnRec /\ Typed(k) /\ Shape(k) /\ Named(c, k) /\ k.req = None
      /\ k.taken \in Nat /\ k.seq[2] = k.taken /\ ~k.finalized
  BY <1>1, <1>3 DEF Good, Sound, Shape, Named, Typed, ConnRec
<1>5. Tells(k) /\ InLine(c, k) /\ Buffered(c, k, g) /\ Alive(c, k) /\ Streams(k)
  BY <1>1, <1>3 DEF Good, Sound, Told
<1>6. CASE ~k.ndjson
  <2>1. PICK p : p = Answer(k.seq[2], "whole", 0, m)
    OBVIOUS
  <2>2. p \in Piece /\ p.part = "whole" /\ p.of = k.taken
    BY <1>3, <1>4, <2>1 DEF Answer, Piece
  <2>3. <<p>> # <<>> /\ <<p>> \in Seq(Piece)
    BY <2>2
  <2>4. PICK r : r = [k EXCEPT !.write = <<p>>, !.at = 0, !.seq = None]
    OBVIOUS
  <2>5. FinishSeq(c) = r
    BY <1>1, <1>2, <1>6, <2>1, <2>4 DEF FinishSeq
  <2>6. /\ r.read = k.read /\ r.req = None /\ r.seq = None /\ r.write = <<p>> /\ r.at = 0
        /\ ~r.ndjson /\ r.cut = k.cut /\ r.taken = k.taken /\ r.last = k.last
        /\ r.keepAlive = k.keepAlive /\ r.streamed = k.streamed
    BY <1>4, <1>6, <2>3, <2>4 DEF ConnRec
  <2>7. k.write = <<>> /\ ~k.cut
    BY <1>3, <1>5, <1>6 DEF Streams
  <2>8. Closes(k.last) /\ k.last.of + 1 = k.taken /\ k.last.part # "error"
    BY <1>3, <1>5, <1>6, <2>7 DEF Tells, Owes, Tip, InLine
  <2>9. Follows(c, k.last, p)
    <3>1. Continued(c, k)
      BY <1>5 DEF Alive
    <3> QED BY <1>4, <2>2, <2>8, <3>1, AnswerFollows
  <2>10. InLine(c, r)
    BY <2>2, <2>6, <2>8, <2>9, OnePiece
  <2>11. Buffered(c, r, g)
    BY <1>5, <2>6 DEF Buffered
  <2>12. Alive(c, r) /\ Streams(r)
    BY <1>5, <1>6, <2>3, <2>6 DEF Alive, Continued, Streams
  <2> QED BY <2>5, <2>10, <2>11, <2>12 DEF Told
<1>7. CASE k.ndjson
  <2>1. PICK p, q : /\ p = Answer(k.seq[2], "last", 0, m)
                    /\ q = Answer(k.seq[2], "end", 0, m)
    OBVIOUS
  <2>2. /\ p \in Piece /\ p.part = "last" /\ p.of = k.taken /\ p.upto = k.streamed
        /\ q \in Piece /\ q.part = "end" /\ q.of = k.taken
    BY <1>1, <1>2, <1>3, <1>4, <1>7, <2>1 DEF Answer, Piece
  <2>3. PICK x : x = QueueStream(k, p)
    OBVIOUS
  <2>4. Queued(x, k, p)
    BY <1>3, <1>4, <2>2, <2>3, QueueStreamQueues
  <2>5. PICK y : y = QueueStream(x, q)
    OBVIOUS
  <2>6. PICK r : r = [y EXCEPT !.finalized = TRUE, !.seq = None]
    OBVIOUS
  <2>7. FinishSeq(c) = r
    BY <1>1, <1>2, <1>7, <2>1, <2>3, <2>5, <2>6 DEF FinishSeq
  <2>8. Follows(c, Spoken(k, Len(k.write) + 1), p)
    <3>1. PICK t : t = Spoken(k, Len(k.write) + 1)
      OBVIOUS
    <3>2. t.part \in {"head", "tokens"} /\ t.of = k.taken /\ t.upto = k.streamed
      BY <1>3, <1>5, <1>7, <3>1 DEF Streams
    <3>3. Follows(c, t, p)
      BY <2>2, <3>2 DEF Follows
    <3> QED BY <3>1, <3>3
  <2>9. InLine(c, x) /\ (~x.done => Spoken(x, Len(x.write) + 1) = p)
    BY <1>4, <1>5, <2>2, <2>4, <2>8, QueueTold
  <2>10. Typed(x)
    <3>1. x \in ConnRec /\ x.at = 0 /\ x.write \in Seq(Piece)
      BY <2>4 DEF Queued, ConnRec
    <3> QED BY <3>1, LenProperties DEF Typed
  <2>11. /\ y \in ConnRec /\ InLine(c, y) /\ y.ndjson /\ y.req = None /\ y.read = k.read
         /\ y.taken = k.taken /\ y.keepAlive = k.keepAlive /\ (y.done \/ y.write # <<>>)
    <3>1. CASE x.done
      <4>1. y = x
        BY <2>5, <3>1 DEF QueueStream
      <4> QED BY <1>4, <1>7, <2>4, <2>9, <3>1, <4>1 DEF Queued, SameTalk
    <3>2. CASE ~x.done
      <4>1. Queued(y, x, q)
        BY <2>2, <2>5, <2>10, <3>2, QueueStreamQueues
      <4>2. Follows(c, p, q)
        BY <2>2 DEF Follows
      <4>3. InLine(c, y)
        BY <2>2, <2>9, <2>10, <3>2, <4>1, <4>2, QueueTold
      <4> QED BY <1>4, <1>7, <2>4, <4>1, <4>3 DEF Queued, SameTalk
    <3> QED BY <3>1, <3>2
  <2>12. /\ r.write = y.write /\ r.at = y.at /\ r.last = y.last /\ r.done = y.done
         /\ r.read = k.read /\ r.req = None /\ r.seq = None /\ r.ndjson
         /\ r.keepAlive = k.keepAlive /\ r.taken = k.taken
    BY <2>6, <2>11 DEF ConnRec
  <2>13. \A i : Spoken(r, i) = Spoken(y, i)
    BY <2>12 DEF Spoken
  <2>14. InLine(c, r)
    BY <2>11, <2>12, <2>13 DEF InLine
  <2>15. Buffered(c, r, g)
    BY <1>5, <2>12 DEF Buffered
  <2>16. ~r.done => Alive(c, r)
    BY <1>5, <2>11, <2>12 DEF Alive, Continued
  <2>17. Streams(r)
    BY <2>12 DEF Streams
  <2> QED BY <2>7, <2>14, <2>15, <2>16, <2>17 DEF Told
<1> QED BY <1>6, <1>7

-----------------------------------------------------------------------------
(* The steps. *)

(* No step changes what a client sends. *)
LEMMA FollowsStays ==
  ASSUME UNCHANGED script, NEW c
  PROVE  /\ \A n : Asked(c, n)' = Asked(c, n)
         /\ \A n : KeepsAlive(c, n)' <=> KeepsAlive(c, n)
         /\ \A p, q : Follows(c, p, q)' <=> Follows(c, p, q)
<1>1. \A n : Asked(c, n)' = Asked(c, n)
  BY DEF Asked
<1>2. \A n : KeepsAlive(c, n)' <=> KeepsAlive(c, n)
  BY <1>1 DEF KeepsAlive
<1>3. \A p, q : Follows(c, p, q)' <=> Follows(c, p, q)
  BY <1>2 DEF Follows
<1> QED BY <1>1, <1>2, <1>3

LEMMA LineStays ==
  ASSUME UNCHANGED script, NEW c, NEW k, InLine(c, k), conn'[c] = k
  PROVE  InLine(c, conn[c])'
<1>1. \A p, q : Follows(c, p, q)' <=> Follows(c, p, q)
  BY FollowsStays
<1> QED BY <1>1 DEF InLine, Spoken

LEMMA ToldStays ==
  ASSUME UNCHANGED script, NEW c, NEW k, NEW g, Told(c, k, g), conn'[c] = k, got'[c] = g
  PROVE  Told(c, conn[c], got[c])'
<1>1. InLine(c, conn[c])'
  BY LineStays DEF Told
<1>2. ASSUME ~k.done
      PROVE  Buffered(c, conn[c], got[c])' /\ Alive(c, conn[c])' /\ Streams(conn[c])'
  <2>1. Buffered(c, k, g) /\ Alive(c, k) /\ Streams(k)
    BY <1>2 DEF Told
  <2>2. (\A n : Asked(c, n)' = Asked(c, n)) /\ (\A n : KeepsAlive(c, n)' <=> KeepsAlive(c, n))
    BY FollowsStays
  <2>3. Buffered(c, conn[c], got[c])'
    BY <2>1, <2>2 DEF Buffered
  <2>4. Alive(c, conn[c])'
    BY <2>1, <2>2 DEF Alive, Continued
  <2>5. Streams(conn[c])'
    BY <2>1 DEF Streams, Spoken
  <2> QED BY <2>3, <2>4, <2>5
<1> QED BY <1>1, <1>2 DEF Told

LEMMA ScriptOf ==
  ASSUME ServeAssumption, IInv, NEW c \in Conns
  PROVE  Scripted(c, got[c])
<1>1. script[c] \in Text /\ got[c] \in 0 .. Len(script[c])
  BY DEF IInv, ScriptsOK, ServeAssumption, Text
<1> QED BY <1>1, LenProperties, ElementOfSeq DEF Scripted, Text

(* A step that changes one open connection. *)
LEMMA TellOne ==
  ASSUME IInv, TellsInOrder, NEW c \in Range(open), NEW k, NEW g, Told(c, k, g),
         SameStream(k, conn[c]), conn' = [conn EXCEPT ![c] = k],
         got'[c] = g, \A d \in Conns : d # c => got'[d] = got[d],
         UNCHANGED <<open, arrived, script, seqs>>, stage' # "harvest"
  PROVE  TellsInOrder'
<1>1. c \in Conns /\ c \in arrived /\ DOMAIN conn = Conns /\ Range(open) \subseteq Conns
  BY DEF IInv, PlacesOK, ConnsOK
<1>2. conn'[c] = k /\ \A d \in Conns : d # c => conn'[d] = conn[d]
  BY <1>1
<1>3. ASSUME NEW d \in Range(open) PROVE Told(d, conn[d], got[d])'
  <2>1. PICK x, h : x = conn'[d] /\ h = got'[d]
    OBVIOUS
  <2>2. Told(d, x, h)
    BY <1>1, <1>2, <2>1 DEF TellsInOrder
  <2> QED BY <2>1, <2>2, ToldStays
<1>4. ASSUME NEW d \in Conns \ Range(open) PROVE InLine(d, conn[d])'
  <2>1. PICK x : x = conn'[d]
    OBVIOUS
  <2>2. InLine(d, x)
    BY <1>2, <2>1 DEF TellsInOrder
  <2> QED BY <2>1, <2>2, LineStays
<1>5. \A d \in Conns \ arrived : got'[d] = 0
  BY <1>1 DEF TellsInOrder
<1>6. StreamsMade'
  <2>1. \A d \in Range(open) :
          conn'[d].seq # None /\ conn'[d].ndjson /\ ~conn'[d].done =>
            conn'[d].streamed <= seqs[conn'[d].seq].made
    <3>1. TAKE d \in Range(open)
    <3>2. SameStream(conn'[d], conn[d])
      BY <1>1, <1>2 DEF SameStream
    <3> QED BY <3>2 DEF SameStream, TellsInOrder, StreamsMade
  <2> QED BY <2>1 DEF StreamsMade
<1> QED BY <1>3, <1>4, <1>5, <1>6 DEF TellsInOrder

(* A step that changes what some open connections hold; f is what it leaves. *)
LEMMA TellMany ==
  ASSUME IInv, TellsInOrder, NEW f, conn' = f, UNCHANGED <<open, arrived, script, got>>,
         \A c \in Range(open) : Told(c, f[c], got[c]),
         \A c \in Conns \ Range(open) : f[c] = conn[c],
         StreamsMade'
  PROVE  TellsInOrder'
<1>1. ASSUME NEW c \in Range(open) PROVE Told(c, conn[c], got[c])'
  <2>1. PICK x, h : x = conn'[c] /\ h = got'[c]
    OBVIOUS
  <2>2. Told(c, x, h)
    BY <2>1
  <2> QED BY <2>1, <2>2, ToldStays
<1>2. ASSUME NEW c \in Conns \ Range(open) PROVE InLine(c, conn[c])'
  <2>1. PICK x : x = conn'[c]
    OBVIOUS
  <2>2. InLine(c, x)
    BY <2>1 DEF TellsInOrder
  <2> QED BY <2>1, <2>2, LineStays
<1> QED BY <1>1, <1>2 DEF TellsInOrder

(* reap forgets what a connection that is done had to send. *)
LEMMA TellReaped ==
  ASSUME ServeAssumption, IInv, IInv', TellsInOrder, NEW f, NEW engine, Reaped(f, engine),
         UNCHANGED <<arrived, script, got>>, stage' # "harvest",
         \A c \in Range(open) : Told(c, f[c], got[c]),
         \A c \in Conns \ Range(open) : f[c] = conn[c],
         \A c \in Range(open) :
           f[c].seq # None /\ f[c].ndjson /\ ~f[c].done =>
             f[c].streamed <= engine[f[c].seq].made
  PROVE  TellsInOrder'
<1> DEFINE dead == {c \in Range(open) : f[c].done}
           kept == DOMAIN engine \ {f[c].seq : c \in dead}
<1>1. /\ open' \in Remaining(dead)
      /\ seqs' = [s \in kept |-> engine[s]]
      /\ conn' = [c \in Conns |->
           IF c \notin dead THEN f[c]
           ELSE IF f[c].cut THEN [NewConn EXCEPT !.cut = TRUE]
           ELSE [NewConn EXCEPT !.taken = f[c].taken, !.last = f[c].last]]
  BY DEF Reaped
<1>2. Range(open') = Range(open) \ dead
  BY <1>1, RemainingRange DEF IInv
<1>3. Range(open) \subseteq Conns
  BY DEF IInv, PlacesOK
<1>4. \A c \in Conns \ dead : conn'[c] = f[c]
  BY <1>1
<1>5. ASSUME NEW c \in Range(open') PROVE Told(c, conn[c], got[c])'
  <2>1. PICK x, h : x = conn'[c] /\ h = got'[c]
    OBVIOUS
  <2>2. Told(c, x, h)
    BY <1>2, <1>3, <1>4, <2>1
  <2> QED BY <2>1, <2>2, ToldStays
<1>6. ASSUME NEW c \in Conns \ Range(open') PROVE InLine(c, conn[c])'
  <2>1. PICK x : x = conn'[c]
    OBVIOUS
  <2>2. InLine(c, x)
    <3>1. CASE c \in dead
      <4>1. PICK n, p, y : n = f[c].taken /\ p = f[c].last /\ y = NewConn
        OBVIOUS
      <4>2. y \in ConnRec /\ y.write = <<>> /\ y.at = 0 /\ y.last.part = "end"
        BY <4>1, NewConnRests DEF Resting, Typed, NewConn, Before
      <4>3. p.part # "error"
        BY <3>1, <4>1 DEF Told, InLine
      <4>4. PICK u, v : u = [y EXCEPT !.cut = TRUE] /\ v = [y EXCEPT !.taken = n, !.last = p]
        OBVIOUS
      <4>5. x = u \/ x = v
        BY <1>1, <1>3, <2>1, <3>1, <4>1, <4>4
      <4>6. u.write = <<>> /\ u.at = 0 /\ u.last.part # "error"
        BY <4>2, <4>4 DEF ConnRec
      <4>7. v.write = <<>> /\ v.at = 0 /\ v.last.part # "error"
        BY <4>2, <4>3, <4>4 DEF ConnRec
      <4>8. x.write = <<>> /\ x.at = 0 /\ x.last.part # "error"
        BY <4>5, <4>6, <4>7
      <4>9. Len(x.write) = 0
        BY <4>8
      <4> QED BY <4>8, <4>9 DEF InLine
    <3>2. CASE c \notin dead
      BY <1>2, <1>4, <2>1, <3>2 DEF TellsInOrder
    <3> QED BY <3>1, <3>2
  <2> QED BY <2>1, <2>2, LineStays
<1>7. StreamsMade'
  <2>1. ASSUME NEW c \in Range(open'), conn'[c].seq # None, conn'[c].ndjson, ~conn'[c].done
        PROVE  conn'[c].streamed <= seqs'[conn'[c].seq].made
    <3>1. c \in Conns /\ c \in Range(open) /\ conn'[c] = f[c]
      BY <1>2, <1>3, <1>4
    <3>2. conn'[c].seq \in DOMAIN seqs'
      BY <2>1, <3>1 DEF IInv, EngineOK
    <3>3. f[c].seq \in kept
      BY <1>1, <3>1, <3>2
    <3>4. seqs'[f[c].seq] = engine[f[c].seq]
      BY <1>1, <3>3
    <3> QED BY <2>1, <3>1, <3>4
  <2> QED BY <2>1 DEF StreamsMade
<1>8. \A c \in Conns \ arrived' : got'[c] = 0
  BY DEF TellsInOrder
<1> QED BY <1>5, <1>6, <1>7, <1>8 DEF TellsInOrder

(* A new connection has said and read nothing. *)
LEMMA NewConnTold ==
  ASSUME ServeAssumption, NEW c
  PROVE  Told(c, NewConn, 0)
<1>1. PICK k : k = NewConn
  OBVIOUS
<1>2. /\ k.write = <<>> /\ Len(k.write) = 0 /\ k.at = 0 /\ k.last.part = "end"
      /\ k.read = <<>> /\ Len(k.read) = 0 /\ k.taken = 0 /\ ~k.keepAlive /\ k.req = None
      /\ k.seq = None /\ ~k.cut /\ ~k.ndjson /\ k.streamed = 0
  BY <1>1 DEF NewConn, Before
<1>3. Asked(c, 0) = 0
  <2>1. {i \in 1 .. 0 : script[c][i] # Part} = {}
    OBVIOUS
  <2> QED BY <2>1, FS_EmptySet DEF Asked
<1>4. Buffered(c, k, 0)
  BY <1>2, <1>3 DEF Buffered
<1>5. InLine(c, k) /\ Alive(c, k) /\ Streams(k)
  BY <1>2 DEF InLine, Alive, Continued, Streams
<1> QED BY <1>1, <1>4, <1>5 DEF Told

LEMMA AcceptTells ==
  ASSUME ServeAssumption, IInv, TellsInOrder, Accept
  PROVE  TellsInOrder'
<1>1. PICK new \in SUBSET (Conns \ arrived) :
        /\ open' \in {open \o q : q \in SetToSeqs(new)}
        /\ arrived' = arrived \cup new
  BY DEF Accept
<1>2. PICK q \in SetToSeqs(new) : open' = open \o q
  BY <1>1
<1>3. q \in Seq(new) /\ Range(q) = new
  BY FS_Subset, Enumerated DEF ServeAssumption
<1>4. q \in Seq(Conns) /\ open \in Seq(Conns)
  BY <1>3, SeqMonotonic DEF IInv, PlacesOK
<1>5. Range(open') = Range(open) \cup new
  BY <1>2, <1>3, <1>4, RangeConcatenation
<1>6. UNCHANGED <<conn, script, got, seqs>> /\ stage' = "read"
  BY DEF Accept
<1>7. \A c \in new : conn[c] = NewConn /\ got[c] = 0
  BY DEF IInv, ConnsOK, TellsInOrder
<1>8. ASSUME NEW c \in Range(open') PROVE Told(c, conn[c], got[c])'
  <2>1. PICK x, h : x = conn'[c] /\ h = got'[c]
    OBVIOUS
  <2>2. Told(c, x, h)
    BY <1>5, <1>6, <1>7, <2>1, NewConnTold DEF TellsInOrder
  <2> QED BY <1>6, <2>1, <2>2, ToldStays
<1>9. ASSUME NEW c \in Conns \ Range(open') PROVE InLine(c, conn[c])'
  <2>1. PICK x : x = conn'[c]
    OBVIOUS
  <2>2. InLine(c, x)
    BY <1>5, <1>6, <2>1 DEF TellsInOrder
  <2> QED BY <1>6, <2>1, <2>2, LineStays
<1>10. StreamsMade'
  <2>1. NewConn.seq = None
    BY DEF NewConn
  <2> QED BY <1>5, <1>6, <1>7, <2>1 DEF TellsInOrder, StreamsMade
<1> QED BY <1>1, <1>6, <1>8, <1>9, <1>10 DEF TellsInOrder

LEMMA AdmitTells ==
  ASSUME ServeAssumption, IInv, IInv', TellsInOrder, AdmitParsed
  PROVE  TellsInOrder'
<1> DEFINE a == [c \in Conns |-> AdmitConn(c)]
           added == {a[c].seq : c \in Conns} \ (DOMAIN seqs \cup {None})
           e == [s \in DOMAIN seqs \cup added |->
                   IF s \notin added THEN seqs[s]
                   ELSE [made |-> 0, predict |-> conn[s[1]].req.predict, finished |-> FALSE]]
<1>1. Reaped(a, e) /\ stage' = "step" /\ UNCHANGED <<arrived, script, got>>
  BY DEF AdmitParsed
<1>2. PICK f, engine : f = a /\ engine = e
  OBVIOUS
<1>3. Range(open) \subseteq Conns
  BY DEF IInv, PlacesOK
<1>4. ASSUME NEW c \in Range(open)
      PROVE  /\ Told(c, f[c], got[c])
             /\ f[c].seq # None /\ f[c].ndjson /\ ~f[c].done =>
                  f[c].streamed <= engine[f[c].seq].made
  <2>1. c \in Conns /\ Good(c, conn[c]) /\ Told(c, conn[c], got[c]) /\ f[c] = AdmitConn(c)
    BY <1>2, <1>3 DEF IInv, ConnsOK, TellsInOrder
  <2>2. /\ Told(c, f[c], got[c])
        /\ SameStream(f[c], conn[c]) \/ f[c].streamed = 0
    BY <2>1, AdmitTold
  <2>3. ASSUME f[c].seq # None, f[c].ndjson, ~f[c].done
        PROVE  f[c].streamed <= engine[f[c].seq].made
    <3>1. PICK s : s = f[c].seq
      OBVIOUS
    <3>2. s = a[c].seq /\ s # None
      BY <1>2, <2>3, <3>1
    <3>3. s \in DOMAIN seqs \/ s \in added
      BY <2>1, <3>2
    <3>4. CASE s \in DOMAIN seqs
      <4>1. engine[s] = seqs[s]
        BY <1>2, <3>4
      <4>2. seqs[s].made \in Nat
        BY <3>4 DEF IInv, EngineOK, EngineSeq, ServeAssumption
      <4>3. SameStream(f[c], conn[c]) => f[c].streamed <= seqs[s].made
        BY <2>3, <3>1 DEF SameStream, TellsInOrder, StreamsMade
      <4> QED BY <2>2, <3>1, <4>1, <4>2, <4>3
    <3>5. CASE s \in added
      <4>1. s \notin DOMAIN seqs
        BY <3>5
      <4>2. ~SameStream(f[c], conn[c])
        BY <2>1, <2>3, <3>1, <4>1 DEF SameStream, IInv, EngineOK
      <4>3. f[c].streamed = 0
        BY <2>2, <4>2
      <4>4. PICK p : p = conn[s[1]].req.predict
        OBVIOUS
      <4>5. engine[s] = [made |-> 0, predict |-> p, finished |-> FALSE]
        BY <1>2, <3>5, <4>4
      <4>6. engine[s].made = 0
        BY <4>5
      <4> QED BY <3>1, <4>3, <4>6
    <3> QED BY <3>3, <3>4, <3>5
  <2> QED BY <2>2, <2>3
<1>5. \A c \in Conns \ Range(open) : f[c] = conn[c]
  <2>1. TAKE c \in Conns \ Range(open)
  <2>2. conn[c].req = None
    BY DEF IInv, ConnsOK, Absent
  <2> QED BY <1>2, <2>2 DEF AdmitConn, CanAdmit
<1> HIDE DEF a, e
<1> QED BY <1>1, <1>2, <1>4, <1>5, TellReaped

LEMMA StreamTells ==
  ASSUME ServeAssumption, IInv, IInv', TellsInOrder, StreamProgress
  PROVE  TellsInOrder'
<1>1. PICK f : f = [c \in Conns |-> StreamConn(c)]
  OBVIOUS
<1>2. /\ conn' = f /\ stage' = "harvest"
      /\ UNCHANGED <<turn, open, arrived, script, got, seqs>>
  BY <1>1 DEF StreamProgress
<1>3. \A c \in Range(open) :
        /\ Told(c, f[c], got[c])
        /\ f[c].seq # None /\ f[c].ndjson /\ ~f[c].done => f[c].streamed = seqs[f[c].seq].made
  <2>1. TAKE c \in Range(open)
  <2>2. /\ c \in Conns /\ Good(c, conn[c]) /\ EngineOK /\ Told(c, conn[c], got[c])
        /\ conn[c].seq # None /\ conn[c].ndjson /\ ~conn[c].done =>
             conn[c].streamed <= seqs[conn[c].seq].made
    BY DEF IInv, PlacesOK, ConnsOK, TellsInOrder, StreamsMade
  <2>3. f[c] = StreamConn(c)
    BY <1>1, <2>2
  <2> QED BY <2>2, <2>3, StreamTold
<1>4. \A c \in Conns \ Range(open) : f[c] = conn[c]
  <2>1. TAKE c \in Conns \ Range(open)
  <2>2. ~conn[c].ndjson
    BY DEF IInv, ConnsOK, Absent
  <2> QED BY <1>1, <2>2 DEF StreamConn
<1>5. StreamsMade'
  <2>1. ASSUME NEW c \in Range(open), f[c].seq # None
        PROVE  seqs[f[c].seq].made \in Nat
    <3>1. c \in Conns
      BY DEF IInv, PlacesOK
    <3>2. f[c].seq \in DOMAIN seqs
      BY <1>2, <2>1, <3>1 DEF IInv, EngineOK
    <3> QED BY <3>2 DEF IInv, EngineOK, EngineSeq, ServeAssumption
  <2>2. ASSUME NEW c \in Range(open), f[c].seq # None, f[c].ndjson, ~f[c].done
        PROVE  f[c].streamed <= seqs[f[c].seq].made /\ f[c].streamed = seqs[f[c].seq].made
    <3>1. PICK m : m = seqs[f[c].seq].made
      OBVIOUS
    <3>2. m \in Nat /\ f[c].streamed = m
      BY <1>3, <2>1, <2>2, <3>1
    <3> QED BY <3>1, <3>2
  <2> QED BY <1>2, <2>2 DEF StreamsMade
<1> QED BY <1>2, <1>3, <1>4, <1>5, TellMany

LEMMA HarvestTells ==
  ASSUME ServeAssumption, IInv, IInv', TellsInOrder, Harvest
  PROVE  TellsInOrder'
<1>1. PICK f : f = [c \in Conns |-> IF c \in Ready THEN FinishSeq(c) ELSE conn[c]]
  OBVIOUS
<1>2. /\ conn' = f /\ stage' = "write" /\ stage = "harvest"
      /\ UNCHANGED <<turn, open, arrived, script, got>>
      /\ seqs' = [s \in DOMAIN seqs \ {conn[c].seq : c \in Ready} |-> seqs[s]]
  BY <1>1 DEF Harvest
<1>3. Ready \subseteq Range(open) /\ Range(open) \subseteq Conns
  BY DEF Ready, IInv, PlacesOK
<1>4. \A c \in Ready : Told(c, f[c], got[c]) /\ f[c].seq = None
  <2>1. TAKE c \in Ready
  <2>2. /\ Good(c, conn[c]) /\ EngineOK /\ PlacesOK /\ Told(c, conn[c], got[c])
        /\ f[c] = FinishSeq(c)
    BY <1>1, <1>3 DEF IInv, ConnsOK, TellsInOrder
  <2>3. conn[c].ndjson => conn[c].streamed = seqs[conn[c].seq].made
    <3>1. conn[c].seq # None /\ ~conn[c].done
      BY DEF Ready, IInv, EngineOK
    <3> QED BY <1>2, <1>3, <3>1 DEF TellsInOrder, StreamsMade
  <2> QED BY <2>2, <2>3, FinishSeqTold, FinishSeqGood
<1>5. \A c \in Conns \ Ready : f[c] = conn[c]
  BY <1>1
<1>6. \A c \in Range(open) : Told(c, f[c], got[c])
  BY <1>3, <1>4, <1>5 DEF TellsInOrder
<1>7. StreamsMade'
  <2>1. ASSUME NEW c \in Range(open), f[c].seq # None, f[c].ndjson, ~f[c].done
        PROVE  f[c].streamed <= seqs'[f[c].seq].made
    <3>1. f[c] = conn[c] /\ c \in Conns
      BY <1>3, <1>4, <1>5, <2>1
    <3>2. f[c].seq \in DOMAIN seqs'
      BY <1>2, <2>1, <3>1 DEF IInv, EngineOK
    <3>3. seqs'[f[c].seq] = seqs[f[c].seq]
      BY <1>2, <3>2
    <3> QED BY <2>1, <3>1, <3>3 DEF TellsInOrder, StreamsMade
  <2> QED BY <1>2, <2>1 DEF StreamsMade
<1> QED BY <1>2, <1>3, <1>5, <1>6, <1>7, TellMany

LEMMA EngineTells ==
  ASSUME ServeAssumption, IInv, TellsInOrder, StepIfBusy
  PROVE  TellsInOrder'
<1> DEFINE running == {s \in DOMAIN seqs : ~seqs[s].finished}
<1>1. PICK runs \in SUBSET {s \in running : seqs[s].made < seqs[s].predict},
           ends \in SUBSET running :
        seqs' = [s \in DOMAIN seqs |->
                   [seqs[s] EXCEPT !.made = IF s \in runs THEN @ + 1 ELSE @,
                                   !.finished = @ \/ s \in ends]]
  BY DEF StepIfBusy
<1>2. UNCHANGED <<turn, open, conn, arrived, script, got>> /\ stage' = "stream"
  BY DEF StepIfBusy
<1>3. ASSUME NEW s \in DOMAIN seqs
      PROVE  seqs[s].made \in Nat /\ seqs'[s].made \in Nat /\ seqs[s].made <= seqs'[s].made
  <2>1. PICK q, m, b : /\ q = seqs[s] /\ m = (IF s \in runs THEN q.made + 1 ELSE q.made)
                       /\ b = (q.finished \/ s \in ends)
    OBVIOUS
  <2>2. q \in EngineSeq /\ q.made \in Nat
    BY <2>1 DEF IInv, EngineOK, EngineSeq, ServeAssumption
  <2>3. seqs'[s] = [q EXCEPT !.made = m, !.finished = b]
    BY <1>1, <2>1, <2>2 DEF EngineSeq
  <2>4. seqs'[s].made = m /\ m \in Nat /\ q.made <= m
    BY <2>1, <2>2, <2>3 DEF EngineSeq
  <2> QED BY <2>1, <2>2, <2>4
<1>4. StreamsMade'
  <2>1. ASSUME NEW c \in Range(open), conn[c].seq # None, conn[c].ndjson, ~conn[c].done
        PROVE  conn[c].streamed <= seqs'[conn[c].seq].made
    <3>1. conn[c].seq \in DOMAIN seqs
      BY <2>1 DEF IInv, PlacesOK, EngineOK
    <3>2. PICK n, m, x : n = conn[c].streamed /\ m = seqs[conn[c].seq].made
                         /\ x = seqs'[conn[c].seq].made
      OBVIOUS
    <3>3. n \in Nat
      <4>1. n \in 0 .. MaxTokens
        BY <3>2 DEF IInv, ConnsOK, Good, Sound, Typed, ConnRec
      <4> QED BY <4>1 DEF ServeAssumption
    <3>4. n <= m /\ m \in Nat /\ x \in Nat /\ m <= x
      BY <1>3, <2>1, <3>1, <3>2 DEF TellsInOrder, StreamsMade
    <3> QED BY <3>2, <3>3, <3>4
  <2> QED BY <1>2, <2>1 DEF StreamsMade
<1>5. PICK f : f = conn
  OBVIOUS
<1> QED BY <1>2, <1>4, <1>5, TellMany DEF TellsInOrder

LEMMA ExpireTells ==
  ASSUME ServeAssumption, IInv, TellsInOrder, NEW c \in Conns, Expire(c)
  PROVE  TellsInOrder'
<1>1. c \in Range(open)
  BY OpenElement DEF Expire, IInv
<1>2. PICK k \in ExpireConn(c) : conn' = [conn EXCEPT ![c] = k]
  BY DEF Expire
<1>3. PICK g : g = got[c]
  OBVIOUS
<1>4. Told(c, k, g) /\ SameStream(k, conn[c])
  BY <1>1, <1>3, ExpireTold DEF IInv, ConnsOK, TellsInOrder
<1>5. UNCHANGED <<open, arrived, script, seqs, got>> /\ stage' = "expire"
  BY DEF Expire, Others
<1> QED BY <1>1, <1>2, <1>3, <1>4, <1>5, TellOne

LEMMA ReadTells ==
  ASSUME ServeAssumption, IInv, TellsInOrder, NEW c \in Conns, Read(c)
  PROVE  TellsInOrder'
<1>1. c \in Range(open)
  BY OpenElement DEF Read, IInv
<1>2. PICK o \in ReadConn(c) : conn' = [conn EXCEPT ![c] = o[1]] /\ got' = [got EXCEPT ![c] = o[2]]
  BY DEF Read
<1>3. PICK k, g : k = o[1] /\ g = o[2]
  OBVIOUS
<1>4. Told(c, k, g) /\ SameStream(k, conn[c])
  <2>1. /\ Good(c, conn[c]) /\ ScriptsOK /\ Scripted(c, got[c]) /\ Told(c, conn[c], got[c])
    BY <1>1, ScriptOf DEF IInv, ConnsOK, TellsInOrder
  <2> QED BY <1>3, <2>1, ReadTold
<1>5. UNCHANGED <<open, arrived, script, seqs>> /\ stage' = "read"
  BY DEF Read, Others
<1>6. conn' = [conn EXCEPT ![c] = k] /\ got'[c] = g /\ \A d \in Conns : d # c => got'[d] = got[d]
  BY <1>2, <1>3 DEF IInv
<1> QED BY <1>1, <1>4, <1>5, <1>6, TellOne

LEMMA WriteTells ==
  ASSUME ServeAssumption, IInv, TellsInOrder, NEW c \in Conns, Write(c)
  PROVE  TellsInOrder'
<1>1. c \in Range(open)
  BY OpenElement DEF Write, IInv
<1>2. PICK k \in WriteConn(c) : conn' = [conn EXCEPT ![c] = k]
  BY DEF Write
<1>3. PICK g : g = got[c]
  OBVIOUS
<1>4. Told(c, k, g) /\ SameStream(k, conn[c])
  <2>1. Good(c, conn[c]) /\ Scripted(c, g) /\ Told(c, conn[c], g)
    BY <1>1, <1>3, ScriptOf DEF IInv, ConnsOK, TellsInOrder
  <2> QED BY <2>1, WriteTold
<1>5. UNCHANGED <<open, arrived, script, seqs, got>> /\ stage' = "write"
  BY DEF Write, Others
<1> QED BY <1>1, <1>2, <1>3, <1>4, <1>5, TellOne

LEMMA ReapTells ==
  ASSUME ServeAssumption, IInv, IInv', TellsInOrder, Reap
  PROVE  TellsInOrder'
<1>1. PICK f, engine : f = conn /\ engine = seqs
  OBVIOUS
<1>2. Reaped(f, engine) /\ UNCHANGED <<arrived, script, got>> /\ stage' # "harvest"
  BY <1>1 DEF Reap
<1>3. /\ \A c \in Range(open) : Told(c, f[c], got[c])
      /\ \A c \in Conns \ Range(open) : f[c] = conn[c]
      /\ \A c \in Range(open) :
           f[c].seq # None /\ f[c].ndjson /\ ~f[c].done =>
             f[c].streamed <= engine[f[c].seq].made
  BY <1>1 DEF TellsInOrder, StreamsMade
<1> QED BY <1>2, <1>3, TellReaped

LEMMA InitTells ==
  ASSUME ServeAssumption, Init
  PROVE  TellsInOrder
<1>1. Range(open) = {}
  BY EmptySeq DEF Init, Range
<1>2. \A c \in Conns : InLine(c, conn[c])
  <2>1. TAKE c \in Conns
  <2>2. conn[c] = NewConn
    BY DEF Init
  <2> QED BY <2>2, NewConnTold DEF Told
<1>3. \A c \in Conns : got[c] = 0
  BY DEF Init
<1> QED BY <1>1, <1>2, <1>3 DEF TellsInOrder, StreamsMade

LEMMA TellNext ==
  ASSUME ServeAssumption, IInv, TellsInOrder, [Next]_vars
  PROVE  TellsInOrder'
<1>1. IInv'
  BY ServeNext
<1>2. CASE UNCHANGED <<turn, open, conn, arrived, script, got, seqs>>
           /\ stage' \in {stage, "stopped"}
  <2>1. PICK f : f = conn
    OBVIOUS
  <2>2. StreamsMade'
    BY <1>2 DEF TellsInOrder, StreamsMade
  <2>3. \A c \in Range(open) : Told(c, f[c], got[c])
    BY <2>1 DEF TellsInOrder
  <2> QED BY <1>2, <2>1, <2>2, <2>3, TellMany
<1>3. CASE UNCHANGED vars
  BY <1>2, <1>3 DEF vars
<1>4. CASE Stop
  BY <1>2, <1>4 DEF Stop
<1>5. CASE \E c \in Conns : Expire(c) \/ Read(c) \/ Write(c)
  BY <1>5, ExpireTells, ReadTells, WriteTells
<1>6. CASE Reap
  BY <1>1, <1>6, ReapTells
<1>7. CASE Accept
  BY <1>7, AcceptTells
<1>8. CASE AdmitParsed
  BY <1>1, <1>8, AdmitTells
<1>9. CASE StepIfBusy
  BY <1>9, EngineTells
<1>10. CASE StreamProgress
  BY <1>1, <1>10, StreamTells
<1>11. CASE Harvest
  BY <1>1, <1>11, HarvestTells
<1> QED BY <1>3, <1>4, <1>5, <1>6, <1>7, <1>8, <1>9, <1>10, <1>11 DEF Next

(* One piece before others. *)
LEMMA OneThen ==
  ASSUME NEW h \in Seq(Piece), Len(h) = 1, NEW u \in Seq(Piece)
  PROVE  /\ h \o u \in Seq(Piece) /\ Len(h \o u) = 1 + Len(u) /\ (h \o u)[1] = h[1]
         /\ \A m \in 2 .. 1 + Len(u) : (h \o u)[m] = u[m - 1]
<1>1. Len(u) \in Nat
  BY LenProperties
<1>2. PICK s : s = h \o u
  OBVIOUS
<1>3. /\ s \in Seq(Piece) /\ Len(s) = Len(h) + Len(u)
      /\ \A m \in 1 .. Len(h) + Len(u) : s[m] = IF m <= Len(h) THEN h[m] ELSE u[m - Len(h)]
  BY <1>2, ConcatProperties
<1>4. s[1] = h[1] /\ \A m \in 2 .. 1 + Len(u) : s[m] = u[m - 1]
  BY <1>1, <1>3
<1> QED BY <1>2, <1>3, <1>4

(* What a connection was sent last and is going to be sent. *)
Said(k) == <<k.last>> \o Unsent(k)

(* The j-th piece of s comes after the i-th, errors apart. *)
NextAnswer(s, i, j) ==
  LET Answers == {m \in DOMAIN s : s[m].part # "error"}
  IN  i \in Answers /\ j \in Answers /\ i < j /\ \A m \in Answers : m <= i \/ j <= m

(* What is in line is told in order: the answer before a piece, refusals apart, is what
   has been said before it. *)
LEMMA LineInOrder ==
  ASSUME NEW c, NEW k, Typed(k), InLine(c, k), NEW said, said = Said(k),
         NEW i, NEW j, NextAnswer(said, i, j)
  PROVE  Follows(c, said[i], said[j])
<1>1. PICK a, n, u, w : a = k.at /\ n = Len(Unsent(k)) /\ u = Unsent(k) /\ w = k.write
  OBVIOUS
<1>2. /\ a \in Nat /\ n \in Nat /\ Len(w) = a + n /\ u \in Seq(Piece) /\ Len(u) = n
      /\ \A m \in 1 .. n : u[m] = w[a + m]
  <2>1. /\ Unsent(k) \in Seq(Piece) /\ Len(Unsent(k)) = Len(k.write) - k.at
        /\ Len(k.write) \in Nat /\ k.at \in Nat
        /\ \A m \in 1 .. Len(Unsent(k)) : Unsent(k)[m] = k.write[k.at + m]
    BY UnsentSeq
  <2>2. k.at <= Len(k.write)
    BY DEF Typed
  <2> QED BY <1>1, <2>1, <2>2
<1>3. /\ DOMAIN said = 1 .. n + 1 /\ said[1] = k.last
      /\ \A m \in 2 .. n + 1 : said[m] = w[a + (m - 1)]
  <2>1. <<k.last>> \in Seq(Piece) /\ Len(<<k.last>>) = 1 /\ <<k.last>>[1] = k.last
    BY DEF Typed, ConnRec
  <2>2. PICK h : h = <<k.last>>
    OBVIOUS
  <2>3. h \in Seq(Piece) /\ Len(h) = 1 /\ h[1] = k.last /\ said = h \o u
    BY <1>1, <2>1, <2>2 DEF Said
  <2>4. /\ said \in Seq(Piece) /\ Len(said) = 1 + n /\ said[1] = h[1]
        /\ \A m \in 2 .. 1 + n : said[m] = u[m - 1]
    BY <1>2, <2>3, OneThen
  <2>5. DOMAIN said = 1 .. n + 1
    BY <1>2, <2>4, LenProperties
  <2>6. ASSUME NEW m \in 2 .. n + 1 PROVE said[m] = w[a + (m - 1)]
    <3>1. m \in 2 .. 1 + n /\ m - 1 \in 1 .. n
      BY <1>2
    <3> QED BY <1>2, <2>4, <3>1
  <2> QED BY <2>3, <2>4, <2>5, <2>6
<1>4. i \in 1 .. n /\ j \in 2 .. n + 1
  <2>1. i \in 1 .. n + 1 /\ j \in 1 .. n + 1 /\ i < j
    BY <1>3 DEF NextAnswer
  <2> QED BY <1>2, <2>1
<1>5. PICK b : b = a + (j - 1)
  OBVIOUS
<1>6. b \in a + 1 .. Len(w) /\ b \in Nat /\ said[j] = w[b]
  BY <1>2, <1>3, <1>4, <1>5
<1>7. Follows(c, Spoken(k, b), said[j])
  <2>1. said[j].part # "error"
    BY DEF NextAnswer
  <2>2. b \in k.at + 1 .. Len(k.write) /\ k.write[b] = said[j]
    BY <1>1, <1>6
  <2> QED BY <2>1, <2>2 DEF InLine
<1>8. \A m \in a + 1 .. Len(w) : w[m].part = "error" => m = 1
  BY <1>1 DEF InLine
<1>9. said[i] = Spoken(k, b)
  <2>1. CASE j = 2
    <3>1. b = a + 1
      BY <1>2, <1>5, <2>1
    <3>2. ~(b > a + 1)
      BY <1>2, <3>1
    <3>3. i = 1
      <4>1. i < j
        BY DEF NextAnswer
      <4> QED BY <1>2, <1>4, <2>1, <4>1
    <3> QED BY <1>1, <1>3, <3>2, <3>3 DEF Spoken
  <2>2. CASE j # 2
    <3>1. /\ j - 1 \in 2 .. n + 1 /\ b - 1 = a + ((j - 1) - 1) /\ b > a + 1
          /\ b - 1 \in a + 1 .. Len(w)
      BY <1>2, <1>4, <1>5, <2>2
    <3>2. said[j - 1] = w[b - 1]
      BY <1>3, <3>1
    <3>3. CASE w[b - 1].part # "error"
      <4>1. j - 1 \in DOMAIN said /\ said[j - 1].part # "error"
        BY <1>2, <1>3, <3>1, <3>2, <3>3
      <4>2. (j - 1 <= i \/ j <= j - 1) /\ i < j
        BY <4>1 DEF NextAnswer
      <4>3. i = j - 1
        BY <1>2, <1>4, <4>2
      <4> QED BY <1>1, <3>1, <3>2, <3>3, <4>3 DEF Spoken
    <3>4. CASE w[b - 1].part = "error"
      <4>1. b - 1 = 1
        BY <1>8, <3>1, <3>4
      <4>2. a = 0 /\ j = 3
        BY <1>2, <1>4, <1>5, <3>1, <4>1
      <4>3. i # 2 /\ i < j
        BY <3>2, <3>4, <4>2 DEF NextAnswer
      <4>4. i = 1
        BY <1>2, <1>4, <4>2, <4>3
      <4> QED BY <1>1, <1>3, <3>1, <3>4, <4>4 DEF Spoken
    <3> QED BY <3>3, <3>4
  <2> QED BY <2>1, <2>2
<1> QED BY <1>7, <1>9

(* On no connection is an answer skipped, told twice or torn, however requests are
   pipelined, writes split and streams cut off (Conn::try_take_request, queue_stream,
   finish_write, stream_progress and harvest). *)
THEOREM AnswersAlwaysInOrder == Spec => []AnswersInOrder
<1>1. Init => IInv /\ TellsInOrder
  BY ServeAssumption, InitServe, InitTells
<1>2. IInv /\ TellsInOrder /\ [Next]_vars => (IInv /\ TellsInOrder)'
  BY ServeAssumption, ServeNext, TellNext
<1>3. IInv /\ TellsInOrder => AnswersInOrder
  <2> SUFFICES ASSUME IInv, TellsInOrder, NEW c \in Conns, NEW i, NEW j,
                      NextAnswer(Said(conn[c]), i, j)
               PROVE  Follows(c, Said(conn[c])[i], Said(conn[c])[j])
    BY DEF AnswersInOrder, Said, NextAnswer
  <2>1. PICK k : k = conn[c]
    OBVIOUS
  <2>2. Typed(k) /\ InLine(c, k)
    BY <2>1 DEF IInv, ConnsOK, Good, Sound, TellsInOrder, Told
  <2> QED BY <2>1, <2>2, LineInOrder
<1> QED BY <1>1, <1>2, <1>3, PTL DEF Spec

=============================================================================
