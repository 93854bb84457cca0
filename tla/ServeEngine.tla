---------------------------- MODULE ServeEngine ----------------------------
(* The event-loop HTTP server around one engine (serve_engine.rs, EngineHttp).
   One thread runs `poll` for ever, its stages in order. Where the sockets or the
   clock decide (which deadlines have passed, how much is read and written, what
   fails) a step visits one connection; a stage that decides nothing is one step.
   The engine is abstract: it gives each sequence tokens and finishes it.

   Bytes are counted in fragments: a client sends parts of requests, and the
   fragment that completes a request carries what the server makes of it; an
   answer is a whole response, or the head, token chunks, last line and end of a
   chunked stream. *)
EXTENDS Integers, SequencesExt

CONSTANTS
  Conns,       \* the connections that will be opened
  Scripts,     \* what each connection's client may send: [Conns -> sets of texts]
  Part, None,  \* a fragment that completes no request; no value
  MaxTokens,   \* bound: the tokens a request may ask for
  MaxRead,     \* MAX_REQ in fragments
  ReadChunk,   \* fragments that one read of the socket may return
  MaxPending,  \* MAX_STREAM_PENDING in pieces
  MaxAccept,   \* MAX_ACCEPT_PER_POLL
  MayFail      \* whether accept, the engine or the trace file may fail

(* plain: answered at once (GET, tokenize, every 4xx, a refused add); whole and
   stream: one sequence; echo: a stream whose echoed prompt, once escaped, is by
   itself more than a stream may retain (a shorter echo belongs to the head);
   bad: refused by try_parse_http_request. *)
Request ==
  [kind : {"plain", "whole", "stream", "echo", "bad"}, keepAlive : BOOLEAN,
   predict : 0 .. MaxTokens]

Piece == [of   : Nat,    \* the connection's request it answers
          part : {"whole", "head", "tokens", "last", "end", "error"},
          from : Nat, upto : Nat]

ServeAssumption ==
  /\ IsFiniteSet(Conns)
  /\ Scripts \in [Conns -> SUBSET Seq({Part} \cup Request)]
  /\ MaxTokens \in Nat
  /\ {MaxRead, ReadChunk, MaxPending, MaxAccept} \subseteq Nat \ {0}
  /\ Part # None /\ {Part, None} \cap Request = {} /\ None \notin Conns \X Nat
  /\ MayFail \in BOOLEAN
ASSUME ServeAssumption

VARIABLES
  stage,    \* the stage of poll
  turn,     \* the position in `open` that the stage visits next
  open,     \* `conns`: the connections, in the order they were accepted
  conn,     \* the state of each connection; what it was told once closed
  arrived,  \* connections accepted so far
  script,   \* what each client sends
  got,      \* how much of it the server has read
  seqs      \* the engine: sequences added and not taken

vars == <<stage, turn, open, conn, arrived, script, got, seqs>>

-----------------------------------------------------------------------------
(* Connections. *)

Before == [of |-> 0, part |-> "end", from |-> 0, upto |-> 0]

(* `taken`, `last` and `cut` record what no field of the code does: the requests
   parsed, the last piece of an answer the socket took, and whether the server
   gave up on the connection. *)
NewConn ==
  [read |-> <<>>, req |-> None, seq |-> None, write |-> <<>>, at |-> 0,
   done |-> FALSE, ndjson |-> FALSE, streamed |-> 0, finalized |-> FALSE,
   keepAlive |-> FALSE, stalled |-> FALSE,
   taken |-> 0, last |-> Before, cut |-> FALSE]

Id == Conns \X Nat

EngineSeq == [made : 0 .. MaxTokens, predict : 0 .. MaxTokens, finished : BOOLEAN]

TypeOK ==
  /\ stage \in {"expire", "accept", "read", "admit", "step", "stream", "harvest",
                "write", "stopped"}
  /\ turn \in 1 .. Len(open) + 1
  /\ Range(open) \subseteq arrived /\ arrived \subseteq Conns
  /\ DOMAIN seqs \subseteq Id
  /\ \A s \in DOMAIN seqs : seqs[s] \in EngineSeq
  /\ \A c \in Conns :
       /\ script[c] \in Scripts[c] /\ got[c] \in 0 .. Len(script[c])
       /\ conn[c] \in
            [read : Seq({Part} \cup Request), req : Request \cup {None},
             seq : Id \cup {None}, write : Seq(Piece), at : Nat, done : BOOLEAN,
             ndjson : BOOLEAN, streamed : 0 .. MaxTokens, finalized : BOOLEAN,
             keepAlive : BOOLEAN, stalled : BOOLEAN,
             taken : Nat, last : Piece, cut : BOOLEAN]
       /\ conn[c].at <= Len(conn[c].write)

Unsent(c) == SubSeq(c.write, c.at + 1, Len(c.write))

Cut(c) == [c EXCEPT !.done = TRUE, !.cut = TRUE]

(* What a piece too many does to a stream. *)
Overrun(c) == [Cut(c) EXCEPT !.write = <<>>, !.at = 0]

Answer(n, part, from, upto) ==
  [of |-> n, part |-> part, from |-> from, upto |-> upto]

(* Mutant: what was sent is dropped from the buffer and the offset stays. *)
QueueStreamKeepsAt(c, piece) ==
  IF c.done THEN c
  ELSE IF Len(Unsent(c)) >= MaxPending
    THEN Overrun(c)
    ELSE [c EXCEPT !.write = Append(Unsent(c), piece)]

(* Mutant: what was sent stays in the buffer. *)
QueueStreamNoDrain(c, piece) ==
  IF c.done THEN c
  ELSE IF Len(Unsent(c)) >= MaxPending
    THEN Overrun(c)
    ELSE [c EXCEPT !.write = Append(@, piece)]

(* Conn::queue_stream. *)
QueueStream(c, piece) ==
  IF c.done THEN c
  ELSE IF Len(Unsent(c)) >= MaxPending
    THEN Overrun(c)
    ELSE [c EXCEPT !.write = Append(Unsent(c), piece), !.at = 0]

(* Mutant: an error leaves the connection reusable. *)
QueueErrKeepsAlive(c) ==
  [c EXCEPT !.write = <<Answer(c.taken + 1, "error", 0, 0)>>,
            !.at = 0, !.cut = TRUE]

(* queue_err. *)
QueueErr(c) ==
  [c EXCEPT !.write = <<Answer(c.taken + 1, "error", 0, 0)>>,
            !.at = 0, !.keepAlive = FALSE, !.cut = TRUE]

Complete(c) == {i \in DOMAIN c.read : c.read[i] # Part}

(* The guard of try_take_request, with a request at the front of the buffer. *)
CanTake(c) == c.seq = None /\ Complete(c) # {}

Take(c) ==
  LET i == CHOOSE i \in Complete(c) : \A j \in Complete(c) : i <= j
      r == c.read[i]
  IN  IF r.kind = "bad" THEN QueueErr(c)
      ELSE [c EXCEPT !.read = SubSeq(@, i + 1, Len(@)), !.keepAlive = r.keepAlive,
                     !.req = r, !.taken = @ + 1]

TryTake(c) == IF CanTake(c) THEN Take(c) ELSE c

(* Mutant: the next stream starts where the last one ended. *)
FinishWriteKeepsStreamed(c) ==
  IF ~c.keepAlive THEN [c EXCEPT !.done = TRUE]
  ELSE TryTake([c EXCEPT !.seq = None, !.ndjson = FALSE, !.finalized = FALSE,
                         !.req = None])

(* Mutant: the next request is left in the buffer. *)
FinishWriteUntaken(c) ==
  IF ~c.keepAlive THEN [c EXCEPT !.done = TRUE]
  ELSE [c EXCEPT !.seq = None, !.ndjson = FALSE, !.streamed = 0,
                 !.finalized = FALSE, !.req = None]

(* finish_write. *)
FinishWrite(c) ==
  IF ~c.keepAlive THEN [c EXCEPT !.done = TRUE]
  ELSE TryTake([c EXCEPT !.seq = None, !.ndjson = FALSE, !.streamed = 0,
                         !.finalized = FALSE, !.req = None])

-----------------------------------------------------------------------------
(* What the clock and the sockets may do to a connection in one poll. *)

(* Mutant: a stream has no write deadline. *)
ExpireConnUnstreamed(c) ==
  LET k == conn[c]
      readTimedOut  == k.seq = None /\ k.req = None /\ k.write = <<>>
      writeTimedOut == k.write # <<>> /\ k.stalled /\ ~k.ndjson
  IN  {k} \cup (IF readTimedOut THEN {[k EXCEPT !.done = TRUE]} ELSE {})
          \cup (IF writeTimedOut THEN {Cut(k)} ELSE {})

(* Conn::expire. Only a write that stalls is a response cut short. *)
ExpireConn(c) ==
  LET k == conn[c]
      readTimedOut  == k.seq = None /\ k.req = None /\ k.write = <<>>
      writeTimedOut == k.write # <<>> /\ k.stalled
  IN  {k} \cup (IF readTimedOut THEN {[k EXCEPT !.done = TRUE]} ELSE {})
          \cup (IF writeTimedOut THEN {Cut(k)} ELSE {})

(* read_conn: read until the socket would block, ends or fails, or there is a
   request or too much. Yields the connection and how far it has read. *)
ReadConn(c) ==
  LET k == conn[c]
      left == Len(script[c]) - got[c]
      with(n) == [k EXCEPT !.read = @ \o SubSeq(script[c], got[c] + 1, got[c] + n)]
      tooLarge(n) == Len(with(n).read) > MaxRead
      goesOn(n) == n = 0 \/ (~tooLarge(n) /\ ~CanTake(with(n)))
      ends(n) == ~goesOn(n) /\ \E m \in 0 .. n - 1 : n - m <= ReadChunk /\ goesOn(m)
  IN  IF k.done \/ k.req # None \/ k.write # <<>> THEN {<<k, got[c]>>}
      ELSE IF CanTake(k) THEN {<<Take(k), got[c]>>}
      ELSE      {<<with(n), got[c] + n>> : n \in {n \in 0 .. left : goesOn(n)}}
           \cup {<<Cut(with(n)), got[c] + n>> : n \in {n \in 0 .. left : goesOn(n)}}
           \cup {<<IF tooLarge(n) THEN QueueErr(with(n)) ELSE Take(with(n)), got[c] + n>> :
                   n \in {n \in 1 .. left : ends(n)}}

(* write_conn: the socket takes some pieces and then blocks or fails, or takes all
   and the flush succeeds. *)
WriteConn(c) ==
  LET k == conn[c]
      room == 0 .. Len(Unsent(k))
      sent(n) == [k EXCEPT !.at = @ + n, !.stalled = TRUE,
                           !.last = IF n = 0 \/ k.write[k.at + n].part = "error" THEN @
                                    ELSE k.write[k.at + n]]
      flushed == [sent(Len(Unsent(k))) EXCEPT !.write = <<>>, !.at = 0, !.stalled = FALSE]
  IN  IF k.done \/ k.write = <<>> THEN {[k EXCEPT !.stalled = FALSE]}
      ELSE {sent(n) : n \in room} \cup {Cut(sent(n)) : n \in room}
           \cup {IF k.ndjson /\ ~k.finalized THEN flushed ELSE FinishWrite(flushed)}

-----------------------------------------------------------------------------
(* The stages of poll. *)

Init ==
  /\ stage = "expire"
  /\ turn = 1 /\ open = <<>> /\ arrived = {}
  /\ conn = [c \in Conns |-> NewConn]
  /\ script \in {s \in [Conns -> UNION {Scripts[c] : c \in Conns}] :
                   \A c \in Conns : s[c] \in Scripts[c]}
  /\ got = [c \in Conns |-> 0]
  /\ seqs = [s \in {} |-> NewConn]

Others == UNCHANGED <<open, arrived, script, seqs>> /\ turn' = turn + 1

(* The loop of poll over Conn::expire. *)
Expire(c) ==
  /\ stage = "expire" /\ turn <= Len(open) /\ c = open[turn]
  /\ \E k \in ExpireConn(c) : conn' = [conn EXCEPT ![c] = k]
  /\ UNCHANGED <<stage, got>> /\ Others

(* accept_ready. *)
Accept ==
  /\ stage = "accept" /\ stage' = "read"
  /\ \E new \in SUBSET (Conns \ arrived) :
       /\ Cardinality(new) <= MaxAccept
       /\ open' \in {open \o q : q \in SetToSeqs(new)}
       /\ arrived' = arrived \cup new
  /\ UNCHANGED <<turn, conn, script, got, seqs>>

(* read_ready. *)
Read(c) ==
  /\ stage = "read" /\ turn <= Len(open) /\ c = open[turn]
  /\ \E o \in ReadConn(c) :
       conn' = [conn EXCEPT ![c] = o[1]] /\ got' = [got EXCEPT ![c] = o[2]]
  /\ UNCHANGED stage /\ Others

(* write_ready. *)
Write(c) ==
  /\ stage = "write" /\ turn <= Len(open) /\ c = open[turn]
  /\ \E k \in WriteConn(c) : conn' = [conn EXCEPT ![c] = k]
  /\ UNCHANGED <<stage, got>> /\ Others

Place(c) == CHOOSE i \in DOMAIN open : open[i] = c

(* What retain leaves of `open`: the other connections, in their order. *)
Remaining(dead) ==
  {q \in SetToSeqs(Range(open) \ dead) :
     \A i, j \in DOMAIN q : i < j => Place(q[i]) < Place(q[j])}

(* reap: connections that are done go, and their sequences with them. f and engine
   are the connections and the engine it finds. *)
Reaped(f, engine) ==
  LET dead == {c \in Range(open) : f[c].done}
      kept == DOMAIN engine \ {f[c].seq : c \in dead}
  IN  /\ open' \in Remaining(dead)
      /\ turn' = 1
      /\ seqs' = [s \in kept |-> engine[s]]
      /\ conn' = [c \in Conns |->
           IF c \notin dead THEN f[c]
           ELSE IF f[c].cut THEN [NewConn EXCEPT !.cut = TRUE]
           ELSE [NewConn EXCEPT !.taken = f[c].taken, !.last = f[c].last]]

(* The reap that follows expire, read_ready and write_ready. *)
Reap ==
  /\ turn = Len(open) + 1
  /\ \/ stage = "expire" /\ stage' = "accept"
     \/ stage = "read" /\ stage' = "admit"
     \/ stage = "write" /\ stage' = "expire"
  /\ Reaped(conn, seqs)
  /\ UNCHANGED <<arrived, script, got>>

(* Conn::can_admit. *)
CanAdmit(c) == c.req # None /\ c.seq = None /\ c.write = <<>> /\ ~c.done

(* admit_parsed, for one connection. The engine names a sequence afresh: here after
   the connection and its request. *)
AdmitConn(c) ==
  LET k == [conn[c] EXCEPT !.req = None]
      r == conn[c].req
      started == [k EXCEPT !.seq = <<c, k.taken>>,
                           !.ndjson = (r.kind \in {"stream", "echo"}),
                           !.keepAlive = r.keepAlive]
  IN  IF ~CanAdmit(conn[c]) THEN conn[c]
      ELSE IF r.kind = "plain"
        THEN [k EXCEPT !.write = <<Answer(k.taken, "whole", 0, 0)>>, !.at = 0]
      ELSE IF r.kind = "stream" THEN QueueStream(started, Answer(k.taken, "head", 0, 0))
      ELSE IF r.kind = "echo" THEN Overrun(started)
      ELSE started

(* admit_parsed and the reap after it. *)
AdmitParsed ==
  /\ stage = "admit" /\ stage' = "step"
  /\ LET f == [c \in Conns |-> AdmitConn(c)]
         added == {f[c].seq : c \in Conns} \ (DOMAIN seqs \cup {None})
     IN  Reaped(f, [s \in DOMAIN seqs \cup added |->
                      IF s \notin added THEN seqs[s]
                      ELSE [made |-> 0, predict |-> conn[s[1]].req.predict,
                            finished |-> FALSE]])
  /\ UNCHANGED <<arrived, script, got>>

(* step_if_busy: the engine may push a token to, and may finish, any sequence it
   still runs; a step may also do neither. *)
StepIfBusy ==
  /\ stage = "step" /\ stage' = "stream"
  /\ LET running == {s \in DOMAIN seqs : ~seqs[s].finished}
     IN  \E runs \in SUBSET {s \in running : seqs[s].made < seqs[s].predict} :
         \E ends \in SUBSET running :
           seqs' = [s \in DOMAIN seqs |->
                      [seqs[s] EXCEPT !.made = IF s \in runs THEN @ + 1 ELSE @,
                                      !.finished = @ \/ s \in ends]]
  /\ UNCHANGED <<turn, open, conn, arrived, script, got>>

(* stream_progress: what a streamed sequence has made since the last chunk. *)
StreamConn(c) ==
  LET k == conn[c]
      made == seqs[k.seq].made
  IN  IF \/ k.done \/ ~k.ndjson \/ k.finalized \/ k.seq \notin DOMAIN seqs
         \/ made <= k.streamed THEN k
      ELSE [QueueStream(k, Answer(k.seq[2], "tokens", k.streamed + 1, made))
              EXCEPT !.streamed = made]

StreamProgress ==
  /\ stage = "stream" /\ stage' = "harvest"
  /\ conn' = [c \in Conns |-> StreamConn(c)]
  /\ UNCHANGED <<turn, open, arrived, script, got, seqs>>

(* The finished sequences that harvest picks. *)
Ready ==
  {c \in Range(open) : LET k == conn[c] IN
     /\ ~k.done /\ k.seq \in DOMAIN seqs /\ seqs[k.seq].finished
     /\ IF k.ndjson THEN ~k.finalized ELSE k.write = <<>>}

(* finish_seq. The sequence is in the engine, which has just called it finished. *)
FinishSeq(c) ==
  LET k == conn[c]
      made == seqs[k.seq].made
      closing == QueueStream(QueueStream(k, Answer(k.seq[2], "last", 0, made)),
                             Answer(k.seq[2], "end", 0, made))
  IN  IF k.ndjson THEN [closing EXCEPT !.finalized = TRUE, !.seq = None]
      ELSE [k EXCEPT !.write = <<Answer(k.seq[2], "whole", 0, made)>>, !.at = 0, !.seq = None]

Harvest ==
  /\ stage = "harvest" /\ stage' = "write"
  /\ conn' = [c \in Conns |-> IF c \in Ready THEN FinishSeq(c) ELSE conn[c]]
  /\ seqs' = [s \in DOMAIN seqs \ {conn[c].seq : c \in Ready} |-> seqs[s]]
  /\ UNCHANGED <<turn, open, arrived, script, got>>

(* poll returns an error and run_loop with it: the listener failed, the engine's
   step did, or the trace of a finished sequence could not be written. *)
Stop ==
  /\ MayFail
  /\ \/ stage = "accept"
     \/ stage = "step" /\ \E s \in DOMAIN seqs : ~seqs[s].finished
     \/ stage = "harvest" /\ Ready # {}
  /\ stage' = "stopped"
  /\ UNCHANGED <<turn, open, conn, arrived, script, got, seqs>>

Next ==
  \/ \E c \in Conns : Expire(c) \/ Read(c) \/ Write(c)
  \/ Reap \/ Accept \/ AdmitParsed \/ StepIfBusy \/ StreamProgress \/ Harvest
  \/ Stop

Spec == Init /\ [][Next]_vars

(* poll is called for ever; a deadline that stays passed is seen by some poll; and
   the engine gets on with every sequence (Engine's AllFinish). Clients owe
   nothing. *)
StalledExpires(c) == Expire(c) /\ ~conn[c].done /\ conn'[c].cut
Advances(c) == StepIfBusy /\ conn[c].seq # None /\ seqs'[conn[c].seq] # seqs[conn[c].seq]

FairSpec ==
  /\ Spec
  /\ WF_vars(Next)
  /\ \A c \in Conns : SF_vars(StalledExpires(c)) /\ SF_vars(Advances(c))

-----------------------------------------------------------------------------
(* Properties. *)

(* The engine holds exactly the sequences of the open connections, each for the
   request that connection took last: whatever ends a connection in whatever stage
   (disconnect, deadline, slow reader, too much input, a finished answer) neither
   leaves a sequence computing for nobody nor takes away another's. *)
SequencesOwned ==
  /\ DOMAIN seqs = {conn[c].seq : c \in Range(open)} \ {None}
  /\ \A c \in Range(open) : conn[c].seq # None => conn[c].seq = <<c, conn[c].taken>>

(* How many of the first n fragments of a script complete a request. *)
Asked(c, n) == Cardinality({i \in 1 .. n : script[c][i] # Part})

(* The n-th request of the script asks to keep the connection. *)
KeepsAlive(c, n) ==
  \E i \in DOMAIN script[c] :
    script[c][i] # Part /\ Asked(c, i) = n /\ script[c][i].keepAlive

(* q may come right after p on connection c. *)
Follows(c, p, q) ==
  CASE q.part \in {"whole", "head"} ->
         /\ p.part \in {"whole", "end"} /\ q.of = p.of + 1
         /\ p.of > 0 => KeepsAlive(c, p.of)
    [] q.part = "tokens" ->
         p.part \in {"head", "tokens"} /\ q.of = p.of /\ q.from = p.upto + 1
    [] q.part = "last" ->
         p.part \in {"head", "tokens"} /\ q.of = p.of /\ q.upto = p.upto
    [] q.part = "end" -> p.part = "last" /\ q.of = p.of

(* Refusals apart, what a connection is sent is the answers to its requests, each
   once, in order and in one piece, however requests are pipelined and writes are
   split; a stream carries every token its sequence made, once, before its last
   line; and nothing follows the answer to a request that asked to close. *)
AnswersInOrder ==
  \A c \in Conns :
    LET said == <<conn[c].last>> \o Unsent(conn[c])
        Answers == {i \in DOMAIN said : said[i].part # "error"}
    IN  \A i, j \in Answers :
          i < j /\ (\A m \in Answers : m <= i \/ j <= m) => Follows(c, said[i], said[j])

Answered(c) ==
  IF conn[c].last.part \in {"whole", "end"} THEN conn[c].last.of ELSE conn[c].last.of - 1

(* A connection on which nothing is pending, which the read deadline may close, has
   had an answer to every request it took and holds no complete request that it has
   not taken: none is dropped when one answer ends and the next request is already
   buffered. *)
IdleOwesNothing ==
  \A c \in Range(open) :
    LET k == conn[c]
    IN  k.req = None /\ k.seq = None /\ k.write = <<>> /\ ~k.done =>
          Answered(c) = k.taken /\ Complete(k) = {}

(* A stream retains a bounded output, pieces already sent included. *)
RetainedBounded == \A c \in Range(open) : conn[c].ndjson => Len(conn[c].write) <= MaxPending

(* Every request taken is answered in full, unless the client goes away or stops
   reading, sends too much, or the server stops. *)
EveryAnswered ==
  \A c \in Conns : \A n \in 1 .. 2 :
    conn[c].taken >= n ~> (Answered(c) >= n \/ conn[c].cut \/ stage = "stopped")

(* "Headers may already be on the wire, so sending a new HTTP error would corrupt
   the response" (queue_stream): an error is never sent within another response. *)
ErrorsFramed ==
  \A c \in Range(open) :
    \A i \in DOMAIN Unsent(conn[c]) :
      Unsent(conn[c])[i].part = "error" =>
        i = 1 /\ conn[c].last.part \in {"whole", "end"}
=============================================================================
