-------------------------- MODULE EngineOutputProofs --------------------------
(***************************************************************************)
(* What the engine computes, for any number of sequences, slots and blocks,  *)
(* any requests, chunk size and order of service, and any greedy model: the  *)
(* tokens it samples are those of greedy decoding of each request alone, and *)
(* it calls its caches only the way the pool lets a caller call them.        *)
(*                                                                         *)
(* The invariant says, of every sequence, that its cache holds a beginning   *)
(* of its text (prompt, then what was sampled); that replay counts exactly   *)
(* the sampled tokens in the cache once the prompt is in; and that logits    *)
(* that are kept are those of the whole text.  A cache that the running      *)
(* forward pass has already advanced is one token ahead of replay.           *)
(***************************************************************************)
EXTENDS EngineProofs

(* The vocabulary is closed under the model. *)
GreedyIsToken == \A t \in Seq(Token) : Greedy(t) \in Token

Text(s) == req[s].prompt \o generated[s]
Goal(s) == Len(req[s].prompt)

(* w stands in t after the first n tokens. *)
Follows(w, n, t) == n + Len(w) <= Len(t) /\ \A i \in 1 .. Len(w) : w[i] = t[n + i]

(* Sequences of the running forward pass, and those it has advanced. *)
Members ==
  {s \in Id : \/ pc = "serialCall" /\ s = slots[k]
              \/ pc \in {"batchCall", "forwardCall"} /\ s \in Batched}

Committed(s) ==
  s \in Members /\ IF phase = "idle" THEN result = "ok" ELSE \A j \in Remaining : jobs[j].seq # s

Aligned(s) ==
  \/ Len(ids[s]) < Goal(s) /\ replay[s] = 0
  \/ Len(ids[s]) = Goal(s) + replay[s]

Fresh(s) == Len(ids[s]) >= Goal(s) /\ last[s] # None => last[s] = ids[s]

(* A pass added prompt tokens or the next sampled one. *)
Stepped(s) ==
  \/ /\ pc # "forwardCall" /\ replay[s] = 0
     /\ Len(ids[s]) >= 1 /\ Len(ids[s]) <= Goal(s)
  \/ /\ pc # "serialCall" /\ replay[s] < Len(generated[s])
     /\ Len(ids[s]) = Goal(s) + replay[s] + 1

Row(s) == IF Committed(s) THEN Stepped(s) ELSE Aligned(s) /\ Fresh(s)

(* Nothing is left of, or done yet for, who is not running. *)
Blank(s) == generated[s] = <<>> /\ replay[s] = 0 /\ last[s] = None

RowsOK ==
  /\ \A s \in Given : Follows(ids[s], 0, Text(s))
  /\ \A s \in live : Row(s)
  /\ \A s \in Id : s \notin live => ids[s] = <<>>
  /\ \A s \in Id : s \notin Given \/ s \in ToSet(wait) => Blank(s)
  /\ last \in [Id -> Seq(Token) \cup {None}]

SuffixText == \A s \in Id : suffix[s] # <<>> => Follows(suffix[s], Len(ids[s]), req[s].prompt)

(* What a pass may add to the cache of s: some of its prompt, or the token it
   sampled and has not forwarded. *)
PromptPart(s, w) == w # <<>> /\ Follows(w, Len(ids[s]), req[s].prompt)

SampledPart(s, w) ==
  /\ replay[s] < Len(generated[s]) /\ Len(ids[s]) = Goal(s) + replay[s]
  /\ w = <<generated[s][replay[s] + 1]>>

JobText(j) ==
  \/ pc # "forwardCall" /\ PromptPart(jobs[j].seq, jobs[j].toks)
  \/ pc # "serialCall" /\ SampledPart(jobs[j].seq, jobs[j].toks)

JobsOK ==
  /\ Members \subseteq live
  /\ pc \in {"serialCall", "batchCall", "forwardCall"} /\ phase # "idle" =>
       /\ op = "prefill"
       /\ phase = "compute" => at = 1
       /\ \A s \in Members : \E j \in DOMAIN jobs : jobs[j].seq = s
       /\ \A j \in Remaining : jobs[j].seq \in Members /\ JobText(j)

(* A batch that decodes forwards the one token its members just sampled. *)
Decoding ==
  \/ pc = "retry" /\ mode = "decode"
  \/ pc \in {"forward", "forwardPrepare", "forwardCall"} /\ mode # "replay"

ItemsText ==
  /\ pc \in {"batch", "batchSuffix", "batchPrepare"} => mode = "compute"
  /\ Decoding => \A m \in DOMAIN items :
       items[m] \in Occupied /\ replay[slots[items[m]]] + 1 = Len(generated[slots[items[m]]])

Output == RowsOK /\ SuffixText /\ JobsOK /\ ItemsText

-----------------------------------------------------------------------------
(* Texts. *)

LEMMA FollowsConcat ==
  ASSUME NEW v \in Seq(Token), NEW w \in Seq(Token), NEW t \in Seq(Token),
         Follows(v, 0, t), Follows(w, Len(v), t)
  PROVE  Follows(v \o w, 0, t)
<1> DEFINE c == v \o w
<1>1. /\ Len(c) = Len(v) + Len(w)
      /\ Len(v) \in Nat /\ Len(w) \in Nat /\ Len(t) \in Nat
      /\ \A i \in 1 .. Len(v) + Len(w) : c[i] = IF i <= Len(v) THEN v[i] ELSE w[i - Len(v)]
  BY ConcatProperties, LenProperties
<1> HIDE DEF c
<1>2. Len(v) + Len(w) <= Len(t)
  BY DEF Follows
<1>3. ASSUME NEW i \in 1 .. Len(v) + Len(w) PROVE c[i] = t[0 + i]
  <2>1. 0 + i = i
    BY <1>1
  <2>2. CASE i <= Len(v)
    <3>1. i \in 1 .. Len(v) /\ c[i] = v[i]
      BY <1>1, <2>2
    <3>2. v[i] = t[0 + i]
      BY <3>1 DEF Follows
    <3> QED BY <3>1, <3>2
  <2>3. CASE ~(i <= Len(v))
    <3>1. i - Len(v) \in 1 .. Len(w) /\ Len(v) + (i - Len(v)) = i
      BY <1>1, <2>3
    <3>2. c[i] = w[i - Len(v)]
      BY <1>1, <2>3
    <3>3. w[i - Len(v)] = t[Len(v) + (i - Len(v))]
      BY <3>1 DEF Follows
    <3> QED BY <2>1, <3>1, <3>2, <3>3
  <2> QED BY <2>2, <2>3
<1>4. 0 + Len(c) <= Len(t)
  BY <1>1, <1>2
<1> QED BY <1>1, <1>3, <1>4 DEF Follows, c

(* What stands in a prompt stands in the text that goes on after it. *)
LEMMA FollowsText ==
  ASSUME NEW w \in Seq(Token), NEW n \in Nat, NEW p \in Seq(Token), NEW g \in Seq(Token),
         Follows(w, n, p)
  PROVE  Follows(w, n, p \o g)
<1> DEFINE c == p \o g
<1>1. /\ Len(c) = Len(p) + Len(g)
      /\ Len(w) \in Nat /\ Len(p) \in Nat /\ Len(g) \in Nat
      /\ \A i \in 1 .. Len(p) + Len(g) : c[i] = IF i <= Len(p) THEN p[i] ELSE g[i - Len(p)]
  BY ConcatProperties, LenProperties
<1> HIDE DEF c
<1>2. n + Len(w) <= Len(p) /\ \A i \in 1 .. Len(w) : w[i] = p[n + i]
  BY DEF Follows
<1>3. n + Len(w) <= Len(c)
  BY <1>1, <1>2
<1>4. ASSUME NEW i \in 1 .. Len(w) PROVE w[i] = c[n + i]
  <2>1. n + i \in 1 .. Len(p) + Len(g) /\ n + i <= Len(p)
    BY <1>1, <1>2
  <2>2. c[n + i] = p[n + i]
    BY <1>1, <2>1
  <2> QED BY <1>2, <2>2
<1> QED BY <1>3, <1>4 DEF Follows, c

(* The next sampled token stands after those that are in the cache. *)
LEMMA FollowsNext ==
  ASSUME NEW p \in Seq(Token), NEW g \in Seq(Token), NEW r \in Nat, r < Len(g)
  PROVE  <<g[r + 1]>> \in Seq(Token) /\ Follows(<<g[r + 1]>>, Len(p) + r, p \o g)
<1> DEFINE c == p \o g
<1>1. /\ Len(c) = Len(p) + Len(g) /\ Len(p) \in Nat /\ Len(g) \in Nat
      /\ \A i \in 1 .. Len(p) + Len(g) : c[i] = IF i <= Len(p) THEN p[i] ELSE g[i - Len(p)]
  BY ConcatProperties, LenProperties
<1> HIDE DEF c
<1>2. /\ Len(p) + r + 1 \in 1 .. Len(p) + Len(g) /\ ~(Len(p) + r + 1 <= Len(p))
      /\ Len(p) + r + 1 - Len(p) = r + 1 /\ r + 1 \in 1 .. Len(g)
  BY <1>1
<1>3. c[Len(p) + r + 1] = g[r + 1]
  BY <1>1, <1>2
<1>4. g[r + 1] \in Token
  BY <1>2, ElementOfSeq
<1>5. PICK t \in Token : t = g[r + 1]
  BY <1>4
<1>6. PICK u : u = <<t>>
  OBVIOUS
<1>7. u \in Seq(Token) /\ Len(u) = 1 /\ u[1] = t
  BY <1>6
<1>8. Len(p) + r + Len(u) <= Len(c)
  BY <1>1, <1>2, <1>7
<1>9. ASSUME NEW i \in 1 .. Len(u) PROVE u[i] = c[Len(p) + r + i]
  <2>1. i = 1
    BY <1>7
  <2> QED BY <1>3, <1>5, <1>7, <2>1
<1>10. Follows(u, Len(p) + r, c)
  BY <1>8, <1>9 DEF Follows
<1> QED BY <1>5, <1>6, <1>7, <1>10 DEF c

(* A beginning of the text is one of the longer text. *)
LEMMA FollowsLonger ==
  ASSUME NEW w \in Seq(Token), NEW p \in Seq(Token), NEW g \in Seq(Token), NEW x \in Token,
         Follows(w, 0, p \o g)
  PROVE  Follows(w, 0, p \o Append(g, x))
<1> DEFINE c == p \o g
           h == Append(g, x)
           d == p \o h
<1>1. /\ h \in Seq(Token) /\ Len(h) = Len(g) + 1
      /\ Len(g) \in Nat /\ Len(p) \in Nat /\ Len(w) \in Nat
      /\ \A i \in 1 .. Len(g) : h[i] = g[i]
  BY AppendProperties, LenProperties
<1> HIDE DEF h
<1>2. /\ Len(c) = Len(p) + Len(g) /\ Len(d) = Len(p) + Len(h)
      /\ \A i \in 1 .. Len(p) + Len(g) : c[i] = IF i <= Len(p) THEN p[i] ELSE g[i - Len(p)]
      /\ \A i \in 1 .. Len(p) + Len(h) : d[i] = IF i <= Len(p) THEN p[i] ELSE h[i - Len(p)]
  BY <1>1, ConcatProperties
<1> HIDE DEF c, d
<1>3. 0 + Len(w) <= Len(c) /\ \A i \in 1 .. Len(w) : w[i] = c[0 + i]
  BY DEF Follows, c
<1>4. ASSUME NEW i \in 1 .. Len(w) PROVE w[i] = d[0 + i]
  <2>1. /\ i \in 1 .. Len(p) + Len(g) /\ i \in 1 .. Len(p) + Len(h) /\ 0 + i = i
        /\ ~(i <= Len(p)) => i - Len(p) \in 1 .. Len(g)
    BY <1>1, <1>2, <1>3
  <2>2. w[i] = c[i]
    BY <1>3, <2>1
  <2>3. CASE i <= Len(p)
    BY <1>2, <2>1, <2>2, <2>3
  <2>4. CASE ~(i <= Len(p))
    <3>1. h[i - Len(p)] = g[i - Len(p)]
      BY <1>1, <2>1, <2>4
    <3> QED BY <1>2, <2>1, <2>2, <2>4, <3>1
  <2> QED BY <2>3, <2>4
<1>5. 0 + Len(w) <= Len(d)
  BY <1>1, <1>2, <1>3
<1>6. Follows(w, 0, d)
  BY <1>4, <1>5 DEF Follows
<1> QED BY <1>6 DEF d, h

(* A beginning as long as the text is the text. *)
LEMMA FollowsAll ==
  ASSUME NEW w \in Seq(Token), NEW t \in Seq(Token), Follows(w, 0, t), Len(w) = Len(t)
  PROVE  w = t
<1>1. Len(w) \in Nat
  BY LenProperties
<1>2. \A i \in 1 .. Len(w) : 0 + i = i
  BY <1>1
<1>3. \A i \in 1 .. Len(w) : w[i] = t[i]
  BY <1>2 DEF Follows
<1> QED BY <1>3, SeqEqual

-----------------------------------------------------------------------------
(* Steps outside the forward passes. *)

LEMMA Typed ==
  ASSUME Known, last \in [Id -> Seq(Token) \cup {None}]
  PROVE  /\ Placed /\ P!KvInv /\ live \subseteq Given /\ Given \subseteq Id
         /\ ids \in [Id -> Seq(Token)] /\ suffix \in [Id -> Seq(Token)]
         /\ generated \in [Id -> Seq(Token)] /\ replay \in [Id -> Nat]
         /\ \A s \in Id : /\ Len(ids[s]) \in Nat /\ Len(generated[s]) \in Nat
                          /\ replay[s] <= Len(generated[s])
         /\ \A s \in Given : /\ req[s] \in Requests /\ req[s].prompt \in Seq(Token)
                             /\ Goal(s) \in Nat /\ Goal(s) > 0 /\ req[s].predict \in Nat
                             /\ Text(s) \in Seq(Token) /\ Len(Text(s)) = Goal(s) + Len(generated[s])
<1>1. Placed /\ P!KvInv /\ TextOK /\ PlacesOK
  BY DEF Known, Calls, Placed
<1>2. Given \subseteq Id /\ live \subseteq Given
  BY <1>1, GivenIds DEF Placed, Apart
<1>3. generated \in [Id -> Seq(Token)] /\ replay \in [Id -> Nat] /\ \A s \in Id : replay[s] <= Len(generated[s])
  BY <1>1 DEF TextOK
<1>4. ASSUME NEW s \in Given
      PROVE  /\ req[s] \in Requests /\ req[s].prompt \in Seq(Token)
             /\ Goal(s) \in Nat /\ Goal(s) > 0 /\ req[s].predict \in Nat
             /\ Text(s) \in Seq(Token) /\ Len(Text(s)) = Goal(s) + Len(generated[s])
  <2>1. req[s] \in Requests
    <3>1. req \in Seq(Requests) /\ s \in 1 .. Len(req)
      BY <1>1 DEF PlacesOK, Given
    <3> QED BY <3>1, ElementOfSeq
  <2>2. PICK p, g \in Seq(Token) : p = req[s].prompt /\ g = generated[s]
    BY <1>2, <1>3, <2>1, EngineAssumption
  <2>3. /\ req[s].prompt \in Seq(Token) /\ Len(req[s].prompt) > 0 /\ req[s].predict \in Nat
    BY <2>1, EngineAssumption
  <2>4. Len(req[s].prompt) \in Nat
    BY <2>3, LenProperties
  <2>5. p \o g \in Seq(Token) /\ Len(p \o g) = Len(p) + Len(g)
    BY <2>2, ConcatProperties
  <2> QED BY <2>1, <2>2, <2>3, <2>4, <2>5 DEF Text, Goal
<1>5. /\ ids \in [Id -> Seq(Token)] /\ suffix \in [Id -> Seq(Token)]
      /\ \A s \in Id : Len(ids[s]) \in Nat
  BY <1>1, PoolTypes
<1>6. \A s \in Id : Len(generated[s]) \in Nat
  BY <1>3, LenProperties
<1> QED BY <1>1, <1>2, <1>3, <1>4, <1>5, <1>6

LEMMA NoPass ==
  ASSUME pc \notin {"serialCall", "batchCall", "forwardCall"}
  PROVE  Members = {} /\ \A s : ~Committed(s)
BY DEF Members, Committed

LEMMA NoPassNext ==
  ASSUME pc' \notin {"serialCall", "batchCall", "forwardCall"}
  PROVE  Members' = {} /\ (\A s : ~Committed(s)') /\ JobsOK'
<1>1. Members' = {}
  BY DEF Members
<1>2. \A s : ~Committed(s)'
  BY <1>1 DEF Committed
<1> QED BY <1>1, <1>2 DEF JobsOK

(* Sequences are added, started, stopped and preempted; nothing is computed. *)
LEMMA Placing ==
  ASSUME Known, RowsOK, SuffixText,
         \A s \in live : ~Committed(s),
         pc' \notin {"serialCall", "batchCall", "forwardCall"},
         \A s \in Given : s \in Given' /\ req'[s] = req[s],
         \A s \in Given' : s \in Id /\ req'[s] \in Requests,
         UNCHANGED generated, last' \in [Id -> Seq(Token) \cup {None}],
         \A s \in Id : suffix'[s] # <<>> => suffix'[s] = suffix[s] /\ ids'[s] = ids[s],
         \A s \in Id : ids'[s] = ids[s] \/ ids'[s] = <<>>,
         \A s \in Id : s \notin live' => ids'[s] = <<>>,
         \A s \in live' :
           \/ s \in live /\ ids'[s] = ids[s] /\ replay'[s] = replay[s] /\ last'[s] = last[s]
           \/ s \in Given' /\ ids'[s] = <<>> /\ replay'[s] = 0,
         \A s \in Id : s \notin Given' \/ s \in ToSet(wait') =>
           (s \notin Given \/ s \in ToSet(wait)) /\ replay'[s] = replay[s] /\ last'[s] = last[s]
  PROVE  RowsOK' /\ SuffixText' /\ JobsOK'
<1>0. last \in [Id -> Seq(Token) \cup {None}]
  BY DEF RowsOK
<1>1. /\ live \subseteq Given /\ Given \subseteq Id
      /\ ids \in [Id -> Seq(Token)] /\ suffix \in [Id -> Seq(Token)]
      /\ \A s \in Id : Len(ids[s]) \in Nat /\ Len(generated[s]) \in Nat
      /\ generated \in [Id -> Seq(Token)]
  BY <1>0, Typed
<1>2. JobsOK' /\ \A s : ~Committed(s)'
  BY NoPassNext
<1>3. \A s \in Given' : /\ req'[s].prompt \in Seq(Token)
                        /\ Goal(s)' \in Nat /\ Goal(s)' > 0 /\ Len(Text(s)') \in Nat
  <2> SUFFICES ASSUME NEW s \in Given'
               PROVE  /\ req'[s].prompt \in Seq(Token)
                      /\ Goal(s)' \in Nat /\ Goal(s)' > 0 /\ Len(Text(s)') \in Nat
    OBVIOUS
  <2>1. s \in Id /\ req'[s].prompt \in Seq(Token) /\ Len(req'[s].prompt) > 0
    BY EngineAssumption
  <2>2. PICK p, g \in Seq(Token) : p = req'[s].prompt /\ g = generated'[s]
    BY <1>1, <2>1
  <2>3. p \o g \in Seq(Token) /\ Len(p \o g) \in Nat /\ Len(p) \in Nat
    BY ConcatProperties, LenProperties
  <2> QED BY <2>1, <2>2, <2>3 DEF Goal, Text
<1>4. ASSUME NEW s \in Given' PROVE Follows(ids'[s], 0, Text(s)')
  <2>1. CASE ids'[s] = <<>>
    <3>1. PICK t : t = Text(s)'
      OBVIOUS
    <3>2. Len(t) \in Nat
      BY <1>3, <3>1
    <3>3. Follows(<<>>, 0, t)
      BY <3>2 DEF Follows
    <3> QED BY <2>1, <3>1, <3>3
  <2>2. CASE ids'[s] # <<>>
    <3>1. s \in Id /\ ids'[s] = ids[s] /\ s \in live
      BY <2>2 DEF RowsOK
    <3>2. Text(s)' = Text(s) /\ s \in Given
      BY <1>1, <3>1 DEF Text
    <3> QED BY <3>1, <3>2 DEF RowsOK
  <2> QED BY <2>1, <2>2
<1>5. ASSUME NEW s \in live' PROVE Row(s)'
  <2>1. CASE s \in live /\ ids'[s] = ids[s] /\ replay'[s] = replay[s] /\ last'[s] = last[s]
    <3>1. Aligned(s) /\ Fresh(s) /\ Goal(s)' = Goal(s)
      BY <1>1, <2>1 DEF RowsOK, Row, Goal
    <3> QED BY <1>2, <2>1, <3>1 DEF Row, Aligned, Fresh
  <2>2. CASE s \in Given' /\ ids'[s] = <<>> /\ replay'[s] = 0
    <3>1. Len(ids'[s]) = 0 /\ Goal(s)' \in Nat /\ Goal(s)' > 0
      BY <1>3, <2>2
    <3>2. Aligned(s)'
      BY <2>2, <3>1 DEF Aligned
    <3>3. Fresh(s)'
      BY <3>1 DEF Fresh
    <3> QED BY <1>2, <3>2, <3>3 DEF Row
  <2> QED BY <2>1, <2>2
<1>6. \A s \in Id : s \notin Given' \/ s \in ToSet(wait') => Blank(s)'
  BY DEF RowsOK, Blank
<1>7. RowsOK'
  <2>1. \A s \in Id : s \notin live' => ids'[s] = <<>>
    OBVIOUS
  <2> QED BY <1>4, <1>5, <1>6, <2>1 DEF RowsOK
<1>8. SuffixText'
  <2> SUFFICES ASSUME NEW s \in Id, suffix'[s] # <<>>
               PROVE  Follows(suffix'[s], Len(ids'[s]), req'[s].prompt)
    BY DEF SuffixText
  <2>1. suffix'[s] = suffix[s] /\ ids'[s] = ids[s] /\ s \in live
    BY DEF Known, Calls, SuffixOK
  <2>2. req'[s] = req[s]
    BY <1>1, <2>1
  <2> QED BY <2>1, <2>2 DEF SuffixText
<1> QED BY <1>2, <1>7, <1>8

(* What every move leaves as it is. *)
LEMMA Still ==
  ASSUME Known, RowsOK, SuffixText, \A s \in live : ~Committed(s),
         pc' \notin {"serialCall", "batchCall", "forwardCall"},
         UNCHANGED <<ids, suffix, live, seqVars, genVars>>
  PROVE  RowsOK' /\ SuffixText' /\ JobsOK'
<1>1. last \in [Id -> Seq(Token) \cup {None}] /\ \A s \in Id : s \notin live => ids[s] = <<>>
  BY DEF RowsOK
<1>2. Given \subseteq Id /\ \A s \in Given : req[s] \in Requests
  BY <1>1, Typed
<1>3. UNCHANGED <<next, req, wait, generated, last, replay, Given, ToSet(wait)>>
  BY DEF seqVars, genVars, Given, ToSet
<1> QED BY <1>1, <1>2, <1>3, Placing

LEMMA QuietItems ==
  ASSUME pc' \notin {"batch", "batchSuffix", "batchPrepare"}, ~Decoding'
  PROVE  ItemsText'
BY DEF ItemsText

LEMMA SameItems ==
  ASSUME ItemsText, UNCHANGED <<items, slots, replay, generated, mode>>,
         pc' \in {"batch", "batchSuffix", "batchPrepare"} =>
           pc \in {"batch", "batchSuffix", "batchPrepare"},
         Decoding' => Decoding
  PROVE  ItemsText'
BY DEF ItemsText, Occupied

LEMMA AddOutput == ASSUME Known, Output, NEW r \in Requests, Add(r) PROVE Output'
<1>1. pc = "idle" /\ UNCHANGED <<ctlVars, genVars>>
  BY DEF Add
<1>2. /\ RowsOK /\ SuffixText /\ Placed /\ PlacesOK /\ Apart /\ \A s \in live : ~Committed(s)
      /\ last \in [Id -> Seq(Token) \cup {None}]
  BY <1>1, NoPass DEF Output, Known, Placed, RowsOK
<1>3. UNCHANGED <<ids, suffix>>
  <2>1. CASE \E i \in Slot : Install(next, i)
    BY <2>1 DEF Install, Pool!NewCache
  <2>2. CASE UNCHANGED poolVars
    BY <2>2 DEF poolVars
  <2> QED BY <2>1, <2>2 DEF Add
<1>4. /\ next \in Id /\ next \notin Given /\ next \in Nat /\ next' = next + 1
      /\ Given' = Given \cup {next} /\ Given \subseteq Id
  <2>1. Given \subseteq Id /\ next \in Nat /\ NumSeqs \in Nat
    BY <1>2, GivenIds
  <2>2. next <= NumSeqs /\ next' = next + 1 /\ next \in 1 .. NumSeqs + 1
    BY <1>2 DEF Add, PlacesOK
  <2> QED BY <2>1, <2>2 DEF Given, Id
<1>5. req'[next] = r /\ \A s \in Given : req'[s] = req[s] /\ req[s] \in Requests
  <2>1. req \in Seq(Requests) /\ Len(req) = next - 1 /\ req' = Append(req, r)
    BY <1>2 DEF Add, PlacesOK
  <2>2. req'[next] = r /\ \A s \in Given : req'[s] = req[s]
    BY <1>4, <2>1, AppendProperties DEF Given
  <2> QED BY <1>2, <2>2, Typed
<1>6. live' = live \/ live' = live \cup {next}
  <2>1. CASE \E i \in Slot : Install(next, i)
    BY <2>1 DEF Install, Pool!NewCache
  <2>2. CASE UNCHANGED poolVars
    BY <2>2 DEF poolVars
  <2> QED BY <2>1, <2>2 DEF Add
<1>7. \A s \in ToSet(wait') : s = next \/ s \in ToSet(wait)
  <2>1. CASE wait' = wait
    BY <2>1 DEF ToSet
  <2>2. CASE wait' = Append(wait, next)
    BY <1>2, <1>4, <2>2, AppendProperties DEF ToSet, PlacesOK
  <2> QED BY <2>1, <2>2 DEF Add
<1>8. ids[next] = <<>> /\ Blank(next) /\ next \notin live
  BY <1>2, <1>4, Typed DEF RowsOK
<1>9. /\ UNCHANGED <<generated, last, replay>>
      /\ \A s \in Id : s \notin live => ids[s] = <<>>
  BY <1>1, <1>2 DEF genVars, RowsOK
<1>10. RowsOK' /\ SuffixText' /\ JobsOK'
  <2>1. pc' \notin {"serialCall", "batchCall", "forwardCall"}
    BY <1>1 DEF ctlVars
  <2>2. \A s \in live' : \/ s \in live /\ ids'[s] = ids[s] /\ replay'[s] = replay[s] /\ last'[s] = last[s]
                         \/ s \in Given' /\ ids'[s] = <<>> /\ replay'[s] = 0
    BY <1>3, <1>4, <1>6, <1>8, <1>9 DEF Blank
  <2>3. \A s \in Id : s \notin Given' \/ s \in ToSet(wait') =>
           (s \notin Given \/ s \in ToSet(wait)) /\ replay'[s] = replay[s] /\ last'[s] = last[s]
    BY <1>4, <1>7, <1>9
  <2>4. /\ \A s \in Given : s \in Given' /\ req'[s] = req[s]
        /\ \A s \in Given' : s \in Id /\ req'[s] \in Requests
        /\ \A s \in Id : s \notin live' => ids'[s] = <<>>
    BY <1>3, <1>4, <1>5, <1>6, <1>9
  <2> QED BY <1>2, <1>3, <1>9, <2>1, <2>2, <2>3, <2>4, Placing
<1>11. ItemsText'
  BY <1>1, QuietItems DEF ctlVars, Decoding
<1> QED BY <1>10, <1>11 DEF Output

(* A cache is cleared, by its owner, by retirement or to make room. *)
LEMMA Cleared ==
  ASSUME Known, RowsOK, SuffixText, NEW s \in Id, Pool!Clear(s),
         \A x \in live : ~Committed(x),
         pc' \notin {"serialCall", "batchCall", "forwardCall"},
         UNCHANGED <<next, req, generated>>, \A x \in ToSet(wait') : x \in ToSet(wait),
         \/ UNCHANGED <<last, replay>> /\ live' = live \ {s}
         \/ /\ live' = live /\ s \notin ToSet(wait)
            /\ last' = [last EXCEPT ![s] = None] /\ replay' = [replay EXCEPT ![s] = 0]
  PROVE  RowsOK' /\ SuffixText' /\ JobsOK'
<1>1. /\ last \in [Id -> Seq(Token) \cup {None}] /\ \A x \in Id : x \notin live => ids[x] = <<>>
  BY DEF RowsOK
<1>2. /\ Given \subseteq Id /\ live \subseteq Given /\ \A x \in Given : req[x] \in Requests
      /\ ids \in [Id -> Seq(Token)] /\ suffix \in [Id -> Seq(Token)] /\ replay \in [Id -> Nat]
  BY <1>1, Typed
<1>3. Given' = Given
  BY DEF Given
<1>4. ids' = [ids EXCEPT ![s] = <<>>] /\ suffix' = [suffix EXCEPT ![s] = <<>>] /\ s \in live
  BY DEF Pool!Clear
<1>5. s \in Given /\ ids'[s] = <<>>
  BY <1>2, <1>4
<1>6. /\ \A x \in Given : x \in Given' /\ req'[x] = req[x]
      /\ \A x \in Given' : x \in Id /\ req'[x] \in Requests
  BY <1>2, <1>3
<1>7. last' \in [Id -> Seq(Token) \cup {None}]
  BY <1>1
<1>8. /\ \A x \in Id : suffix'[x] # <<>> => suffix'[x] = suffix[x] /\ ids'[x] = ids[x]
      /\ \A x \in Id : ids'[x] = ids[x] \/ ids'[x] = <<>>
      /\ \A x \in Id : x \notin live' => ids'[x] = <<>>
  BY <1>1, <1>2, <1>4
<1>9. \A x \in Id \ {s} : ids'[x] = ids[x] /\ replay'[x] = replay[x] /\ last'[x] = last[x]
  BY <1>1, <1>2, <1>4
<1>10. ASSUME NEW x \in live'
       PROVE  \/ x \in live /\ ids'[x] = ids[x] /\ replay'[x] = replay[x] /\ last'[x] = last[x]
              \/ x \in Given' /\ ids'[x] = <<>> /\ replay'[x] = 0
  <2>1. CASE x # s
    BY <1>2, <1>9, <2>1
  <2>2. CASE x = s
    BY <1>2, <1>3, <1>5, <2>2
  <2> QED BY <2>1, <2>2
<1>11. \A x \in Id : x \notin Given' \/ x \in ToSet(wait') =>
         (x \notin Given \/ x \in ToSet(wait)) /\ replay'[x] = replay[x] /\ last'[x] = last[x]
  BY <1>3, <1>5, <1>9
<1> QED BY <1>6, <1>7, <1>8, <1>10, <1>11, Placing

LEMMA TakeOutput == ASSUME Known, Output, NEW s \in Id, Take(s) PROVE Output'
<1>1. /\ pc = "idle" /\ UNCHANGED <<next, req, ctlVars, genVars>>
  BY DEF Take
<1>2. /\ RowsOK /\ SuffixText /\ Placed /\ PlacesOK /\ Apart /\ \A x \in live : ~Committed(x)
  BY <1>1, NoPass DEF Output, Known, Placed
<1>3. UNCHANGED <<pc, mode, generated, last, replay>>
  BY <1>1 DEF ctlVars, genVars
<1>4. ItemsText'
  BY <1>1, <1>3, QuietItems DEF Decoding
<1>5. \A x \in ToSet(wait') : x \in ToSet(wait)
  <2>1. CASE wait' = wait
    BY <2>1 DEF ToSet
  <2>2. CASE \E n \in DOMAIN wait : wait' = RemoveAt(wait, n)
    <3>1. PICK n \in DOMAIN wait : wait' = RemoveAt(wait, n)
      BY <2>2
    <3>2. n \in 1 .. Len(wait) /\ wait \in Seq(Nat) /\ Rising(wait)
      BY <1>2, <3>1, LenProperties DEF PlacesOK
    <3> QED BY <3>1, <3>2, RemoveRising
  <2> QED BY <2>1, <2>2 DEF Take
<1>6. CASE Pool!DropCache(s)
  BY <1>1, <1>2, <1>3, <1>4, <1>5, <1>6, Cleared DEF Pool!DropCache, Output
<1>7. CASE UNCHANGED poolVars
  <2>1. UNCHANGED <<ids, suffix, live, Given>> /\ Given \subseteq Id
    BY <1>1, <1>2, <1>7, GivenIds DEF poolVars, Given
  <2>2. /\ last \in [Id -> Seq(Token) \cup {None}] /\ \A x \in Id : x \notin live => ids[x] = <<>>
    BY <1>2 DEF RowsOK
  <2>3. \A x \in Given : req[x] \in Requests
    BY <2>2, Typed
  <2>4. RowsOK' /\ SuffixText' /\ JobsOK'
    BY <1>1, <1>2, <1>3, <1>5, <2>1, <2>2, <2>3, Placing
  <2> QED BY <1>4, <2>4 DEF Output
<1> QED BY <1>6, <1>7 DEF Take

LEMMA RetireOutput == ASSUME Known, Output, Retire PROVE Output'
<1>1. /\ pc = "retire" /\ UNCHANGED <<next, req, wait, genVars, mode, items, k>>
      /\ pc' \in {"retire", "admit"}
  BY DEF Retire, Goto
<1>2. /\ RowsOK /\ SuffixText /\ Placed /\ \A x \in live : ~Committed(x)
  BY <1>1, NoPass DEF Output, Known, Placed
<1>3. ItemsText'
  BY <1>1, QuietItems DEF Decoding
<1>4. CASE \E i \in Occupied : Pool!DropCache(slots[i])
  <2>1. PICK i \in Occupied : Pool!DropCache(slots[i])
    BY <1>4
  <2>2. slots[i] \in Id /\ UNCHANGED <<last, replay, generated>>
    BY <1>1, <1>2, <2>1, Member DEF genVars
  <2>3. \A x \in ToSet(wait') : x \in ToSet(wait)
    BY <1>1 DEF ToSet
  <2>4. RowsOK' /\ SuffixText' /\ JobsOK'
    BY <1>1, <1>2, <2>1, <2>2, <2>3, Cleared DEF Pool!DropCache
  <2> QED BY <1>3, <2>4 DEF Output
<1>5. CASE UNCHANGED <<poolVars, slots, finished>>
  BY <1>1, <1>2, <1>3, <1>5, Still DEF Output, poolVars, seqVars, Retire
<1> QED BY <1>4, <1>5 DEF Retire

LEMMA AdmitOutput == ASSUME Known, Output, Admit PROVE Output'
<1>1. /\ pc = "admit" /\ UNCHANGED <<next, req, genVars, mode, items, k>>
      /\ pc' \in {"admit", "collect"}
  BY DEF Admit, Goto
<1>2. /\ RowsOK /\ SuffixText /\ Placed /\ PlacesOK /\ Apart /\ \A x \in live : ~Committed(x)
      /\ last \in [Id -> Seq(Token) \cup {None}] /\ \A x \in Id : x \notin live => ids[x] = <<>>
  BY <1>1, NoPass DEF Output, Known, Placed, RowsOK
<1>3. ItemsText'
  BY <1>1, QuietItems DEF Decoding
<1>4. CASE wait # <<>> /\ wait' = Tail(wait) /\ \E i \in Slot : Install(Head(wait), i)
  <2>1. PICK s : s = Head(wait)
    OBVIOUS
  <2>2. PICK i \in Slot : Install(s, i)
    BY <1>4, <2>1
  <2>3. s \in ToSet(wait) /\ ToSet(wait') = ToSet(wait) \ {s}
    BY <1>2, <1>4, <2>1, HeadRising DEF PlacesOK
  <2>4. s \in Given /\ s \notin live /\ Given \subseteq Id /\ Given' = Given
    BY <1>1, <1>2, <2>3, GivenIds DEF PlacesOK, Apart, Given
  <2>5. live' = live \cup {s} /\ UNCHANGED <<ids, suffix>>
    BY <2>2 DEF Install, Pool!NewCache
  <2>6. Blank(s) /\ ids[s] = <<>>
    BY <1>2, <2>3, <2>4 DEF RowsOK
  <2>7. UNCHANGED <<last, replay, generated>>
    BY <1>1 DEF genVars
  <2>8. \A x \in Given : req[x] \in Requests
    BY <1>2, Typed
  <2>9. \A x \in live' : \/ x \in live /\ ids'[x] = ids[x] /\ replay'[x] = replay[x] /\ last'[x] = last[x]
                         \/ x \in Given' /\ ids'[x] = <<>> /\ replay'[x] = 0
    BY <2>4, <2>5, <2>6, <2>7 DEF Blank
  <2>10. \A x \in Id : x \notin Given' \/ x \in ToSet(wait') => (x \notin Given \/ x \in ToSet(wait))
    BY <2>3, <2>4
  <2>11. RowsOK' /\ SuffixText' /\ JobsOK'
    BY <1>1, <1>2, <2>4, <2>5, <2>7, <2>8, <2>9, <2>10, Placing
  <2> QED BY <1>3, <2>11 DEF Output
<1>5. CASE UNCHANGED <<poolVars, slots, wait>>
  BY <1>1, <1>2, <1>3, <1>5, Still DEF Output, poolVars, seqVars, Admit
<1> QED BY <1>4, <1>5 DEF Admit

LEMMA CapOutput ==
  ASSUME Known, Output, NEW i, NEW there, OnCap(i, there),
         \/ pc = "serialCall" /\ there = "serial"
         \/ pc \in {"batchPrepare", "forwardPrepare"} /\ there = "retry"
  PROVE  Output'
<1>1. /\ phase = "idle" /\ result = "kv page cap" /\ UNCHANGED <<seqVars, mode, k>>
      /\ pc' \in {there, "error"}
  BY DEF OnCap, Ended
<1>2. /\ RowsOK /\ SuffixText /\ ItemsText /\ Placed /\ Apart /\ ModeOK /\ Listed
      /\ \A x \in live : ~Committed(x)
  BY <1>1 DEF Output, Known, Placed, Committed, Calls, CtlOK
<1>3. CASE PreemptFor(i) /\ pc' = there
  <2>1. PICK v \in Slot : /\ v \in Occupied /\ Pool!Preempt(slots[v])
                          /\ last' = [last EXCEPT ![slots[v]] = None]
                          /\ replay' = [replay EXCEPT ![slots[v]] = 0]
                          /\ items' \in InOrder(ToSet(items) \ {v}) /\ UNCHANGED generated
    BY <1>3 DEF PreemptFor, IsVictim, Victims
  <2>2. slots[v] \in Id /\ slots[v] \in live /\ slots[v] \in Running
    BY <1>2, <2>1, Member DEF Running
  <2>3. slots[v] \notin ToSet(wait) /\ UNCHANGED <<next, req, wait, slots, ToSet(wait)>>
    BY <1>1, <1>2, <2>2 DEF Apart, seqVars, ToSet
  <2>4. RowsOK' /\ SuffixText' /\ JobsOK'
    BY <1>1, <1>2, <1>3, <2>1, <2>2, <2>3, Cleared DEF Pool!Preempt
  <2>5. ItemsText'
    <3>1. CASE mode # "decode" \/ pc # "forwardPrepare"
      BY <1>1, <1>2, <1>3, <3>1, QuietItems DEF Decoding, ItemsText
    <3>2. CASE mode = "decode" /\ pc = "forwardPrepare"
      <4>1. \A m \in DOMAIN items :
              items[m] \in Occupied /\ replay[slots[items[m]]] + 1 = Len(generated[slots[items[m]]])
        BY <1>2, <3>2 DEF ItemsText, Decoding
      <4>2. ToSet(items) \ {v} \subseteq Slot
        <5>1. \A j \in DOMAIN items : items[j] \in Slot
          BY <1>2, LenProperties, ElementOfSeq DEF Listed
        <5> QED BY <5>1 DEF ToSet
      <4>3. \A m \in DOMAIN items' : items'[m] \in ToSet(items) \ {v}
        BY <2>1, <4>2, OrderedBatch
      <4>4. ASSUME NEW m \in DOMAIN items'
            PROVE  items'[m] \in Occupied' /\ replay'[slots'[items'[m]]] + 1 = Len(generated'[slots'[items'[m]]])
        <5>1. PICK n \in DOMAIN items : items[n] = items'[m] /\ items[n] # v
          BY <4>3 DEF ToSet
        <5>2. slots[items[n]] # slots[v] /\ items[n] \in Occupied
          BY <1>2, <2>1, <4>1, <5>1 DEF Apart
        <5>3. slots[items[n]] \in Id /\ replay \in [Id -> Nat]
          BY <1>2, <5>2, Member DEF Known, Calls, TextOK
        <5>4. replay'[slots[items[n]]] = replay[slots[items[n]]]
          BY <2>1, <5>2, <5>3
        <5> QED BY <2>1, <2>3, <4>1, <5>1, <5>2, <5>4 DEF Occupied
      <4>5. pc' = "retry"
        BY <1>3, <3>2
      <4> QED BY <4>4, <4>5 DEF ItemsText
    <3> QED BY <3>1, <3>2
  <2> QED BY <2>4, <2>5 DEF Output
<1>4. CASE pc' = "error" /\ UNCHANGED <<poolVars, genVars, mode, items, k, moved>>
  <2>1. RowsOK' /\ SuffixText' /\ JobsOK'
    BY <1>1, <1>2, <1>4, Still DEF poolVars
  <2>2. ItemsText'
    BY <1>4, QuietItems DEF Decoding
  <2> QED BY <2>1, <2>2 DEF Output
<1> QED BY <1>3, <1>4 DEF OnCap

(* Steps that only move the engine from one place of its work to the next. *)
LEMMA MoveOutput ==
  ASSUME Known, Output,
         \/ BeginStep \/ Collect \/ Replays \/ Retry
         \/ BatchPrepare \/ BatchPrepared \/ ForwardPrepare \/ ForwardPrepared
  PROVE  Output'
<1>1. /\ pc \notin {"serialCall", "batchCall", "forwardCall"}
      /\ pc' \notin {"serialCall", "batchCall", "forwardCall"}
      /\ UNCHANGED <<ids, suffix, live, seqVars, genVars>>
  <2>1. CASE BeginStep \/ Collect \/ Replays \/ BatchPrepared \/ ForwardPrepared
    BY <2>1 DEF BeginStep, Collect, Replays, BatchPrepared, ForwardPrepared, Goto,
       GotoSerial, GotoBatch, poolVars
  <2>2. CASE Retry
    <3>1. mode \in {"compute", "replay", "decode"}
      BY DEF Known, ModeOK
    <3> QED BY <2>2, <3>1 DEF Retry, GotoSerial, GotoBatch, poolVars
  <2>3. CASE BatchPrepare \/ ForwardPrepare
    BY <2>3 DEF BatchPrepare, ForwardPrepare, Goto, Pool!StartPrepare, Pool!Start, Pool!cacheVars
  <2> QED BY <2>1, <2>2, <2>3
<1>2. RowsOK /\ SuffixText /\ ItemsText /\ \A x \in live : ~Committed(x)
  BY <1>1, NoPass DEF Output
<1>3. RowsOK' /\ SuffixText' /\ JobsOK'
  BY <1>1, <1>2, Still
<1>4. ItemsText'
  <2>1. CASE BeginStep
    BY <2>1, QuietItems DEF BeginStep, Goto, Decoding
  <2>2. CASE Collect
    <3>1. pc' = "serial" \/ (pc' = "batch" /\ mode' = "compute")
      BY <2>2 DEF Collect, GotoSerial, GotoBatch
    <3> QED BY <3>1 DEF ItemsText, Decoding
  <2>3. CASE Replays
    <3>1. pc' = "sample" \/ (pc' = "forward" /\ mode' = "replay")
      BY <2>3 DEF Replays, Goto
    <3> QED BY <3>1, QuietItems DEF Decoding
  <2>4. CASE BatchPrepare \/ BatchPrepared
    <3>1. /\ pc \in {"batchSuffix", "batchPrepare"} /\ pc' \in {"batch", "batchPrepare"}
          /\ UNCHANGED <<items, mode>>
      BY <2>4 DEF BatchPrepare, BatchPrepared, Goto
    <3> QED BY <1>1, <1>2, <3>1, SameItems DEF Decoding, seqVars, genVars
  <2>5. CASE ForwardPrepare \/ ForwardPrepared
    <3>1. /\ pc \in {"forward", "forwardPrepare"} /\ pc' \in {"forward", "forwardPrepare"}
          /\ UNCHANGED <<items, mode>>
      BY <2>5 DEF ForwardPrepare, ForwardPrepared, Goto
    <3> QED BY <1>1, <1>2, <3>1, SameItems DEF Decoding, seqVars, genVars
  <2>6. CASE Retry
    <3>1. PICK keep \in InOrder({i \in ToSet(items) :
                   IF mode = "compute" THEN SlotCompute(i) ELSE SlotBatchable(i)}) :
            \/ pc' \in {"sample", "replays", "idle"}
            \/ mode # "compute" /\ pc' = "forward" /\ items' = keep /\ UNCHANGED mode
            \/ pc' = "serial"
            \/ pc' = "batch" /\ mode' = "compute"
      <4>1. mode \in {"compute", "replay", "decode"}
        BY DEF Known, ModeOK
      <4> QED BY <2>6, <4>1 DEF Retry, GotoSerial, GotoBatch
    <3>2. CASE mode # "compute" /\ pc' = "forward" /\ items' = keep /\ UNCHANGED mode
      <4>1. CASE mode = "replay"
        BY <3>2, <4>1, QuietItems DEF Decoding
      <4>2. CASE mode = "decode"
        <5>1. \A m \in DOMAIN items :
                items[m] \in Occupied /\ replay[slots[items[m]]] + 1 = Len(generated[slots[items[m]]])
          BY <1>2, <2>6, <4>2 DEF ItemsText, Decoding, Retry
        <5>2. {i \in ToSet(items) : IF mode = "compute" THEN SlotCompute(i) ELSE SlotBatchable(i)} \subseteq Slot
          <6>1. \A j \in DOMAIN items : items[j] \in Slot
            BY LenProperties, ElementOfSeq DEF Listed, Known, Calls, CtlOK
          <6> QED BY <6>1 DEF ToSet
        <5>3. \A m \in DOMAIN keep : keep[m] \in ToSet(items)
          BY <5>2, OrderedBatch
        <5>4. \A m \in DOMAIN items' :
                items'[m] \in Occupied' /\ replay'[slots'[items'[m]]] + 1 = Len(generated'[slots'[items'[m]]])
          BY <1>1, <3>2, <5>1, <5>3 DEF ToSet, Occupied, seqVars, genVars
        <5> QED BY <3>2, <5>4 DEF ItemsText
      <4> QED BY <3>2, <4>1, <4>2 DEF Known, ModeOK
    <3>3. CASE pc' \in {"sample", "replays", "idle", "serial"}
      BY <3>3, QuietItems DEF Decoding
    <3>4. CASE pc' = "batch" /\ mode' = "compute"
      BY <3>4 DEF ItemsText, Decoding
    <3> QED BY <3>1, <3>2, <3>3, <3>4
  <2> QED BY <2>1, <2>2, <2>3, <2>4, <2>5, <2>6
<1> QED BY <1>3, <1>4 DEF Output

(* prompt_suffix keeps a beginning of the prompt and hands out what follows it. *)
LEMMA PromptText ==
  ASSUME Known, RowsOK, SuffixText, NEW i, IsPrefill(i),
         Pool!PromptSuffix(slots[i], Prompt(i), Chunk),
         UNCHANGED <<seqVars, genVars>>, \A s \in live : ~Committed(s),
         pc' \notin {"serialCall", "batchCall", "forwardCall"}
  PROVE  RowsOK' /\ SuffixText' /\ JobsOK'
<1>1. PICK s, r : s = slots[i] /\ r = req[s]
  OBVIOUS
<1>2. i \in Occupied /\ s \in Id /\ s \in live /\ s \in Given /\ r \in Requests
  BY <1>1, Member DEF Known, IsPrefill
<1>3. P!KvInv /\ Pool!PromptSuffix(s, r.prompt, Chunk) /\ Placed
  BY <1>1 DEF Known, Prompt
<1>4. PICK h \in 0 .. Len(r.prompt) - 1, u \in Seq(Token) :
           /\ ids' = [ids EXCEPT ![s] = SubSeq(r.prompt, 1, h)]
           /\ Len(SubSeq(r.prompt, 1, h)) = h
           /\ suffix' = [suffix EXCEPT ![s] = u]
           /\ Len(u) \in 1 .. Len(r.prompt) - h
           /\ \A m \in 1 .. Len(u) : u[m] = r.prompt[h + m]
           /\ phase' = "idle" /\ UNCHANGED live
  BY <1>2, <1>3, Positioned, Zenon
<1>5. last \in [Id -> Seq(Token) \cup {None}]
  BY DEF RowsOK
<1>6. /\ live \subseteq Given /\ Given \subseteq Id
      /\ ids \in [Id -> Seq(Token)] /\ suffix \in [Id -> Seq(Token)]
      /\ \A x \in Id : Len(ids[x]) \in Nat
      /\ replay \in [Id -> Nat] /\ generated \in [Id -> Seq(Token)]
      /\ \A x \in Given : Goal(x) \in Nat
  BY <1>5, Typed
<1>7. UNCHANGED <<next, req, slots, wait, generated, last, replay, Given, ToSet(wait)>>
  BY DEF seqVars, genVars, Given, ToSet
<1>8. r.prompt \in Seq(Token) /\ Len(r.prompt) \in Nat /\ h \in Nat /\ h < Len(r.prompt)
  BY <1>2, EngineAssumption, LenProperties
<1>9. PICK w : w = SubSeq(r.prompt, 1, h)
  OBVIOUS
<1>10. w \in Seq(Token) /\ Len(w) = h /\ \A m \in 1 .. h : w[m] = r.prompt[m]
  <2>1. \A m \in 1 .. h : w[m] = r.prompt[m]
    BY <1>8, <1>9 DEF SubSeq
  <2> QED BY <1>4, <1>8, <1>9, <2>1, SubSeqProperties
<1>11. Follows(w, 0, r.prompt)
  BY <1>8, <1>10 DEF Follows
<1>12. /\ ids'[s] = w /\ suffix'[s] = u
       /\ \A x \in Id \ {s} : ids'[x] = ids[x] /\ suffix'[x] = suffix[x]
  BY <1>2, <1>4, <1>6, <1>9
<1>13. Follows(w, 0, Text(s)')
  <2>1. PICK g \in Seq(Token) : g = generated[s]
    BY <1>2, <1>6
  <2>2. Follows(w, 0, r.prompt \o g)
    BY <1>8, <1>10, <1>11, FollowsText
  <2> QED BY <1>1, <1>7, <2>1, <2>2 DEF Text
<1>14. \A x \in Given' : Follows(ids'[x], 0, Text(x)')
  <2> SUFFICES ASSUME NEW x \in Given' PROVE Follows(ids'[x], 0, Text(x)')
    OBVIOUS
  <2>1. CASE x = s
    BY <1>12, <1>13, <2>1
  <2>2. CASE x # s
    <3>1. Text(x)' = Text(x) /\ ids'[x] = ids[x] /\ x \in Given
      BY <1>6, <1>7, <1>12, <2>2 DEF Text
    <3> QED BY <3>1 DEF RowsOK
  <2> QED BY <2>1, <2>2
<1>15. \A x : ~Committed(x)'
  BY NoPassNext
<1>16. replay[s] = 0
  <2>1. Row(s) /\ Goal(s) = Len(r.prompt) /\ Len(ids[s]) < Goal(s) /\ ~Committed(s)
    BY <1>1, <1>2 DEF RowsOK, Goal, IsPrefill, Past, Prompt
  <2>2. PICK n, g, q \in Nat : n = Len(ids[s]) /\ g = Goal(s) /\ q = replay[s]
    BY <1>2, <1>6
  <2>3. (n < g /\ q = 0) \/ n = g + q
    BY <2>1, <2>2 DEF Row, Aligned
  <2> QED BY <2>1, <2>2, <2>3
<1>17. \A x \in live' : Row(x)'
  <2> SUFFICES ASSUME NEW x \in live PROVE Aligned(x)' /\ Fresh(x)'
    BY <1>4, <1>15 DEF Row
  <2>1. CASE x = s
    <3>1. Len(ids'[x]) = h /\ Goal(x)' = Len(r.prompt) /\ replay'[x] = 0
      BY <1>1, <1>7, <1>10, <1>12, <1>16, <2>1 DEF Goal
    <3> QED BY <1>8, <3>1 DEF Aligned, Fresh
  <2>2. CASE x # s
    <3>1. ids'[x] = ids[x] /\ Goal(x)' = Goal(x) /\ Aligned(x) /\ Fresh(x)
      BY <1>6, <1>7, <1>12, <2>2 DEF Goal, RowsOK, Row
    <3> QED BY <1>7, <3>1 DEF Aligned, Fresh
  <2> QED BY <2>1, <2>2
<1>18. /\ \A x \in Id : x \notin live' => ids'[x] = <<>>
       /\ \A x \in Id : x \notin Given' \/ x \in ToSet(wait') => Blank(x)'
       /\ last' \in [Id -> Seq(Token) \cup {None}]
  BY <1>2, <1>4, <1>7, <1>12 DEF RowsOK, Blank
<1>19. RowsOK'
  BY <1>14, <1>17, <1>18 DEF RowsOK
<1>20. SuffixText'
  <2> SUFFICES ASSUME NEW x \in Id, suffix'[x] # <<>>
               PROVE  Follows(suffix'[x], Len(ids'[x]), req'[x].prompt)
    BY DEF SuffixText
  <2>1. CASE x = s
    <3>1. Follows(u, h, r.prompt)
      <4>1. Len(u) \in Nat /\ h + Len(u) <= Len(r.prompt)
        BY <1>4, <1>8
      <4> QED BY <1>4, <4>1 DEF Follows
    <3> QED BY <1>1, <1>7, <1>10, <1>12, <2>1, <3>1
  <2>2. CASE x # s
    BY <1>7, <1>12, <2>2 DEF SuffixText
  <2> QED BY <2>1, <2>2
<1> QED BY <1>19, <1>20, NoPassNext

LEMMA SerialOutput == ASSUME Known, Output, Serial PROVE Output'
<1>1. /\ pc = "serial" /\ UNCHANGED <<seqVars, genVars>>
      /\ pc' \in {"serial", "replays", "serialSuffix"}
  BY DEF Serial, Goto
<1>2. RowsOK /\ SuffixText /\ \A s \in live : ~Committed(s)
  BY <1>1, NoPass DEF Output
<1>3. ItemsText'
  BY <1>1, QuietItems DEF Decoding
<1>4. CASE UNCHANGED poolVars
  <2>1. RowsOK' /\ SuffixText' /\ JobsOK'
    BY <1>1, <1>2, <1>4, Still DEF poolVars
  <2> QED BY <1>3, <2>1 DEF Output
<1>5. CASE IsPrefill(k) /\ Pool!PromptSuffix(slots[k], Prompt(k), Chunk)
  <2>1. RowsOK' /\ SuffixText' /\ JobsOK'
    BY <1>1, <1>2, <1>5, PromptText
  <2> QED BY <1>3, <2>1 DEF Output
<1> QED BY <1>4, <1>5 DEF Serial

LEMMA BatchSuffixOutput == ASSUME Known, Output, BatchSuffix PROVE Output'
<1>1. /\ pc = "batch" /\ UNCHANGED <<seqVars, genVars, mode, items>> /\ pc' = "batchSuffix"
  BY DEF BatchSuffix, Goto
<1>2. RowsOK /\ SuffixText /\ ItemsText /\ \A s \in live : ~Committed(s)
  BY <1>1, NoPass DEF Output
<1>3. ItemsText'
  BY <1>1, <1>2 DEF ItemsText, Decoding
<1>4. CASE UNCHANGED poolVars
  <2>1. RowsOK' /\ SuffixText' /\ JobsOK'
    BY <1>1, <1>2, <1>4, Still DEF poolVars
  <2> QED BY <1>3, <2>1 DEF Output
<1>5. CASE /\ IsPrefill(items[k])
           /\ Pool!PromptSuffix(slots[items[k]], Prompt(items[k]), Chunk)
  <2>1. PICK i : i = items[k]
    OBVIOUS
  <2>2. RowsOK' /\ SuffixText' /\ JobsOK'
    BY <1>1, <1>2, <1>5, <2>1, PromptText
  <2> QED BY <1>3, <2>2 DEF Output
<1> QED BY <1>4, <1>5 DEF BatchSuffix

-----------------------------------------------------------------------------
(* A forward pass begins. *)

LEMMA ServedText ==
  ASSUME Known, RowsOK, SuffixText, \A s \in live : ~Committed(s),
         NEW i, Serves(i), IsPrefill(i) => suffix[slots[i]] # <<>>
  PROVE  /\ i \in Occupied /\ slots[i] \in live
         /\ IsPrefill(i) => PromptPart(slots[i], Part(i))
         /\ ~IsPrefill(i) => SampledPart(slots[i], Part(i))
<1>1. i \in Occupied
  BY DEF Serves, IsPrefill, SlotBatchable, IsDecode
<1>2. PICK s : s = slots[i]
  OBVIOUS
<1>3. s \in live /\ s \in Id /\ s \in Given
  BY <1>1, <1>2, Member DEF Known
<1>4. IsPrefill(i) => PromptPart(s, Part(i))
  BY <1>2, <1>3 DEF Part, PromptPart, SuffixText
<1>5. ASSUME ~IsPrefill(i) PROVE SampledPart(s, Part(i))
  <2>1. Len(ids[s]) >= Goal(s) /\ replay[s] < Len(generated[s])
    BY <1>2, <1>5 DEF Serves, SlotBatchable, IsDecode, Replaying, Past, Prompt, Goal
  <2>2. last \in [Id -> Seq(Token) \cup {None}] /\ Aligned(s)
    BY <1>3 DEF RowsOK, Row
  <2>3. Len(ids[s]) \in Nat /\ Goal(s) \in Nat
    BY <1>3, <2>2, Typed
  <2>4. PICK n, g \in Nat : n = Len(ids[s]) /\ g = Goal(s)
    BY <2>3
  <2>5. n = g + replay[s]
    BY <2>1, <2>2, <2>4 DEF Aligned
  <2> QED BY <1>2, <1>5, <2>1, <2>4, <2>5 DEF SampledPart, Part, Unforwarded
<1> QED BY <1>1, <1>2, <1>3, <1>4, <1>5

LEMMA StartText ==
  ASSUME Known, RowsOK, SuffixText, \A s \in live : ~Committed(s),
         NEW js, Pool!Start("prefill", js), UNCHANGED <<seqVars, genVars>>,
         Members' \subseteq live,
         \A s \in Members' : \E j \in DOMAIN js : js[j].seq = s,
         \A j \in DOMAIN js :
           /\ js[j].seq \in Members'
           /\ \/ pc' # "forwardCall" /\ PromptPart(js[j].seq, js[j].toks)
              \/ pc' # "serialCall" /\ SampledPart(js[j].seq, js[j].toks)
  PROVE  RowsOK' /\ SuffixText' /\ JobsOK'
<1>1. /\ UNCHANGED <<ids, suffix, live>> /\ phase' = "reserve" /\ op' = "prefill" /\ jobs' = js
  BY DEF Pool!Start, Pool!cacheVars
<1>2. UNCHANGED <<next, req, slots, wait, generated, last, replay, Given, ToSet(wait)>>
  BY DEF seqVars, genVars, Given, ToSet
<1>3. \A s : ~Committed(s)'
  <2> SUFFICES ASSUME NEW s, Committed(s)' PROVE FALSE
    OBVIOUS
  <2>1. s \in Members' /\ \A j \in Remaining' : jobs'[j].seq # s
    BY <1>1 DEF Committed
  <2>2. Remaining' = DOMAIN js
    BY <1>1 DEF Remaining
  <2> QED BY <1>1, <2>1, <2>2
<1>4. \A s \in Given' : Follows(ids'[s], 0, Text(s)')
  BY <1>1, <1>2 DEF RowsOK, Text
<1>5. \A s \in live' : Row(s)'
  BY <1>1, <1>2, <1>3 DEF RowsOK, Row, Aligned, Fresh, Goal
<1>6. /\ \A x \in Id : x \notin live' => ids'[x] = <<>>
      /\ \A x \in Id : x \notin Given' \/ x \in ToSet(wait') => Blank(x)'
      /\ last' \in [Id -> Seq(Token) \cup {None}]
  BY <1>1, <1>2 DEF RowsOK, Blank
<1>7. RowsOK'
  BY <1>4, <1>5, <1>6 DEF RowsOK
<1>8. SuffixText'
  BY <1>1, <1>2 DEF SuffixText
<1>9. \A j \in Remaining' : jobs'[j].seq \in Members' /\ JobText(j)'
  <2> SUFFICES ASSUME NEW j \in DOMAIN js PROVE js[j].seq \in Members' /\ JobText(j)'
    BY <1>1 DEF Remaining
  <2>1. js[j].seq \in Members'
    OBVIOUS
  <2>2. CASE pc' # "forwardCall" /\ PromptPart(js[j].seq, js[j].toks)
    BY <1>1, <1>2, <2>1, <2>2 DEF JobText, PromptPart
  <2>3. CASE pc' # "serialCall" /\ SampledPart(js[j].seq, js[j].toks)
    BY <1>1, <1>2, <2>1, <2>3 DEF JobText, SampledPart, Goal
  <2> QED BY <2>2, <2>3
<1>10. JobsOK'
  BY <1>1, <1>9 DEF JobsOK
<1> QED BY <1>7, <1>8, <1>10

LEMMA SerialPrefillOutput == ASSUME Known, Output, SerialPrefill PROVE Output'
<1>1. /\ pc = "serialSuffix" /\ pc' = "serialCall" /\ UNCHANGED <<seqVars, genVars, k>>
  BY DEF SerialPrefill, Goto
<1>2. RowsOK /\ SuffixText /\ \A s \in live : ~Committed(s)
  BY <1>1, NoPass DEF Output
<1>3. PICK s : s = slots[k]
  OBVIOUS
<1>4. k \in Occupied /\ suffix[s] # <<>>
  BY <1>1, <1>3 DEF Known, Calls, CtlOK
<1>5. s \in live /\ s \in Id
  BY <1>3, <1>4, Member DEF Known
<1>6. PICK js : js = <<[seq |-> s, toks |-> suffix[s]]>> /\ Pool!Start("prefill", js)
  BY <1>3 DEF SerialPrefill
<1>7. DOMAIN js = {1} /\ js[1].seq = s /\ js[1].toks = suffix[s]
  BY <1>6
<1>8. Members' = {s}
  BY <1>1, <1>3, <1>5 DEF Members, seqVars
<1>9. PromptPart(s, suffix[s])
  BY <1>2, <1>4, <1>5 DEF PromptPart, SuffixText
<1>10. RowsOK' /\ SuffixText' /\ JobsOK'
  BY <1>1, <1>2, <1>5, <1>6, <1>7, <1>8, <1>9, StartText
<1>11. ItemsText'
  BY <1>1, QuietItems DEF Decoding
<1> QED BY <1>10, <1>11 DEF Output

(* The members of a batched pass are the sequences of its items. *)
LEMMA BatchMembers ==
  ASSUME pc \in {"batchCall", "forwardCall"}
  PROVE  Members = {s \in Id : \E m \in DOMAIN items : s = slots[items[m]]}
BY DEF Members, Batched, ToSet

LEMMA BatchStartOutput == ASSUME Known, Output, BatchStart PROVE Output'
<1>1. /\ UNCHANGED <<seqVars, genVars>> /\ pc = "batch" /\ pc' = "batchCall"
      /\ UNCHANGED <<items, k>> /\ k > Len(items)
  BY DEF BatchStart, Goto
<1>2. RowsOK /\ SuffixText /\ \A s \in live : ~Committed(s)
  BY <1>1, NoPass DEF Output
<1>3. PICK js : /\ js = [j \in DOMAIN items |-> Group(j)]
                /\ Pool!Start("prefill", js)
  BY DEF BatchStart
<1>4. CtlOK /\ Listed /\ Placed
  BY DEF Known, Calls, CtlOK
<1>5. ASSUME NEW m \in DOMAIN items
      PROVE  /\ slots[items[m]] \in live /\ slots[items[m]] \in Id
             /\ js[m].seq = slots[items[m]]
             /\ \/ PromptPart(js[m].seq, js[m].toks)
                \/ SampledPart(js[m].seq, js[m].toks)
  <2>1. PICK i : i = items[m]
    OBVIOUS
  <2>2. m <= k - 1
    <3>1. DOMAIN items = 1 .. Len(items) /\ Len(items) \in Nat /\ k \in Nat
      BY <1>4, LenProperties DEF Listed, CtlOK
    <3> QED BY <1>1, <3>1
  <2>3. Serves(i) /\ (IsPrefill(i) => suffix[slots[i]] # <<>>)
    BY <1>1, <1>4, <2>1, <2>2 DEF CtlOK, Ready
  <2>4. /\ i \in Occupied /\ slots[i] \in live
        /\ IsPrefill(i) => PromptPart(slots[i], Part(i))
        /\ ~IsPrefill(i) => SampledPart(slots[i], Part(i))
    BY <1>2, <2>3, ServedText
  <2>5. js[m].seq = slots[i] /\ js[m].toks = Part(i)
    BY <1>3, <2>1 DEF Group
  <2>6. slots[i] \in Id
    BY <1>4, <2>4, Member
  <2> QED BY <2>1, <2>4, <2>5, <2>6
<1>6. Members' = {s \in Id : \E m \in DOMAIN items : s = slots[items[m]]}
  BY <1>1 DEF Members, Batched, ToSet, seqVars
<1>7. RowsOK' /\ SuffixText' /\ JobsOK'
  <2>1. Members' \subseteq live
    BY <1>5, <1>6
  <2>2. \A s \in Members' : \E j \in DOMAIN js : js[j].seq = s
    BY <1>3, <1>5, <1>6
  <2>3. \A j \in DOMAIN js : js[j].seq \in Members'
    BY <1>3, <1>5, <1>6
  <2>4. \A j \in DOMAIN js : PromptPart(js[j].seq, js[j].toks) \/ SampledPart(js[j].seq, js[j].toks)
    BY <1>3, <1>5
  <2> QED BY <1>1, <1>2, <1>3, <2>1, <2>2, <2>3, <2>4, StartText
<1>8. ItemsText'
  BY <1>1, QuietItems DEF Decoding
<1> QED BY <1>7, <1>8 DEF Output

LEMMA ForwardStartOutput == ASSUME Known, Output, ForwardStart PROVE Output'
<1>1. /\ UNCHANGED <<seqVars, genVars>> /\ pc = "forward" /\ pc' = "forwardCall"
      /\ UNCHANGED <<items, k, mode>>
  BY DEF ForwardStart, Goto
<1>2. RowsOK /\ SuffixText /\ ItemsText /\ \A s \in live : ~Committed(s)
  BY <1>1, NoPass DEF Output
<1>3. PICK js : /\ js = [i \in DOMAIN items |->
                          [seq |-> slots[items[i]], toks |-> <<Unforwarded(items[i])>>]]
                /\ Pool!Start("prefill", js)
  BY DEF ForwardStart
<1>4. CtlOK /\ Placed
  BY DEF Known, Calls
<1>5. ASSUME NEW m \in DOMAIN items
      PROVE  /\ slots[items[m]] \in live /\ slots[items[m]] \in Id
             /\ js[m].seq = slots[items[m]]
             /\ SampledPart(js[m].seq, js[m].toks)
  <2>1. PICK i : i = items[m]
    OBVIOUS
  <2>2. Serves(i) /\ SlotBatchable(i)
    BY <1>1, <1>4, <2>1 DEF CtlOK, Serves
  <2>3. ~IsPrefill(i)
    <3>1. i \in Occupied /\ Past(i) >= Len(Prompt(i)) /\ slots[i] \in Id /\ slots[i] \in Given
      BY <1>4, <2>2, Member DEF SlotBatchable, IsDecode
    <3>2. last \in [Id -> Seq(Token) \cup {None}]
      BY <1>2 DEF RowsOK
    <3>3. Past(i) \in Nat /\ Len(Prompt(i)) \in Nat
      BY <3>1, <3>2, Typed DEF Past, Prompt, Goal
    <3> QED BY <3>1, <3>3 DEF IsPrefill
  <2>4. i \in Occupied /\ slots[i] \in live /\ SampledPart(slots[i], Part(i))
    BY <1>2, <2>2, <2>3, ServedText
  <2>5. js[m].seq = slots[i] /\ js[m].toks = Part(i)
    BY <1>3, <2>1, <2>3 DEF Part
  <2>6. slots[i] \in Id
    BY <1>4, <2>4, Member
  <2> QED BY <2>1, <2>4, <2>5, <2>6
<1>6. Members' = {s \in Id : \E m \in DOMAIN items : s = slots[items[m]]}
  BY <1>1 DEF Members, Batched, ToSet, seqVars
<1>7. RowsOK' /\ SuffixText' /\ JobsOK'
  <2>1. Members' \subseteq live
    BY <1>5, <1>6
  <2>2. \A s \in Members' : \E j \in DOMAIN js : js[j].seq = s
    BY <1>3, <1>5, <1>6
  <2>3. \A j \in DOMAIN js : js[j].seq \in Members'
    BY <1>3, <1>5, <1>6
  <2>4. \A j \in DOMAIN js : SampledPart(js[j].seq, js[j].toks)
    BY <1>3, <1>5
  <2>5. \A j \in DOMAIN js :
           /\ js[j].seq \in Members'
           /\ \/ pc' # "forwardCall" /\ PromptPart(js[j].seq, js[j].toks)
              \/ pc' # "serialCall" /\ SampledPart(js[j].seq, js[j].toks)
    BY <1>1, <2>3, <2>4
  <2>6. Pool!Start("prefill", js)
    BY <1>3
  <2>7. UNCHANGED <<seqVars, genVars>> /\ RowsOK /\ SuffixText /\ \A s \in live : ~Committed(s)
    BY <1>1, <1>2
  <2> QED BY <2>1, <2>2, <2>5, <2>6, <2>7, StartText, SMTT(30)
<1>8. ItemsText'
  BY <1>1, <1>2, SameItems DEF Decoding, seqVars, genVars
<1> QED BY <1>7, <1>8 DEF Output

-----------------------------------------------------------------------------
(* A forward pass runs. *)

(* How the phases of a pass follow one another, and what it returns. *)
LEMMA PassPhases ==
  ASSUME P!KvInv, Pool!CallStep, op = "prefill"
  PROVE  /\ phase' # "idle" => op' = "prefill"
         /\ phase' = "idle" /\ phase # "commit" => result' # "ok"
         /\ phase' = "compute" => at' = 1
         /\ phase' = "commit" /\ phase # "commit" => phase = "compute" /\ at' = at
         /\ phase = "commit" /\ phase' = "idle" =>
              result' = "ok" /\ \A j \in DOMAIN jobs : j <= at
<1>1. CASE Pool!FullError
  BY <1>1 DEF Pool!FullError, Pool!Finish
<1>2. CASE Pool!Fault
  BY <1>2 DEF Pool!Fault, Pool!callVars
<1>3. CASE Pool!Cow
  BY <1>3 DEF Pool!Cow, Pool!callVars
<1>4. CASE Pool!CapError
  BY <1>4 DEF Pool!CapError, Pool!Finish
<1>5. CASE Pool!Reserved
  BY <1>5 DEF Pool!Reserved
<1>6. CASE Pool!NextJob
  BY <1>6 DEF Pool!NextJob
<1>7. CASE Pool!Transformer
  BY <1>7 DEF Pool!Transformer
<1>8. CASE Pool!TransformerError
  BY <1>8 DEF Pool!TransformerError
<1>9. CASE Pool!Commit
  <2>1. PICK J : jobs \in Seq(J)
    BY DEF P!KvInv, P!IInv, P!Counted, P!TypeOK
  <2>2. DOMAIN jobs = 1 .. Len(jobs) /\ Len(jobs) \in Nat
    BY <2>1, LenProperties
  <2>3. phase = "commit" /\ at \in DOMAIN jobs
    BY <1>9, CallJobs DEF Pool!Commit
  <2>4. IF at < Len(jobs)
        THEN at' = at + 1 /\ UNCHANGED <<phase, op, jobs, pos, result>>
        ELSE phase' = "idle" /\ result' = "ok"
    BY <1>9 DEF Pool!Commit, Pool!Finish
  <2> QED BY <2>2, <2>3, <2>4
<1> QED BY <1>1, <1>2, <1>3, <1>4, <1>5, <1>6, <1>7, <1>8, <1>9 DEF Pool!CallStep

(* The cache a pass advances holds the longer beginning of its text. *)
LEMMA Advanced ==
  ASSUME Known, RowsOK, NEW s \in live, NEW w \in Seq(Token), Aligned(s),
         \/ pc # "forwardCall" /\ PromptPart(s, w)
         \/ pc # "serialCall" /\ SampledPart(s, w),
         ids' = [ids EXCEPT ![s] = ids[s] \o w],
         UNCHANGED <<pc, req, generated, replay>>
  PROVE  ids'[s] \in Seq(Token) /\ Follows(ids'[s], 0, Text(s)) /\ Stepped(s)'
<1>1. last \in [Id -> Seq(Token) \cup {None}] /\ \A x \in Given : Follows(ids[x], 0, Text(x))
  BY DEF RowsOK
<1>2. /\ s \in Given /\ s \in Id
      /\ ids \in [Id -> Seq(Token)] /\ generated \in [Id -> Seq(Token)] /\ replay \in [Id -> Nat]
      /\ req[s].prompt \in Seq(Token) /\ Goal(s) \in Nat
  BY <1>1, Typed
<1>3. PICK v, p, g \in Seq(Token), r \in Nat :
        v = ids[s] /\ p = req[s].prompt /\ g = generated[s] /\ r = replay[s]
  BY <1>2
<1>4. /\ Goal(s) = Len(p) /\ Text(s) = p \o g /\ p \o g \in Seq(Token)
      /\ Len(v) \in Nat /\ Len(p) \in Nat /\ Len(g) \in Nat /\ Len(w) \in Nat
  BY <1>3, ConcatProperties, LenProperties DEF Goal, Text
<1>5. ids'[s] = v \o w /\ v \o w \in Seq(Token) /\ Len(v \o w) = Len(v) + Len(w)
  BY <1>2, <1>3, ConcatProperties
<1>6. Follows(v, 0, p \o g)
  BY <1>1, <1>2, <1>3, <1>4
<1>7. (Len(v) < Len(p) /\ r = 0) \/ Len(v) = Len(p) + r
  BY <1>3, <1>4 DEF Aligned
<1>8. PICK n : n = Len(ids'[s])
  OBVIOUS
<1>9. n = Len(v) + Len(w)
  BY <1>5, <1>8
<1>10. CASE pc # "forwardCall" /\ PromptPart(s, w)
  <2>1. w # <<>> /\ Follows(w, Len(v), p)
    BY <1>3, <1>10 DEF PromptPart
  <2>2. Len(w) > 0
    BY <1>4, <2>1, EmptySeq
  <2>3. Len(v) + Len(w) <= Len(p)
    BY <2>1 DEF Follows
  <2>4. r = 0 /\ n >= 1 /\ n <= Len(p)
    BY <1>4, <1>7, <1>9, <2>2, <2>3
  <2>5. Follows(w, Len(v), p \o g)
    BY <1>4, <2>1, FollowsText
  <2>6. Follows(v \o w, 0, p \o g)
    BY <1>4, <1>6, <2>5, FollowsConcat
  <2>7. Stepped(s)'
    BY <1>3, <1>4, <1>8, <1>10, <2>4 DEF Stepped, Goal
  <2> QED BY <1>4, <1>5, <2>6, <2>7
<1>11. CASE pc # "serialCall" /\ SampledPart(s, w)
  <2>1. r < Len(g) /\ Len(v) = Len(p) + r /\ w = <<g[r + 1]>>
    BY <1>3, <1>4, <1>11 DEF SampledPart
  <2>2. Follows(w, Len(v), p \o g)
    BY <2>1, FollowsNext
  <2>3. Follows(v \o w, 0, p \o g)
    BY <1>4, <1>6, <2>2, FollowsConcat
  <2>4. n = Len(p) + r + 1
    <3>1. Len(w) = 1
      BY <2>1
    <3> QED BY <1>9, <2>1, <3>1
  <2>5. Stepped(s)'
    BY <1>3, <1>4, <1>8, <1>11, <2>1, <2>4 DEF Stepped, Goal
  <2> QED BY <1>4, <1>5, <2>3, <2>5
<1> QED BY <1>10, <1>11

LEMMA PoolStepOutput == ASSUME Known, Output, PoolStep PROVE Output'
<1>0. /\ Placed /\ P!KvInv /\ CtlOK /\ Pool!CallStep
      /\ RowsOK /\ SuffixText /\ JobsOK /\ ItemsText
  BY DEF Known, Calls, PoolStep, Output
<1>1. /\ phase # "idle" /\ UNCHANGED live /\ (phase' # "idle" => UNCHANGED jobs)
      /\ \/ UNCHANGED <<ids, suffix>> /\ phase # "commit"
         \/ /\ phase = "commit"
            /\ ids' = [ids EXCEPT ![jobs[at].seq] = ids[jobs[at].seq] \o jobs[at].toks]
            /\ suffix' = [suffix EXCEPT ![jobs[at].seq] = <<>>]
            /\ phase' = "idle" \/ (phase' = "commit" /\ at' = at + 1)
  BY <1>0, CallIds
<1>2. /\ UNCHANGED <<next, req, slots, wait, generated, last, replay, done, seqVars, genVars>>
      /\ UNCHANGED <<pc, mode, items, k>>
  BY DEF PoolStep, seqVars, genVars, ctlVars
<1>3. /\ at \in Nat /\ at \in DOMAIN jobs /\ DOMAIN jobs \subseteq Nat
      /\ \A m \in DOMAIN jobs : jobs[m].seq \in Id /\ jobs[m].toks \in Seq(Token)
      /\ \A m, n \in DOMAIN jobs : jobs[m].seq = jobs[n].seq => m = n
  BY <1>0, <1>1, CallJobs
<1>4. last \in [Id -> Seq(Token) \cup {None}]
  BY <1>0 DEF RowsOK
<1>5. /\ ids \in [Id -> Seq(Token)] /\ suffix \in [Id -> Seq(Token)]
      /\ live \subseteq Given /\ Given \subseteq Id
  BY <1>4, Typed
<1>6. UNCHANGED <<Members, Given, ToSet(wait)>> /\ (Decoding' <=> Decoding)
  BY <1>2 DEF Members, Batched, Given, ToSet, Decoding
<1>7. ItemsText'
  BY <1>0, <1>2, <1>6, SameItems
<1>8. CASE pc \notin {"serialCall", "batchCall", "forwardCall"}
  <2>1. phase # "commit"
    BY <1>0, <1>1, <1>8 DEF CtlOK, CallPcs
  <2>2. UNCHANGED <<ids, suffix>> /\ \A s \in live : ~Committed(s)
    BY <1>1, <1>8, <2>1, NoPass
  <2>3. RowsOK' /\ SuffixText' /\ JobsOK'
    BY <1>0, <1>1, <1>2, <1>8, <2>2, Still
  <2> QED BY <1>7, <2>3 DEF Output
<1>9. CASE pc \in {"serialCall", "batchCall", "forwardCall"}
  <2>1. /\ op = "prefill" /\ (phase = "compute" => at = 1)
        /\ Members \subseteq live
        /\ \A s \in Members : \E j \in DOMAIN jobs : jobs[j].seq = s
        /\ \A j \in Remaining : jobs[j].seq \in Members /\ JobText(j)
    BY <1>0, <1>1, <1>9 DEF JobsOK
  <2>2. /\ phase' # "idle" => op' = "prefill"
        /\ phase' = "idle" /\ phase # "commit" => result' # "ok"
        /\ phase' = "compute" => at' = 1
        /\ phase' = "commit" /\ phase # "commit" => phase = "compute" /\ at' = at
        /\ phase = "commit" /\ phase' = "idle" =>
             result' = "ok" /\ \A j \in DOMAIN jobs : j <= at
    BY <1>0, <2>1, PassPhases
  <2>3. CASE phase # "commit" /\ UNCHANGED <<ids, suffix>>
    <3>1. Remaining = DOMAIN jobs
      BY <2>3 DEF Remaining
    <3>2. phase' # "idle" => Remaining' = DOMAIN jobs
      <4>1. \A j \in DOMAIN jobs : j >= 1
        <5>1. PICK J : jobs \in Seq(J)
          BY <1>0 DEF P!KvInv, P!IInv, P!Counted, P!TypeOK
        <5> QED BY <5>1, LenProperties
      <4>2. CASE phase' = "commit"
        <5>1. jobs' = jobs /\ at' = 1
          BY <1>1, <2>1, <2>2, <2>3, <4>2
        <5> QED BY <4>1, <4>2, <5>1 DEF Remaining
      <4>3. CASE phase' # "commit"
        BY <1>1, <4>3 DEF Remaining
      <4> QED BY <4>2, <4>3
    <3>3. \A s : ~Committed(s) /\ ~Committed(s)'
      <4> SUFFICES ASSUME NEW s PROVE ~Committed(s) /\ ~Committed(s)'
        OBVIOUS
      <4>1. ~Committed(s)
        BY <1>1, <2>1, <3>1 DEF Committed
      <4>2. ASSUME phase' = "idle" PROVE ~Committed(s)'
        BY <2>2, <2>3, <4>2 DEF Committed
      <4>3. ASSUME phase' # "idle" PROVE ~Committed(s)'
        <5>1. ~(s \in Members /\ \A j \in DOMAIN jobs : jobs[j].seq # s)
          BY <2>1
        <5>2. jobs' = jobs /\ Remaining' = DOMAIN jobs /\ Members' = Members
          BY <1>1, <1>6, <3>2, <4>3
        <5> QED BY <4>3, <5>1, <5>2 DEF Committed
      <4> QED BY <4>1, <4>2, <4>3
    <3>4. RowsOK'
      <4>1. \A s \in Given' : Follows(ids'[s], 0, Text(s)')
        BY <1>0, <1>2, <1>6, <2>3 DEF RowsOK, Text
      <4>2. \A s \in live' : Row(s)'
        BY <1>0, <1>1, <1>2, <2>3, <3>3 DEF RowsOK, Row, Aligned, Fresh, Goal
      <4>3. /\ \A x \in Id : x \notin live' => ids'[x] = <<>>
            /\ \A x \in Id : x \notin Given' \/ x \in ToSet(wait') => Blank(x)'
            /\ last' \in [Id -> Seq(Token) \cup {None}]
        BY <1>0, <1>1, <1>2, <1>6, <2>3 DEF RowsOK, Blank
      <4> QED BY <4>1, <4>2, <4>3 DEF RowsOK
    <3>5. SuffixText'
      BY <1>0, <1>2, <2>3 DEF SuffixText
    <3>6. JobsOK'
      <4>1. CASE phase' = "idle"
        BY <1>1, <1>6, <2>1, <4>1 DEF JobsOK
      <4>2. CASE phase' # "idle"
        <5>1. jobs' = jobs /\ op' = "prefill" /\ Remaining' = DOMAIN jobs
          BY <1>1, <2>2, <3>2, <4>2
        <5>2. \A j \in DOMAIN jobs : jobs[j].seq \in Members' /\ JobText(j)'
          <6> SUFFICES ASSUME NEW j \in DOMAIN jobs PROVE jobs[j].seq \in Members' /\ JobText(j)'
            OBVIOUS
          <6>1. jobs[j].seq \in Members /\ JobText(j)
            BY <2>1, <3>1
          <6> QED BY <1>2, <1>6, <2>3, <5>1, <6>1 DEF JobText, PromptPart, SampledPart, Goal
        <5> QED BY <1>1, <1>6, <2>1, <2>2, <5>1, <5>2 DEF JobsOK
      <4> QED BY <4>1, <4>2
    <3> QED BY <1>7, <3>4, <3>5, <3>6 DEF Output
  <2>4. CASE /\ phase = "commit"
             /\ ids' = [ids EXCEPT ![jobs[at].seq] = ids[jobs[at].seq] \o jobs[at].toks]
             /\ suffix' = [suffix EXCEPT ![jobs[at].seq] = <<>>]
             /\ phase' = "idle" \/ (phase' = "commit" /\ at' = at + 1)
    <3>1. PICK c, s, w : c = at /\ s = jobs[c].seq /\ w = jobs[c].toks
      OBVIOUS
    <3>2. /\ c \in Nat /\ c \in DOMAIN jobs /\ c \in Remaining
          /\ s \in Members /\ s \in live /\ s \in Id /\ w \in Seq(Token) /\ JobText(c)
      BY <1>3, <2>1, <2>4, <3>1 DEF Remaining
    <3>3. /\ ids' = [ids EXCEPT ![s] = ids[s] \o w] /\ suffix' = [suffix EXCEPT ![s] = <<>>]
          /\ phase' = "idle" \/ (phase' = "commit" /\ at' = c + 1)
      BY <2>4, <3>1
    <3>4. ~Committed(s)
      BY <1>1, <3>1, <3>2 DEF Committed
    <3>5. ids'[s] \in Seq(Token) /\ Follows(ids'[s], 0, Text(s)) /\ Stepped(s)'
      <4>1. Aligned(s)
        BY <1>0, <3>2, <3>4 DEF RowsOK, Row
      <4>2. \/ pc # "forwardCall" /\ PromptPart(s, w)
            \/ pc # "serialCall" /\ SampledPart(s, w)
        BY <3>1, <3>2 DEF JobText
      <4> QED BY <1>0, <1>2, <3>2, <3>3, <4>1, <4>2, Advanced
    <3>6. \A x \in Id : x # s => ids'[x] = ids[x] /\ suffix'[x] = suffix[x]
      BY <1>5, <3>3
    <3>7. phase' # "idle" => /\ phase' = "commit" /\ jobs' = jobs
                             /\ Remaining' = {j \in DOMAIN jobs : j >= c + 1}
      BY <1>1, <3>3 DEF Remaining
    <3>8. Remaining = {j \in DOMAIN jobs : j >= c}
      BY <2>4, <3>1 DEF Remaining
    <3>9. \A j \in DOMAIN jobs : j >= c => j = c \/ j >= c + 1
      BY <1>3, <3>2
    <3>10. \A j \in DOMAIN jobs : jobs[j].seq = s => j = c
      BY <1>3, <3>1, <3>2
    <3>11. Committed(s)'
      <4>1. CASE phase' = "idle"
        BY <1>6, <2>2, <2>4, <3>2, <4>1 DEF Committed
      <4>2. CASE phase' # "idle"
        <5>1. \A j \in Remaining' : jobs'[j].seq # s
          BY <1>3, <3>2, <3>7, <3>10, <4>2
        <5> QED BY <1>6, <3>2, <4>2, <5>1 DEF Committed
      <4> QED BY <4>1, <4>2
    <3>12. ASSUME NEW x \in Id, x # s PROVE Committed(x)' <=> Committed(x)
      <4>1. CASE phase' = "idle"
        <5>1. \A j \in Remaining : jobs[j].seq # x
          <6>1. \A j \in DOMAIN jobs : j <= c
            BY <2>2, <2>4, <3>1, <4>1
          <6>2. \A j \in Remaining : j = c
            BY <1>3, <3>2, <3>8, <6>1
          <6> QED BY <3>1, <3>12, <6>2
        <5> QED BY <1>1, <1>6, <2>2, <2>4, <4>1, <5>1 DEF Committed
      <4>2. CASE phase' # "idle"
        <5>1. (\A j \in Remaining' : jobs'[j].seq # x) <=> (\A j \in Remaining : jobs[j].seq # x)
          BY <3>1, <3>7, <3>8, <3>9, <3>12, <4>2, <1>3, <3>2
        <5> QED BY <1>1, <1>6, <4>2, <5>1 DEF Committed
      <4> QED BY <4>1, <4>2
    <3>13. RowsOK'
      <4>1. ASSUME NEW x \in Given' PROVE Follows(ids'[x], 0, Text(x)')
        <5>1. x \in Given /\ x \in Id /\ Text(x)' = Text(x)
          BY <1>2, <1>5, <1>6 DEF Text
        <5>2. CASE x = s
          BY <3>5, <5>1, <5>2
        <5>3. CASE x # s
          <6>1. ids'[x] = ids[x] /\ Follows(ids[x], 0, Text(x))
            BY <1>0, <3>6, <5>1, <5>3 DEF RowsOK
          <6> QED BY <5>1, <6>1
        <5> QED BY <5>2, <5>3
      <4>2. ASSUME NEW x \in live' PROVE Row(x)'
        <5>1. CASE x = s
          BY <3>5, <3>11, <5>1 DEF Row
        <5>2. CASE x # s
          <6>1. x \in Id /\ Row(x) /\ ids'[x] = ids[x] /\ (Committed(x)' <=> Committed(x))
            BY <1>0, <1>1, <1>5, <3>6, <3>12, <5>2 DEF RowsOK
          <6> QED BY <1>2, <6>1 DEF Row, Stepped, Aligned, Fresh, Goal
        <5> QED BY <5>1, <5>2
      <4>3. /\ \A x \in Id : x \notin live' => ids'[x] = <<>>
            /\ \A x \in Id : x \notin Given' \/ x \in ToSet(wait') => Blank(x)'
            /\ last' \in [Id -> Seq(Token) \cup {None}]
        BY <1>0, <1>1, <1>2, <1>6, <3>2, <3>6 DEF RowsOK, Blank
      <4> QED BY <4>1, <4>2, <4>3 DEF RowsOK
    <3>14. SuffixText'
      <4> SUFFICES ASSUME NEW x \in Id, suffix'[x] # <<>>
                   PROVE  Follows(suffix'[x], Len(ids'[x]), req'[x].prompt)
        BY DEF SuffixText
      <4>1. x # s
        BY <1>5, <3>3
      <4> QED BY <1>0, <1>2, <3>6, <4>1 DEF SuffixText
    <3>15. JobsOK'
      <4>1. CASE phase' = "idle"
        BY <1>1, <1>6, <2>1, <4>1 DEF JobsOK
      <4>2. CASE phase' # "idle"
        <5>1. \A j \in Remaining' : jobs'[j].seq \in Members' /\ JobText(j)'
          <6> SUFFICES ASSUME NEW j \in DOMAIN jobs, j >= c + 1
                       PROVE  jobs'[j].seq \in Members' /\ JobText(j)'
            BY <3>7, <4>2
          <6>1. j \in Remaining /\ j # c
            BY <1>3, <3>2, <3>8
          <6>2. jobs[j].seq \in Members /\ JobText(j) /\ jobs[j].seq # s /\ jobs[j].seq \in Id
            BY <1>3, <2>1, <3>10, <6>1
          <6>3. ids'[jobs[j].seq] = ids[jobs[j].seq] /\ jobs' = jobs
            BY <3>6, <3>7, <4>2, <6>2
          <6> QED BY <1>2, <1>6, <6>2, <6>3 DEF JobText, PromptPart, SampledPart, Goal
        <5>2. jobs' = jobs /\ phase' = "commit" /\ op' = "prefill"
          BY <2>2, <3>7, <4>2
        <5> QED BY <1>1, <1>6, <2>1, <5>1, <5>2 DEF JobsOK
      <4> QED BY <4>1, <4>2
    <3> QED BY <1>7, <3>13, <3>14, <3>15 DEF Output
  <2> QED BY <1>1, <2>3, <2>4
<1> QED BY <1>8, <1>9

-----------------------------------------------------------------------------
(* A forward pass returns. *)

(* Logits come from everything the cache holds, which is the text in it. *)
LEMMA LogitsText ==
  ASSUME P!KvInv, NEW s \in Id, Len(ids[s]) >= 1
  PROVE  Logits(s) = ids[s]
<1>1. ids[s] \in Seq(Token) /\ P!Holds(s, Len(ids[s]), ids[s])
  BY PoolTypes DEF P!KvInv, P!Exact
<1>2. PICK n : n = Len(ids[s])
  OBVIOUS
<1>3. n \in Nat /\ n >= 1 /\ n - 1 \in 0 .. n - 1 /\ n - 1 + 1 = n
  BY <1>1, <1>2, LenProperties
<1>4. P!Read(s, n - 1) = SubSeq(ids[s], 1, n - 1 + 1)
  BY <1>1, <1>2, <1>3 DEF P!Holds
<1>5. SubSeq(ids[s], 1, n) = ids[s]
  <2>1. PICK t : t = ids[s]
    OBVIOUS
  <2>2. t \in Seq(Token) /\ n = Len(t)
    BY <1>1, <1>2, <2>1
  <2>3. SubSeq(t, 1, n) \in Seq(Token) /\ Len(SubSeq(t, 1, n)) = n
    BY <1>3, <2>2, SubSeqProperties
  <2>4. \A i \in 1 .. n : SubSeq(t, 1, n)[i] = t[i]
    BY <1>3, <2>2, SubSeqProperties
  <2> QED BY <2>1, <2>2, <2>3, <2>4, SeqEqual
<1>6. Logits(s) = P!Read(s, n - 1)
  BY <1>2 DEF Logits, Pool!Read, P!Read
<1> QED BY <1>3, <1>4, <1>5, <1>6

LEMMA PassEnds ==
  ASSUME Known, Output, pc \in {"serialCall", "batchCall", "forwardCall"},
         phase = "idle", result = "ok",
         pc' \in {"serial", "sample", "replays", "idle"},
         UNCHANGED <<poolVars, seqVars, generated>>,
         \A s \in Members : last'[s] = Logits(s) /\ Aligned(s)',
         \A s \in Id : s \notin Members => last'[s] = last[s] /\ replay'[s] = replay[s],
         last' = [s \in Id |-> last'[s]]
  PROVE  Output'
<1>1. /\ RowsOK /\ SuffixText /\ P!KvInv /\ Placed /\ Apart /\ Members \subseteq live
  BY DEF Known, Output, Placed, JobsOK
<1>2. last \in [Id -> Seq(Token) \cup {None}]
  BY <1>1 DEF RowsOK
<1>3. /\ live \subseteq Given /\ Given \subseteq Id /\ ids \in [Id -> Seq(Token)]
      /\ replay \in [Id -> Nat]
      /\ \A s \in Given : Goal(s) \in Nat
  BY <1>2, Typed
<1>4. /\ UNCHANGED <<ids, suffix, live, next, req, slots, wait, Given, ToSet(wait)>>
  BY DEF poolVars, seqVars, Given, ToSet
<1>5. \A s : Committed(s) <=> s \in Members
  BY DEF Committed
<1>6. \A s \in Members : last'[s] = ids[s]
  <2> SUFFICES ASSUME NEW s \in Members PROVE last'[s] = ids[s]
    OBVIOUS
  <2>1. Stepped(s) /\ s \in Id /\ s \in Given
    BY <1>1, <1>3, <1>5 DEF RowsOK, Row
  <2>2. PICK n, g, r \in Nat : n = Len(ids[s]) /\ g = Goal(s) /\ r = replay[s]
    BY <1>3, <2>1, LenProperties
  <2>3. n >= 1
    BY <2>1, <2>2 DEF Stepped
  <2> QED BY <1>1, <2>1, <2>2, <2>3, LogitsText
<1>7. JobsOK' /\ \A s : ~Committed(s)'
  BY NoPassNext
<1>8. RowsOK'
  <2>1. \A s \in Given' : Follows(ids'[s], 0, Text(s)')
    BY <1>1, <1>4 DEF RowsOK, Text
  <2>2. ASSUME NEW s \in live' PROVE Aligned(s)' /\ Fresh(s)'
    <3>1. CASE s \in Members
      BY <1>4, <1>6, <3>1 DEF Fresh
    <3>2. CASE s \notin Members
      <4>1. Aligned(s) /\ Fresh(s) /\ s \in Id
        BY <1>1, <1>3, <1>4, <1>5, <3>2 DEF RowsOK, Row
      <4> QED BY <1>4, <3>2, <4>1 DEF Aligned, Fresh, Goal
    <3> QED BY <3>1, <3>2
  <2>3. \A s \in live' : Row(s)'
    BY <1>7, <2>2 DEF Row
  <2>4. \A s \in Id : s \notin Given' \/ s \in ToSet(wait') => Blank(s)'
    <3> SUFFICES ASSUME NEW s \in Id, s \notin Given \/ s \in ToSet(wait) PROVE Blank(s)'
      BY <1>4
    <3>1. Blank(s) /\ s \notin Members
      BY <1>1, <1>3 DEF RowsOK, Apart
    <3> QED BY <3>1 DEF Blank
  <2>5. last' \in [Id -> Seq(Token) \cup {None}]
    <3>1. \A s \in Id : last'[s] \in Seq(Token) \cup {None}
      BY <1>2, <1>3, <1>6
    <3> QED BY <3>1
  <2>6. \A x \in Id : x \notin live' => ids'[x] = <<>>
    BY <1>1, <1>4 DEF RowsOK
  <2> QED BY <2>1, <2>3, <2>4, <2>5, <2>6 DEF RowsOK
<1>9. SuffixText'
  BY <1>1, <1>4 DEF SuffixText
<1>10. ItemsText'
  BY QuietItems DEF Decoding
<1> QED BY <1>7, <1>8, <1>9, <1>10 DEF Output

(* What a pass did to a cache, in numbers. *)
LEMMA SteppedMember ==
  ASSUME Known, Output, pc \in {"serialCall", "batchCall", "forwardCall"},
         phase = "idle", result = "ok", NEW s \in Members
  PROVE  /\ s \in Id /\ s \in live
         /\ \E n, g, r \in Nat :
              /\ n = Len(ids[s]) /\ g = Goal(s) /\ r = replay[s]
              /\ \/ pc # "forwardCall" /\ r = 0 /\ n <= g
                 \/ pc # "serialCall" /\ n = g + r + 1
<1>1. RowsOK /\ s \in live /\ Committed(s)
  BY DEF Output, JobsOK, Committed
<1>2. last \in [Id -> Seq(Token) \cup {None}] /\ Stepped(s)
  BY <1>1 DEF RowsOK, Row
<1>3. /\ s \in Given /\ s \in Id /\ Len(ids[s]) \in Nat /\ Goal(s) \in Nat /\ replay[s] \in Nat
  BY <1>1, <1>2, Typed
<1>4. \/ pc # "forwardCall" /\ replay[s] = 0 /\ Len(ids[s]) <= Goal(s)
      \/ pc # "serialCall" /\ Len(ids[s]) = Goal(s) + replay[s] + 1
  BY <1>2 DEF Stepped
<1> QED BY <1>1, <1>3, <1>4

LEMMA SerialDoneOutput == ASSUME Known, Output, SerialDone PROVE Output'
<1>1. /\ pc = "serialCall" /\ phase = "idle" /\ result = "ok" /\ pc' = "serial"
      /\ last' = [last EXCEPT ![slots[k]] = Logits(slots[k])]
      /\ UNCHANGED <<poolVars, seqVars, generated, replay>>
  BY DEF SerialDone, Ended
<1>2. last \in [Id -> Seq(Token) \cup {None}]
  BY DEF Output, RowsOK
<1>3. \A s \in Id : s \in Members <=> s = slots[k]
  BY <1>1 DEF Members
<1>4. \A s \in Members : last'[s] = Logits(s)
  <2> SUFFICES ASSUME NEW s \in Members PROVE last'[s] = Logits(s)
    OBVIOUS
  <2>1. s \in Id /\ s = slots[k]
    BY <1>3 DEF Members
  <2> QED BY <1>1, <1>2, <2>1
<1>5. \A s \in Members : Aligned(s)'
  <2> SUFFICES ASSUME NEW s \in Members PROVE Aligned(s)'
    OBVIOUS
  <2>1. PICK n, g, r \in Nat :
          /\ n = Len(ids[s]) /\ g = Goal(s) /\ r = replay[s]
          /\ \/ pc # "forwardCall" /\ r = 0 /\ n <= g
             \/ pc # "serialCall" /\ n = g + r + 1
    BY <1>1, SteppedMember
  <2>2. r = 0 /\ (n < g \/ n = g + r)
    BY <1>1, <2>1
  <2>3. Len(ids'[s]) = n /\ Goal(s)' = g /\ replay'[s] = r
    BY <1>1, <2>1 DEF poolVars, seqVars, Goal
  <2> QED BY <2>2, <2>3 DEF Aligned
<1>6. \A s \in Id : s \notin Members => last'[s] = last[s] /\ replay'[s] = replay[s]
  BY <1>1, <1>2, <1>3
<1>7. last' = [s \in Id |-> last'[s]]
  BY <1>1, <1>2
<1> QED BY <1>1, <1>4, <1>5, <1>6, <1>7, PassEnds

LEMMA BatchDoneOutput == ASSUME Known, Output, BatchDone PROVE Output'
<1>1. /\ pc = "batchCall" /\ phase = "idle" /\ result = "ok" /\ pc' = "sample"
      /\ last' = [s \in Id |-> IF s \in Batched THEN Logits(s) ELSE last[s]]
      /\ replay' = [s \in Id |->
           IF s \in Batched /\ Len(ids[s]) > Len(req[s].prompt) THEN replay[s] + 1 ELSE replay[s]]
      /\ UNCHANGED <<poolVars, seqVars, generated>>
  BY DEF BatchDone, Ended, Goto
<1>2. \A s \in Id : s \in Members <=> s \in Batched
  BY <1>1 DEF Members
<1>3. \A s \in Members : last'[s] = Logits(s)
  BY <1>1, <1>2 DEF Members
<1>4. \A s \in Members : Aligned(s)'
  <2> SUFFICES ASSUME NEW s \in Members PROVE Aligned(s)'
    OBVIOUS
  <2>1. PICK n, g, r \in Nat :
          /\ n = Len(ids[s]) /\ g = Goal(s) /\ r = replay[s]
          /\ \/ pc # "forwardCall" /\ r = 0 /\ n <= g
             \/ pc # "serialCall" /\ n = g + r + 1
    BY <1>1, SteppedMember
  <2>2. s \in Id /\ s \in Batched
    BY <1>2 DEF Members
  <2>3. Len(ids'[s]) = n /\ Goal(s)' = g
    BY <1>1, <2>1 DEF poolVars, seqVars, Goal
  <2>4. replay'[s] = IF n > g THEN r + 1 ELSE r
    BY <1>1, <2>1, <2>2 DEF Goal
  <2>5. PICK q : q = replay'[s]
    OBVIOUS
  <2>6. (n < g /\ q = 0) \/ n = g + q
    BY <2>1, <2>4, <2>5
  <2> QED BY <2>3, <2>5, <2>6 DEF Aligned
<1>5. \A s \in Id : s \notin Members => last'[s] = last[s] /\ replay'[s] = replay[s]
  BY <1>1, <1>2
<1>6. last' = [s \in Id |-> last'[s]]
  BY <1>1
<1> QED BY <1>1, <1>3, <1>4, <1>5, <1>6, PassEnds

LEMMA ForwardDoneOutput == ASSUME Known, Output, ForwardDone PROVE Output'
<1>1. /\ pc = "forwardCall" /\ phase = "idle" /\ result = "ok" /\ pc' \in {"replays", "idle"}
      /\ last' = [s \in Id |-> IF s \in Batched THEN Logits(s) ELSE last[s]]
      /\ replay' = [s \in Id |-> IF s \notin Batched THEN replay[s]
                                 ELSE IF mode = "replay" THEN replay[s] + 1
                                 ELSE Len(generated[s])]
      /\ UNCHANGED <<poolVars, seqVars, generated>>
  BY DEF ForwardDone, Ended, Goto
<1>2. \A s \in Id : s \in Members <=> s \in Batched
  BY <1>1 DEF Members
<1>3. \A s \in Members : last'[s] = Logits(s)
  BY <1>1, <1>2 DEF Members
<1>4. \A s \in Members : Aligned(s)'
  <2> SUFFICES ASSUME NEW s \in Members PROVE Aligned(s)'
    OBVIOUS
  <2>1. PICK n, g, r \in Nat :
          /\ n = Len(ids[s]) /\ g = Goal(s) /\ r = replay[s]
          /\ \/ pc # "forwardCall" /\ r = 0 /\ n <= g
             \/ pc # "serialCall" /\ n = g + r + 1
    BY <1>1, SteppedMember
  <2>2. s \in Id /\ s \in Batched
    BY <1>2 DEF Members
  <2>3. Len(ids'[s]) = n /\ Goal(s)' = g
    BY <1>1, <2>1 DEF poolVars, seqVars, Goal
  <2>4. replay'[s] = r + 1
    <3>1. CASE mode = "replay"
      BY <1>1, <2>1, <2>2, <3>1
    <3>2. CASE mode # "replay"
      <4>1. \A m \in DOMAIN items : replay[slots[items[m]]] + 1 = Len(generated[slots[items[m]]])
        BY <1>1, <3>2 DEF Output, ItemsText, Decoding
      <4>2. PICK m \in DOMAIN items : s = slots[items[m]]
        BY <2>2 DEF Batched, ToSet
      <4>3. replay'[s] = Len(generated[s])
        BY <1>1, <2>2, <3>2
      <4> QED BY <2>1, <4>1, <4>2, <4>3
    <3> QED BY <3>1, <3>2
  <2>5. n = g + (r + 1)
    BY <1>1, <2>1
  <2> QED BY <2>3, <2>4, <2>5 DEF Aligned
<1>5. \A s \in Id : s \notin Members => last'[s] = last[s] /\ replay'[s] = replay[s]
  BY <1>1, <1>2
<1>6. last' = [s \in Id |-> last'[s]]
  BY <1>1
<1> QED BY <1>1, <1>3, <1>4, <1>5, <1>6, PassEnds

-----------------------------------------------------------------------------
(* A token is sampled. *)

(* Greedy decoding of prompt p produces g, and then perhaps more. *)
Greedily(p, g) ==
  \A n \in 1 .. Len(g) : g[n] = Greedy(p \o SubSeq(g, 1, n - 1)) /\ g[n] # Eos

LEMMA Whole == ASSUME NEW g \in Seq(Token) PROVE SubSeq(g, 1, Len(g)) = g
<1>1. PICK n \in Nat : n = Len(g)
  BY LenProperties
<1>2. \A i \in 1 .. n : g[i] \in Token
  BY <1>1, ElementOfSeq
<1>3. SubSeq(g, 1, n) \in Seq(Token) /\ Len(SubSeq(g, 1, n)) = n
  BY <1>2, SubSeqProperties
<1>4. \A i \in 1 .. n : SubSeq(g, 1, n)[i] = g[i]
  BY <1>2, SubSeqProperties
<1> QED BY <1>1, <1>3, <1>4, SeqEqual

LEMMA GreedyMore ==
  ASSUME NEW p \in Seq(Token), NEW g \in Seq(Token), NEW x \in Token,
         Greedily(p, g), x = Greedy(p \o g), x # Eos
  PROVE  Greedily(p, Append(g, x))
<1>0. PICK n \in Nat : n = Len(g)
  BY LenProperties
<1>1. PICK h : n = Len(g) /\ h = Append(g, x)
  BY <1>0
<1>2. /\ h \in Seq(Token) /\ Len(h) = n + 1 /\ h[n + 1] = x
      /\ \A i \in 1 .. n : h[i] = g[i]
  BY <1>1, AppendProperties
<1>3. ASSUME NEW m \in 0 .. n PROVE SubSeq(h, 1, m) = SubSeq(g, 1, m)
  <2>1. \A i \in 1 .. m : g[i] \in Token /\ h[i] = g[i] /\ 1 + i - 1 = i
    BY <1>1, <1>2, ElementOfSeq
  <2>2. /\ SubSeq(g, 1, m) \in Seq(Token) /\ SubSeq(h, 1, m) \in Seq(Token)
        /\ Len(SubSeq(g, 1, m)) = m /\ Len(SubSeq(h, 1, m)) = m
        /\ \A i \in 1 .. m : SubSeq(g, 1, m)[i] = g[i] /\ SubSeq(h, 1, m)[i] = h[i]
    <3>1. /\ SubSeq(g, 1, m) \in Seq(Token)
          /\ Len(SubSeq(g, 1, m)) = IF 1 <= m THEN m - 1 + 1 ELSE 0
          /\ \A i \in 1 .. m - 1 + 1 : SubSeq(g, 1, m)[i] = g[1 + i - 1]
      BY <2>1, SubSeqProperties
    <3>2. /\ SubSeq(h, 1, m) \in Seq(Token)
          /\ Len(SubSeq(h, 1, m)) = IF 1 <= m THEN m - 1 + 1 ELSE 0
          /\ \A i \in 1 .. m - 1 + 1 : SubSeq(h, 1, m)[i] = h[1 + i - 1]
      <4>1. \A i \in 1 .. m : h[i] \in Token
        BY <2>1
      <4> QED BY <4>1, SubSeqProperties
    <3>3. m \in Nat /\ m - 1 + 1 = m /\ (IF 1 <= m THEN m - 1 + 1 ELSE 0) = m
      BY <1>1
    <3> QED BY <2>1, <3>1, <3>2, <3>3
  <2> QED BY <2>1, <2>2, SeqEqual
<1>4. ASSUME NEW i \in 1 .. n + 1
      PROVE  h[i] = Greedy(p \o SubSeq(h, 1, i - 1)) /\ h[i] # Eos
  <2>1. CASE i <= n
    <3>1. i \in 1 .. n /\ i - 1 \in 0 .. n
      BY <2>1
    <3>2. g[i] = Greedy(p \o SubSeq(g, 1, i - 1)) /\ g[i] # Eos
      BY <1>1, <3>1 DEF Greedily
    <3>3. SubSeq(h, 1, i - 1) = SubSeq(g, 1, i - 1) /\ h[i] = g[i]
      BY <1>2, <1>3, <3>1
    <3> QED BY <3>2, <3>3
  <2>2. CASE i = n + 1
    <3>1. i - 1 = n /\ n \in 0 .. n
      BY <2>2
    <3>2. SubSeq(h, 1, n) = g
      BY <1>1, <1>3, <3>1, Whole
    <3> QED BY <1>2, <2>2, <3>1, <3>2
  <2> QED BY <2>1, <2>2
<1> QED BY <1>1, <1>2, <1>4 DEF Greedily

(* The same of every sequence, with the end of its answer: this is OutputsGreedy. *)
Answer(s) ==
  /\ Greedily(req[s].prompt, generated[s])
  /\ Len(generated[s]) <= req[s].predict
  /\ s \in done => \/ Len(generated[s]) = req[s].predict
                   \/ Greedy(Text(s)) = Eos

LEMMA AnswersGreedy ==
  ASSUME generated \in [Id -> Seq(Token)], Given \subseteq Id
  PROVE  OutputsGreedy <=> \A s \in Given : Answer(s)
<1>1. ASSUME NEW s \in Given PROVE SubSeq(generated[s], 1, Len(generated[s])) = generated[s]
  BY Whole
<1> QED BY <1>1 DEF OutputsGreedy, Answer, Greedily, Text, Given

(* Who is sampled has its whole text in KV, and logits of just that. *)
LEMMA SampleText ==
  ASSUME Known, RowsOK, \A s \in live : ~Committed(s), NEW s \in Samples
  PROVE  /\ s \in live /\ s \in Given /\ s \in Id /\ s \notin done
         /\ replay[s] = Len(generated[s]) /\ last[s] = Text(s)
<1>1. PICK i \in Slot : IsDecode(i) /\ ~Replaying(i) /\ slots[i] = s
  BY DEF Samples
<1>2. /\ i \in Occupied /\ s \notin done /\ Len(ids[s]) >= Goal(s)
      /\ ~(replay[s] < Len(generated[s])) /\ last[s] # None
  BY <1>1 DEF IsDecode, Replaying, Past, Prompt, Goal
<1>3. s \in live /\ s \in Given /\ s \in Id
  BY <1>1, <1>2, Member DEF Known
<1>4. last \in [Id -> Seq(Token) \cup {None}] /\ Aligned(s) /\ Fresh(s) /\ Follows(ids[s], 0, Text(s))
  BY <1>3 DEF RowsOK, Row
<1>5. /\ ids[s] \in Seq(Token) /\ Text(s) \in Seq(Token)
      /\ replay[s] <= Len(generated[s]) /\ replay[s] \in Nat /\ Len(generated[s]) \in Nat
      /\ Goal(s) \in Nat /\ Len(ids[s]) \in Nat
      /\ Len(Text(s)) = Goal(s) + Len(generated[s])
  BY <1>3, <1>4, Typed
<1>6. PICK n, g, r, m \in Nat : /\ n = Len(ids[s]) /\ g = Goal(s)
                                /\ r = replay[s] /\ m = Len(generated[s])
  BY <1>5
<1>7. r = m /\ n = g + m
  BY <1>2, <1>4, <1>5, <1>6 DEF Aligned
<1>8. ids[s] = Text(s)
  BY <1>4, <1>5, <1>6, <1>7, FollowsAll
<1> QED BY <1>2, <1>3, <1>4, <1>6, <1>7, <1>8 DEF Fresh

LEMMA TokensSampled == ASSUME GreedyIsToken, Known, RowsOK PROVE SamplesTokens
<1> SUFFICES ASSUME NEW s \in Samples PROVE Greedy(last[s]) \in Token
  BY DEF SamplesTokens
<1>1. PICK i \in Slot : IsDecode(i) /\ ~Replaying(i) /\ slots[i] = s
  BY DEF Samples
<1>2. i \in Occupied /\ last[s] # None
  BY <1>1 DEF IsDecode, Replaying
<1>3. s \in Id
  BY <1>1, <1>2, Member DEF Known
<1>4. last[s] \in Seq(Token)
  BY <1>2, <1>3 DEF RowsOK
<1> QED BY <1>4 DEF GreedyIsToken

LEMMA SampleOutput ==
  ASSUME GreedyIsToken, Known, Output, OutputsGreedy, Sample
  PROVE  Output' /\ OutputsGreedy'
<1>1. /\ UNCHANGED <<poolVars, seqVars, replay>> /\ pc = "sample"
  BY DEF Sample
<1>2. /\ RowsOK /\ SuffixText /\ Placed /\ Apart /\ \A s \in live : ~Committed(s)
      /\ last \in [Id -> Seq(Token) \cup {None}]
  BY <1>1, NoPass DEF Output, Known, Placed, RowsOK
<1>3. PICK pushes, go :
        /\ pushes = {s \in Samples : /\ Len(generated[s]) < req[s].predict
                                     /\ Greedy(last[s]) # Eos}
        /\ go = {s \in pushes : Continues(s)}
        /\ generated' = [s \in Id |-> IF s \in pushes
                            THEN Append(generated[s], Greedy(last[s])) ELSE generated[s]]
        /\ last' = [s \in Id |-> IF s \in pushes THEN None ELSE last[s]]
        /\ done' = done \cup (Samples \ go)
        /\ mode' = "decode"
        /\ items' \in InOrder({i \in Occupied : slots[i] \in go})
        /\ pc' = IF items' = <<>> THEN "idle" ELSE "forward"
  BY DEF Sample
<1>4. /\ live \subseteq Given /\ Given \subseteq Id /\ generated \in [Id -> Seq(Token)]
      /\ \A s \in Id : Len(generated[s]) \in Nat
      /\ \A s \in Given : req[s].prompt \in Seq(Token) /\ req[s].predict \in Nat
      /\ ids \in [Id -> Seq(Token)]
  BY <1>2, Typed
<1>5. UNCHANGED <<ids, suffix, live, next, req, slots, wait, replay, Given, ToSet(wait), Occupied>>
  BY <1>1 DEF poolVars, seqVars, Given, ToSet, Occupied
<1>6. \A s \in Samples : /\ s \in live /\ s \in Given /\ s \in Id /\ s \notin done
                         /\ replay[s] = Len(generated[s]) /\ last[s] = Text(s)
  BY <1>2, SampleText
<1>7. \A s \in pushes : s \in Samples
  BY <1>3
<1>8. \A s \in Samples : Greedy(Text(s)) \in Token
  <2>1. SamplesTokens
    BY <1>2, TokensSampled
  <2> QED BY <1>6, <2>1 DEF SamplesTokens
<1>9. ASSUME NEW s \in pushes
      PROVE  /\ s \in Id /\ s \in Given /\ s \in Samples
             /\ generated'[s] = Append(generated[s], Greedy(Text(s)))
             /\ Greedy(Text(s)) \in Token /\ Greedy(Text(s)) # Eos
             /\ Len(generated'[s]) = Len(generated[s]) + 1
             /\ Len(generated[s]) < req[s].predict
  <2>1. s \in Samples /\ s \in Id /\ s \in Given /\ last[s] = Text(s)
    BY <1>6, <1>7
  <2>2. /\ generated'[s] = Append(generated[s], Greedy(Text(s)))
        /\ Greedy(Text(s)) # Eos /\ Len(generated[s]) < req[s].predict
    BY <1>3, <2>1
  <2>3. PICK x \in Token : x = Greedy(Text(s))
    BY <1>8, <2>1
  <2>4. Len(Append(generated[s], x)) = Len(generated[s]) + 1
    BY <1>4, <2>1, AppendProperties
  <2> QED BY <2>1, <2>2, <2>3, <2>4
<1>10. \A s \in Id : s \notin pushes => generated'[s] = generated[s] /\ last'[s] = last[s]
  BY <1>3
<1>11. JobsOK' /\ \A s : ~Committed(s)'
  BY <1>3, NoPassNext
<1>12. RowsOK'
  <2>1. ASSUME NEW s \in Given' PROVE Follows(ids'[s], 0, Text(s)')
    <3>1. s \in Given /\ s \in Id /\ Follows(ids[s], 0, Text(s)) /\ ids'[s] = ids[s] /\ req'[s] = req[s]
      BY <1>2, <1>4, <1>5 DEF RowsOK
    <3>2. CASE s \notin pushes
      BY <1>10, <3>1, <3>2 DEF Text
    <3>3. CASE s \in pushes
      <4>1. PICK w, p, g \in Seq(Token), x \in Token :
              /\ w = ids[s] /\ p = req[s].prompt /\ g = generated[s] /\ x = Greedy(Text(s))
        BY <1>4, <1>9, <3>1, <3>3
      <4>2. Follows(w, 0, p \o g)
        BY <3>1, <4>1 DEF Text
      <4>3. Follows(w, 0, p \o Append(g, x))
        BY <4>2, FollowsLonger
      <4> QED BY <1>9, <3>1, <3>3, <4>1, <4>3 DEF Text
    <3> QED BY <3>2, <3>3
  <2>2. ASSUME NEW s \in live' PROVE Row(s)'
    <3>1. s \in Id /\ Aligned(s) /\ Fresh(s)
      BY <1>2, <1>4, <1>5 DEF RowsOK, Row
    <3>2. Aligned(s)'
      BY <1>5, <3>1 DEF Aligned, Goal
    <3>3. last'[s] # None => last'[s] = last[s]
      BY <1>3, <3>1
    <3>4. Fresh(s)'
      BY <1>5, <3>1, <3>3 DEF Fresh, Goal
    <3> QED BY <1>11, <3>2, <3>4 DEF Row
  <2>3. \A s \in Id : s \notin live' => ids'[s] = <<>>
    BY <1>2, <1>5 DEF RowsOK
  <2>4. \A s \in Id : s \notin Given' \/ s \in ToSet(wait') => Blank(s)'
    <3> SUFFICES ASSUME NEW s \in Id, s \notin Given \/ s \in ToSet(wait) PROVE Blank(s)'
      BY <1>5
    <3>1. Blank(s) /\ s \notin live
      BY <1>2, <1>4 DEF RowsOK, Apart
    <3>2. s \notin pushes
      BY <1>6, <1>7, <3>1
    <3> QED BY <1>5, <1>10, <3>1, <3>2 DEF Blank
  <2>5. last' \in [Id -> Seq(Token) \cup {None}]
    BY <1>2, <1>3
  <2> QED BY <2>1, <2>2, <2>3, <2>4, <2>5 DEF RowsOK
<1>13. SuffixText'
  BY <1>2, <1>5 DEF SuffixText
<1>14. ItemsText'
  <2>1. \A m \in DOMAIN items' :
          items'[m] \in Occupied' /\ replay'[slots'[items'[m]]] + 1 = Len(generated'[slots'[items'[m]]])
    <3>1. PICK S : S = {i \in Occupied : slots[i] \in go}
      OBVIOUS
    <3>2. S \in SUBSET Slot
      BY <3>1 DEF Occupied
    <3>3. \A m \in DOMAIN items' : items'[m] \in S
      BY <1>3, <3>1, <3>2, OrderedBatch
    <3>4. ASSUME NEW m \in DOMAIN items'
          PROVE  /\ items'[m] \in Occupied'
                 /\ replay'[slots'[items'[m]]] + 1 = Len(generated'[slots'[items'[m]]])
      <4>1. PICK i : i = items'[m]
        OBVIOUS
      <4>2. i \in Occupied /\ slots[i] \in pushes
        BY <1>3, <3>1, <3>3, <4>1
      <4>3. /\ Len(generated'[slots[i]]) = Len(generated[slots[i]]) + 1
            /\ replay[slots[i]] = Len(generated[slots[i]])
        BY <1>6, <1>7, <1>9, <4>2
      <4> QED BY <1>5, <4>1, <4>2, <4>3
    <3> QED BY <3>4
  <2>2. pc' \notin {"batch", "batchSuffix", "batchPrepare"}
    BY <1>3
  <2> QED BY <2>1, <2>2 DEF ItemsText
<1>15. \A s \in Given : Answer(s)
  BY <1>4, AnswersGreedy
<1>16. ASSUME NEW s \in Given' PROVE Answer(s)'
  <2>1. s \in Given /\ s \in Id /\ req'[s] = req[s] /\ Answer(s)
    BY <1>4, <1>5, <1>15
  <2>2. PICK p, g \in Seq(Token) : p = req[s].prompt /\ g = generated[s]
    BY <1>4, <2>1
  <2>3. Text(s) = p \o g /\ Len(g) \in Nat /\ req[s].predict \in Nat
    BY <1>4, <2>1, <2>2 DEF Text
  <2>4. CASE s \notin pushes
    <3>1. generated'[s] = g
      BY <1>10, <2>1, <2>2, <2>4
    <3>2. Text(s)' = Text(s)
      BY <2>1, <2>2, <3>1 DEF Text
    <3>3. s \in done' => \/ Len(g) = req[s].predict
                         \/ Greedy(Text(s)) = Eos
      <4>1. CASE s \in done
        BY <2>1, <2>2, <4>1 DEF Answer
      <4>2. CASE s \in Samples
        <5>1. ~(Len(g) < req[s].predict) \/ Greedy(Text(s)) = Eos
          BY <1>3, <1>6, <2>2, <2>4, <4>2
        <5>2. Len(g) <= req[s].predict
          BY <2>1, <2>2 DEF Answer
        <5> QED BY <2>3, <5>1, <5>2
      <4> QED BY <1>3, <4>1, <4>2
    <3> QED BY <2>1, <2>2, <3>1, <3>2, <3>3 DEF Answer
  <2>5. CASE s \in pushes
    <3>1. PICK x \in Token : x = Greedy(Text(s))
      BY <1>9, <2>5
    <3>2. generated'[s] = Append(g, x) /\ x # Eos /\ Len(Append(g, x)) = Len(g) + 1
      BY <1>9, <2>2, <2>5, <3>1
    <3>3. Greedily(p, Append(g, x))
      BY <2>1, <2>2, <2>3, <3>1, <3>2, GreedyMore DEF Answer
    <3>4. Len(g) + 1 <= req[s].predict
      <4>1. Len(g) < req[s].predict
        BY <1>9, <2>2, <2>5
      <4> QED BY <2>3, <4>1
    <3>5. s \in done' => Len(g) + 1 = req[s].predict
      <4>1. s \in Samples /\ s \notin done /\ last[s] = Text(s)
        BY <1>6, <1>7, <2>5
      <4>2. s \in go \/ ~(Len(g) + 1 < req[s].predict)
        BY <1>3, <2>2, <2>5, <3>1, <3>2, <4>1 DEF Continues
      <4>3. s \in done' => s \notin go
        BY <1>3, <4>1
      <4> QED BY <2>3, <3>4, <4>2, <4>3
    <3> QED BY <2>1, <2>2, <3>2, <3>3, <3>4, <3>5 DEF Answer
  <2> QED BY <2>4, <2>5
<1>17. OutputsGreedy'
  <2>1. generated' \in [Id -> Seq(Token)]
    <3>1. \A s \in Id : generated'[s] \in Seq(Token)
      <4> SUFFICES ASSUME NEW s \in Id PROVE generated'[s] \in Seq(Token)
        OBVIOUS
      <4>1. CASE s \in pushes
        <5>1. PICK g \in Seq(Token), x \in Token : g = generated[s] /\ x = Greedy(Text(s))
          BY <1>4, <1>9, <4>1
        <5> QED BY <1>9, <4>1, <5>1, AppendProperties
      <4>2. CASE s \notin pushes
        BY <1>4, <1>10, <4>2
      <4> QED BY <4>1, <4>2
    <3> QED BY <1>3, <3>1
  <2>2. ASSUME NEW s \in Given' PROVE SubSeq(generated'[s], 1, Len(generated'[s])) = generated'[s]
    BY <1>4, <1>5, <2>1, Whole
  <2> QED BY <1>16, <2>2 DEF OutputsGreedy, Answer, Greedily, Text, Given
<1> QED BY <1>11, <1>12, <1>13, <1>14, <1>17 DEF Output

-----------------------------------------------------------------------------
(* All steps. *)

LEMMA StutterOutput == ASSUME Output, UNCHANGED vars PROVE Output'
<1>1. UNCHANGED <<live, ids, suffix, phase, op, jobs, at, result, next, req, slots, wait,
                  generated, last, replay, pc, mode, items, k>>
  BY DEF vars, poolVars, seqVars, genVars, ctlVars
<1>2. UNCHANGED <<Given, ToSet(wait), Members, Remaining, Occupied>>
  BY <1>1 DEF Given, ToSet, Members, Batched, Remaining, Occupied
<1>3. \A s : /\ Committed(s)' <=> Committed(s)
             /\ Aligned(s)' <=> Aligned(s)
             /\ Fresh(s)' <=> Fresh(s)
             /\ Stepped(s)' <=> Stepped(s)
             /\ Blank(s)' <=> Blank(s)
             /\ Text(s)' = Text(s)
  BY <1>1, <1>2 DEF Committed, Aligned, Fresh, Stepped, Blank, Text, Goal
<1>4. \A s : Row(s)' <=> Row(s)
  BY <1>3 DEF Row
<1>5. RowsOK'
  BY <1>1, <1>2, <1>3, <1>4 DEF Output, RowsOK
<1>6. SuffixText'
  BY <1>1 DEF Output, SuffixText
<1>7. \A j : JobText(j)' <=> JobText(j)
  BY <1>1 DEF JobText, PromptPart, SampledPart, Goal
<1>8. JobsOK'
  BY <1>1, <1>2, <1>7 DEF Output, JobsOK
<1>9. ItemsText'
  <2>1. Decoding' <=> Decoding
    BY <1>1 DEF Decoding
  <2> QED BY <1>1, <2>1, SameItems DEF Output
<1> QED BY <1>5, <1>6, <1>8, <1>9 DEF Output

(* Only sampling extends or ends an answer. *)
LEMMA AnswersKept ==
  ASSUME Known, Output, OutputsGreedy, [Next]_vars, ~Sample
  PROVE  OutputsGreedy'
<1>1. CASE \E r \in Requests : Add(r)
  <2>1. PICK r \in Requests : Add(r)
    BY <1>1
  <2>2. PlacesOK /\ next \in Nat /\ Given \subseteq Id /\ NumSeqs \in Nat
    BY GivenIds DEF Known, Placed
  <2>3. /\ next <= NumSeqs /\ next' = next + 1 /\ req' = Append(req, r)
        /\ UNCHANGED <<generated, done>>
    BY <2>1 DEF Add, genVars
  <2>4. next \in Id /\ next \notin Given /\ Given' = Given \cup {next} /\ done \subseteq Given
    BY <2>2, <2>3 DEF Given, Id, PlacesOK
  <2>5. req'[next] = r /\ \A s \in Given : req'[s] = req[s]
    <3>1. req \in Seq(Requests) /\ Len(req) = next - 1
      BY <2>2 DEF PlacesOK
    <3> QED BY <2>2, <2>3, <3>1, AppendProperties DEF Given
  <2>6. generated \in [Id -> Seq(Token)]
    BY DEF Known, Calls, TextOK
  <2>7. \A s \in Given : Answer(s)
    BY <2>2, <2>6, AnswersGreedy
  <2>8. ASSUME NEW s \in Given' PROVE Answer(s)'
    <3>1. CASE s \in Given
      BY <2>3, <2>5, <2>7, <3>1 DEF Answer, Text
    <3>2. CASE s = next
      <4>1. generated[s] = <<>> /\ s \notin done
        BY <2>4, <3>2 DEF Output, RowsOK, Blank
      <4>2. r.predict \in Nat /\ Len(<<>>) = 0
        BY EngineAssumption
      <4>3. Greedily(req'[s].prompt, <<>>)
        BY <4>2 DEF Greedily
      <4>4. generated'[s] = <<>> /\ req'[s] = r /\ s \notin done'
        BY <2>3, <2>5, <3>2, <4>1
      <4>5. Len(generated'[s]) <= req'[s].predict
        <5>1. PICK n \in Nat : n = r.predict
          BY <4>2
        <5> QED BY <4>2, <4>4, <5>1
      <4> QED BY <4>3, <4>4, <4>5 DEF Answer
    <3> QED BY <2>4, <3>1, <3>2
  <2>9. ASSUME NEW s \in Given' PROVE SubSeq(generated'[s], 1, Len(generated'[s])) = generated'[s]
    BY <2>2, <2>3, <2>4, <2>6, Whole
  <2> QED BY <2>8, <2>9 DEF OutputsGreedy, Answer, Greedily, Text, Given
<1>2. CASE UNCHANGED <<next, req, generated, done>>
  BY <1>2 DEF OutputsGreedy
<1>3. (\E r \in Requests : Add(r)) \/ UNCHANGED <<next, req, generated, done>>
  <2>1. CASE UNCHANGED vars
    BY <2>1 DEF vars, seqVars, genVars
  <2>2. CASE \E s \in Id : Take(s)
    BY <2>2 DEF Take, genVars
  <2>3. CASE SerialCap \/ BatchCap \/ ForwardCap
    BY <2>3 DEF SerialCap, BatchCap, ForwardCap, OnCap, PreemptFor, seqVars, genVars
  <2>4. CASE \/ BeginStep \/ Retire \/ Admit \/ Collect \/ Serial \/ SerialPrefill \/ SerialDone
             \/ Replays \/ BatchSuffix \/ BatchPrepare \/ BatchPrepared \/ Retry
    BY <2>4 DEF BeginStep, Retire, Admit, Collect, Serial, SerialPrefill, SerialDone, Replays,
       BatchSuffix, BatchPrepare, BatchPrepared, Retry, seqVars, genVars
  <2>5. CASE \/ BatchStart \/ BatchDone \/ ForwardPrepare \/ ForwardPrepared \/ ForwardStart
             \/ ForwardDone \/ PoolStep
    BY <2>5 DEF BatchStart, BatchDone, ForwardPrepare, ForwardPrepared, ForwardStart,
       ForwardDone, PoolStep, seqVars, genVars
  <2> QED BY <2>1, <2>2, <2>3, <2>4, <2>5 DEF Next, StepOnce
<1> QED BY <1>1, <1>2, <1>3

(* The invariant the theorems below rest on. *)
Correct == Known /\ Output /\ OutputsGreedy

LEMMA CorrectNext == ASSUME GreedyIsToken, Correct, [Next]_vars PROVE Correct'
<1>1. Known /\ Output /\ OutputsGreedy
  BY DEF Correct
<1>2. SamplesTokens
  BY <1>1, TokensSampled DEF Output
<1>3. Known'
  BY <1>1, <1>2, KnownNext
<1>4. CASE Sample
  BY <1>1, <1>3, <1>4, SampleOutput DEF Correct
<1>5. CASE SerialCap \/ BatchCap \/ ForwardCap
  <2>1. Output'
    BY <1>1, <1>5, CapOutput DEF SerialCap, BatchCap, ForwardCap
  <2>2. ~Sample
    BY <1>5 DEF SerialCap, BatchCap, ForwardCap, Sample
  <2> QED BY <1>1, <1>3, <2>1, <2>2, AnswersKept DEF Correct
<1>6. CASE ~(Sample \/ SerialCap \/ BatchCap \/ ForwardCap)
  <2>1. CASE UNCHANGED vars
    BY <1>1, <2>1, StutterOutput, AnswersKept, <1>3, <1>6 DEF Correct
  <2>2. CASE Next
    <3>1. Output'
      BY <1>1, <1>6, <2>2, AddOutput, TakeOutput, RetireOutput, AdmitOutput, MoveOutput,
         SerialOutput, SerialPrefillOutput, SerialDoneOutput, BatchSuffixOutput,
         BatchStartOutput, BatchDoneOutput, ForwardStartOutput, ForwardDoneOutput,
         PoolStepOutput, Zenon DEF Next, StepOnce
    <3> QED BY <1>1, <1>3, <1>6, <3>1, AnswersKept DEF Correct
  <2> QED BY <2>1, <2>2
<1> QED BY <1>4, <1>5, <1>6

LEMMA CorrectInit == Init => Correct
<1> SUFFICES ASSUME Init PROVE Correct
  OBVIOUS
<1>1. Known
  BY KnownInit
<1>2. /\ next = 1 /\ live = {} /\ ids = [s \in Id |-> <<>>] /\ suffix = [s \in Id |-> <<>>]
      /\ generated = [s \in Id |-> <<>>] /\ last = [s \in Id |-> None]
      /\ replay = [s \in Id |-> 0] /\ pc = "idle" /\ mode = "compute"
  BY DEF Init, Pool!Init
<1>3. Given = {}
  BY <1>2 DEF Given
<1>4. RowsOK /\ SuffixText
  BY <1>2, <1>3 DEF RowsOK, SuffixText, Blank
<1>5. JobsOK /\ ItemsText
  BY <1>2, NoPass DEF JobsOK, ItemsText, Decoding
<1>6. OutputsGreedy
  BY <1>3 DEF OutputsGreedy, Given
<1> QED BY <1>1, <1>4, <1>5, <1>6 DEF Correct, Output

(* Between and during the engine's steps, whatever was preempted, replayed, chunked,
   batched, bound or cancelled. *)
THEOREM EngineCorrect == ASSUME GreedyIsToken PROVE Spec => []Correct
<1>1. Init => Correct
  BY CorrectInit
<1>2. Correct /\ [Next]_vars => Correct'
  BY CorrectNext
<1> QED BY <1>1, <1>2, PTL DEF Spec

(* "Greedy ids must match greedy_generate_cache": what a sequence is answered depends on
   its request alone, and a finished sequence has all its tokens. *)
THEOREM AlwaysGreedy == ASSUME GreedyIsToken PROVE Spec => []OutputsGreedy
<1>1. Correct => OutputsGreedy
  BY DEF Correct
<1> QED BY <1>1, EngineCorrect, PTL

(* The cache of a running sequence holds K/V of the sequence's own text at every position,
   so no logits are ever computed from the tokens of another one. *)
THEOREM AlwaysFollowsText == ASSUME GreedyIsToken PROVE Spec => []KvFollowsText
<1>1. Correct => KvFollowsText
  <2> SUFFICES ASSUME Correct, NEW i \in Occupied, NEW n \in 0 .. Past(i) - 1
               PROVE  Pool!Read(slots[i], n) = SubSeq(req[slots[i]].prompt \o generated[slots[i]], 1, n + 1)
    BY DEF KvFollowsText
  <2>1. PICK s : s = slots[i]
    OBVIOUS
  <2>2. s \in Given /\ s \in Id
    BY <2>1, Member DEF Correct, Known
  <2>3. PICK v, t \in Seq(Token) : v = ids[s] /\ t = Text(s)
    <3>1. last \in [Id -> Seq(Token) \cup {None}]
      BY DEF Correct, Output, RowsOK
    <3> QED BY <2>2, <3>1, Typed DEF Correct
  <2>4. Follows(v, 0, t) /\ P!Holds(s, Len(v), v)
    BY <2>2, <2>3 DEF Correct, Known, Output, RowsOK, P!KvInv, P!Exact
  <2>5. n \in 0 .. Len(v) - 1
    BY <2>1, <2>3 DEF Past
  <2>6. Pool!Read(s, n) = SubSeq(v, 1, n + 1)
    BY <2>4, <2>5 DEF P!Holds, P!Read, Pool!Read
  <2>7. SubSeq(v, 1, n + 1) = SubSeq(t, 1, n + 1)
    <3>1. PICK m \in Nat : m = n + 1
      BY <2>5
    <3>2. m <= Len(v) /\ m <= Len(t) /\ Len(v) \in Nat /\ Len(t) \in Nat
      BY <2>4, <2>5, <3>1, LenProperties DEF Follows
    <3>3. \A j \in 1 .. m : v[j] = t[j] /\ v[j] \in Token /\ t[j] \in Token
      <4> SUFFICES ASSUME NEW j \in 1 .. m PROVE v[j] = t[j] /\ v[j] \in Token /\ t[j] \in Token
        OBVIOUS
      <4>1. j \in 1 .. Len(v) /\ j \in 1 .. Len(t) /\ 0 + j = j
        BY <3>2
      <4>2. v[j] = t[0 + j]
        BY <2>4, <4>1 DEF Follows
      <4> QED BY <4>1, <4>2, ElementOfSeq
    <3>4. SubSeq(v, 1, m) \in Seq(Token) /\ Len(SubSeq(v, 1, m)) = (IF 1 <= m THEN m - 1 + 1 ELSE 0)
          /\ \A j \in 1 .. m - 1 + 1 : SubSeq(v, 1, m)[j] = v[1 + j - 1]
      BY <3>3, SubSeqProperties
    <3>5. SubSeq(t, 1, m) \in Seq(Token) /\ Len(SubSeq(t, 1, m)) = (IF 1 <= m THEN m - 1 + 1 ELSE 0)
          /\ \A j \in 1 .. m - 1 + 1 : SubSeq(t, 1, m)[j] = t[1 + j - 1]
      BY <3>3, SubSeqProperties
    <3>6. Len(SubSeq(v, 1, m)) = m /\ \A j \in 1 .. m : SubSeq(v, 1, m)[j] = SubSeq(t, 1, m)[j]
      BY <3>1, <3>2, <3>3, <3>4, <3>5
    <3> QED BY <3>1, <3>4, <3>5, <3>6, SeqEqual
  <2> QED BY <2>1, <2>3, <2>6, <2>7 DEF Text
<1> QED BY <1>1, EngineCorrect, PTL

(* The engine keeps to the pool's rules of use, so that all that is proved of the pool
   under any callers holds of the pool under the engine. *)
THEOREM EngineUsesPool == ASSUME GreedyIsToken PROVE Spec => PoolUsedLegally
<1>1. Init => Pool!Init /\ Correct
  BY CorrectInit DEF Init
<1>2. Correct /\ [Next]_vars => Correct'
  BY CorrectNext
<1>3. Correct /\ [Next]_vars => [Pool!Next]_(Pool!vars)
  <2> SUFFICES ASSUME Correct, [Next]_vars PROVE Pool!Next \/ UNCHANGED Pool!vars
    BY Zenon
  <2>1. Pool!Next \/ UNCHANGED poolVars
    BY LegalStep DEF Correct
  <2> QED BY <2>1, SameVars
<1> QED BY <1>1, <1>2, <1>3, PTL DEF Spec, PoolUsedLegally, Pool!Spec

(* What the invariant leaves out of the types. *)
Named == pc \in Steps /\ moved \in BOOLEAN

LEMMA NamedNext == ASSUME ModeOK, Named, [Next]_vars PROVE Named'
BY DEF Named, Steps, ModeOK, Next, StepOnce, vars, ctlVars, Add, Take, BeginStep, Retire, Admit,
  Collect, GotoSerial, GotoBatch, Goto, Serial, SerialPrefill, SerialDone, SerialCap, OnCap,
  Replays, BatchSuffix, BatchPrepare, BatchPrepared, BatchCap, Retry, BatchStart, BatchDone,
  Sample, ForwardPrepare, ForwardPrepared, ForwardCap, ForwardStart, ForwardDone, PoolStep

(* Type correctness of the engine. *)
THEOREM EngineTypes == ASSUME GreedyIsToken PROVE Spec => []TypeOK
<1>1. Init => Correct /\ Named
  BY CorrectInit DEF Init, Named, Steps
<1>2. Correct /\ Named /\ [Next]_vars => Correct' /\ Named'
  BY CorrectNext, NamedNext DEF Correct, Known
<1>3. Correct /\ Named => TypeOK
  <2> SUFFICES ASSUME Correct, Named PROVE TypeOK
    OBVIOUS
  <2>1. /\ Placed /\ PlacesOK /\ P!KvInv /\ CtlOK /\ Listed /\ TextOK /\ ModeOK /\ RowsOK
    BY DEF Correct, Known, Placed, Calls, CtlOK, Output
  <2>2. Pool!TypeOK
    <3>1. P!TypeOK
      BY <2>1 DEF P!KvInv, P!IInv, P!Counted
    <3> QED BY <3>1 DEF P!TypeOK, Pool!TypeOK, P!Block, Pool!Block, P!Offset, Pool!Offset,
             P!Job, Pool!Job, P!Outcome, Pool!Outcome, P!IsFiniteSet, Pool!IsFiniteSet
  <2>3. Given \subseteq Id
    BY <2>1, GivenIds
  <2>4. req \in [1 .. next - 1 -> Requests]
    <3>1. req \in Seq(Requests) /\ Len(req) = next - 1
      BY <2>1 DEF PlacesOK
    <3> QED BY <3>1, LenProperties, ElementOfSeq
  <2>5. wait \in Seq(Id)
    <3>1. wait \in Seq(Nat) /\ ToSet(wait) \subseteq Id
      BY <2>1, <2>3 DEF PlacesOK
    <3>2. wait \in [1 .. Len(wait) -> Id] /\ Len(wait) \in Nat
      BY <3>1, LenProperties DEF ToSet
    <3> QED BY <3>2, SeqDef
  <2>6. slots \in [Slot -> Id \cup {None}] /\ finished \subseteq Id /\ taken \subseteq Id /\ done \subseteq Id
    BY <2>1, <2>3 DEF PlacesOK
  <2> QED BY <2>1, <2>2, <2>4, <2>5, <2>6
       DEF TypeOK, PlacesOK, CtlOK, Listed, TextOK, ModeOK, RowsOK, Named
<1> QED BY <1>1, <1>2, <1>3, PTL DEF Spec


-----------------------------------------------------------------------------
(* What the engine may run into. *)

(* The reservations of a batch and the state of a full pool, next to what is known. *)
Provided == Correct /\ PoolKnown /\ ReserveOK /\ SerialOK /\ FailsOnlyFull

LEMMA ProvidedInit == Init => Provided
<1> SUFFICES ASSUME Init PROVE Provided
  OBVIOUS
<1>1. pc = "idle"
  BY DEF Init
<1>2. SerialOK /\ FailsOnlyFull
  BY <1>1 DEF SerialOK, FailsOnlyFull
<1> QED BY <1>2, CorrectInit, PoolKnownInit DEF Provided

LEMMA ProvidedNext == ASSUME GreedyIsToken, Provided, [Next]_vars PROVE Provided'
<1>1. Correct /\ Known /\ PoolKnown /\ P!Onward /\ ReserveOK /\ SerialOK /\ FailsOnlyFull
  BY DEF Provided, Correct, PoolKnown
<1>2. Correct' /\ Known'
  BY <1>1, CorrectNext DEF Correct
<1>3. PoolKnown'
  BY <1>1, PoolKnownNext
<1>4. ReserveOK'
  BY <1>1, <1>2, ReserveNext
<1>5. SerialOK' /\ FailsOnlyFull'
  BY <1>1, SerialNext, FullNext
<1> QED BY <1>2, <1>3, <1>4, <1>5 DEF Provided

(* In every reachable state the members of a batch before the k-th have the positions
   they asked prepare_append for, and keep them until the batched call is over. *)
THEOREM EngineReserves == ASSUME GreedyIsToken PROVE Spec => []Provided
<1>1. Init => Provided
  BY ProvidedInit
<1>2. Provided /\ [Next]_vars => Provided'
  BY ProvidedNext
<1> QED BY <1>1, <1>2, PTL DEF Spec

(* prefill_batch and forward_batch never fail with "kv page cap": whatever the other
   members of the batch reserved, shared, copied or evicted after it, what one member
   reserved is still its own when the batched call appends. *)
THEOREM BatchAlwaysReserved == ASSUME GreedyIsToken PROVE Spec => []BatchNeverCaps
<1>1. Provided => BatchNeverCaps
  BY DEF Provided, ReserveOK, Passing, BatchNeverCaps
<1> QED BY <1>1, EngineReserves, PTL

(* The engine returns "kv page cap" only when the sequence it could not serve holds every
   block of the pool: all others were preempted and every interned prefix evicted. *)
THEOREM ErrorOnlyFull == ASSUME GreedyIsToken PROVE Spec => []FailsOnlyFull
<1>1. Provided => FailsOnlyFull
  BY DEF Provided
<1> QED BY <1>1, EngineReserves, PTL

(* A pool with one block more than the tables of all slots need is never found full:
   the server's pool has one more per slot. *)
THEOREM ServerNeverCaps ==
  ASSUME GreedyIsToken, Cap > MaxSlots * Pool!TableMax
  PROVE  Spec => []NeverCaps
<1>1. Provided => NeverCaps
  BY SpareNeverCaps DEF Provided, Correct
<1> QED BY <1>1, EngineReserves, PTL

-----------------------------------------------------------------------------
(* Every step of the engine makes progress. *)

(* Once the prompt of a running sequence is in there are logits to sample, or tokens to
   compute again. *)
Ripe(s) ==
  \/ s \in done \/ Committed(s) \/ Len(ids[s]) < Goal(s)
  \/ last[s] # None \/ replay[s] < Len(generated[s])

RipeOK == \A s \in live : Ripe(s)

LEMMA RipeKept ==
  ASSUME RipeOK,
         \A s \in live' :
           \/ Ripe(s)'
           \/ /\ s \in live /\ ~Committed(s) /\ (s \in done => s \in done') /\ Goal(s)' = Goal(s)
              /\ ids'[s] = ids[s] /\ last'[s] = last[s] /\ replay'[s] = replay[s]
              /\ generated'[s] = generated[s]
  PROVE  RipeOK'
BY DEF RipeOK, Ripe

(* A cache that is empty awaits its prompt. *)
LEMMA RipeEmpty ==
  ASSUME NEW s, ids'[s] = <<>>, req'[s] \in Requests
  PROVE  Ripe(s)'
<1>1. PICK n \in Nat : n = Len(req'[s].prompt) /\ n > 0
  BY EngineAssumption, LenProperties
<1>2. Len(ids'[s]) = 0
  OBVIOUS
<1> QED BY <1>1, <1>2 DEF Ripe, Goal

LEMMA RipeStill ==
  ASSUME RipeOK, pc \notin {"serialCall", "batchCall", "forwardCall"},
         UNCHANGED <<ids, live, seqVars, genVars>>
  PROVE  RipeOK'
<1>1. \A s : ~Committed(s)
  BY NoPass
<1>2. UNCHANGED <<ids, live, req, generated, last, replay, done>>
  BY DEF seqVars, genVars
<1> QED BY <1>1, <1>2, RipeKept DEF Goal

LEMMA RipeClear ==
  ASSUME Known, Output, RipeOK, NEW s \in Id, Pool!Clear(s), live' \subseteq live,
         UNCHANGED <<req, generated, done>>, \A x \in live : ~Committed(x),
         \A x \in Id \ {s} : replay'[x] = replay[x] /\ last'[x] = last[x]
  PROVE  RipeOK'
<1>1. last \in [Id -> Seq(Token) \cup {None}]
  BY DEF Output, RowsOK
<1>2. /\ live \subseteq Given /\ Given \subseteq Id /\ \A x \in Given : req[x] \in Requests
      /\ ids \in [Id -> Seq(Token)]
  BY <1>1, Typed
<1>3. ids' = [ids EXCEPT ![s] = <<>>]
  BY DEF Pool!Clear
<1>4. ASSUME NEW x \in live', x # s
      PROVE  x \in live /\ ~Committed(x) /\ ids'[x] = ids[x] /\ last'[x] = last[x] /\ replay'[x] = replay[x]
  BY <1>2, <1>3, <1>4
<1>5. s \in live' => Ripe(s)'
  BY <1>2, <1>3, RipeEmpty
<1> QED BY <1>4, <1>5, RipeKept DEF Goal

LEMMA RipePositioned ==
  ASSUME Known, Output, RipeOK, pc \notin {"serialCall", "batchCall", "forwardCall"},
         NEW i, IsPrefill(i), Pool!PromptSuffix(slots[i], Prompt(i), Chunk),
         UNCHANGED <<seqVars, genVars>>
  PROVE  RipeOK' /\ IsPrefill(i)'
<1>1. PICK s, r : s = slots[i] /\ r = req[s]
  OBVIOUS
<1>2. i \in Occupied /\ s \in Id /\ s \in live /\ r \in Requests /\ s \notin done
  BY <1>1, Member DEF Known, IsPrefill
<1>3. P!KvInv /\ Pool!PromptSuffix(s, r.prompt, Chunk)
  BY <1>1 DEF Known, Prompt
<1>4. PICK h \in 0 .. Len(r.prompt) - 1, u \in Seq(Token) :
           /\ ids' = [ids EXCEPT ![s] = SubSeq(r.prompt, 1, h)]
           /\ Len(SubSeq(r.prompt, 1, h)) = h
           /\ suffix' = [suffix EXCEPT ![s] = u]
           /\ Len(u) \in 1 .. Len(r.prompt) - h
           /\ \A m \in 1 .. Len(u) : u[m] = r.prompt[h + m]
           /\ phase' = "idle" /\ UNCHANGED live
  BY <1>2, <1>3, Positioned, Zenon
<1>5. ids \in [Id -> Seq(Token)] /\ Len(r.prompt) \in Nat /\ live \subseteq Id
  BY <1>2, <1>3, PoolTypes, EngineAssumption, LenProperties
<1>6. UNCHANGED <<req, slots, generated, last, replay, done>> /\ \A x : ~Committed(x)
  BY NoPass DEF seqVars, genVars
<1>7. Len(ids'[s]) < Goal(s)' /\ Goal(s)' = Len(r.prompt)
  <2>1. Len(ids'[s]) = h
    BY <1>2, <1>4, <1>5
  <2>2. Goal(s)' = Len(r.prompt)
    BY <1>1, <1>6 DEF Goal
  <2> QED BY <1>5, <2>1, <2>2
<1>8. \A x \in live \ {s} : ids'[x] = ids[x]
  BY <1>4, <1>5
<1>9. Ripe(s)'
  BY <1>7 DEF Ripe
<1>10. RipeOK'
  BY <1>4, <1>6, <1>8, <1>9, RipeKept DEF Goal
<1>11. IsPrefill(i)'
  BY <1>1, <1>2, <1>6, <1>7 DEF IsPrefill, Occupied, Past, Prompt, Goal
<1> QED BY <1>10, <1>11

LEMMA RipeAdd == ASSUME Known, Output, RipeOK, NEW r \in Requests, Add(r) PROVE RipeOK'
<1>1. pc = "idle" /\ UNCHANGED genVars
  BY DEF Add
<1>2. /\ Placed /\ PlacesOK /\ \A s \in live : ~Committed(s)
      /\ last \in [Id -> Seq(Token) \cup {None}] /\ \A s \in Id : s \notin live => ids[s] = <<>>
  BY <1>1, NoPass DEF Output, Known, Placed, RowsOK
<1>3. UNCHANGED ids /\ (live' = live \/ live' = live \cup {next})
  <2>1. CASE \E i \in Slot : Install(next, i)
    BY <2>1 DEF Install, Pool!NewCache
  <2>2. CASE UNCHANGED poolVars
    BY <2>2 DEF poolVars
  <2> QED BY <2>1, <2>2 DEF Add
<1>4. live \subseteq Given /\ next \in Id /\ next \notin live
  <2>1. Given \subseteq Id /\ next \in Nat /\ NumSeqs \in Nat
    BY <1>2, GivenIds
  <2>2. next <= NumSeqs /\ next \in 1 .. NumSeqs + 1
    BY <1>2 DEF Add, PlacesOK
  <2>3. live \subseteq Given
    BY <1>2, Typed
  <2> QED BY <2>1, <2>2, <2>3 DEF Given, Id
<1>5. req'[next] = r /\ \A s \in Given : req'[s] = req[s]
  <2>1. req \in Seq(Requests) /\ Len(req) = next - 1 /\ req' = Append(req, r) /\ next \in Nat
    BY <1>2, GivenIds DEF Add, PlacesOK
  <2> QED BY <2>1, AppendProperties DEF Given
<1>6. PICK n : n = next
  OBVIOUS
<1>7. Ripe(n)'
  <2>1. ids'[n] = <<>> /\ req'[n] \in Requests
    BY <1>2, <1>3, <1>4, <1>5, <1>6
  <2> QED BY <2>1, RipeEmpty
<1>8. UNCHANGED <<generated, last, replay, done>>
  BY <1>1 DEF genVars
<1> QED BY <1>2, <1>3, <1>4, <1>5, <1>6, <1>7, <1>8, RipeKept DEF Goal

LEMMA RipeTake == ASSUME Known, Output, RipeOK, NEW s \in Id, Take(s) PROVE RipeOK'
<1>1. /\ pc = "idle" /\ UNCHANGED <<req, genVars>>
  BY DEF Take
<1>2. UNCHANGED <<generated, last, replay, done>> /\ \A x : ~Committed(x)
  BY <1>1, NoPass DEF genVars
<1>3. CASE Pool!DropCache(s)
  <2>1. live' \subseteq live /\ Pool!Clear(s)
    BY <1>3 DEF Pool!DropCache
  <2> QED BY <1>1, <1>2, <2>1, RipeClear
<1>4. CASE UNCHANGED poolVars
  <2>1. UNCHANGED <<ids, live>>
    BY <1>4 DEF poolVars
  <2> QED BY <1>1, <1>2, <2>1, RipeKept DEF Goal
<1> QED BY <1>3, <1>4 DEF Take

LEMMA RipeRetire == ASSUME Known, Output, RipeOK, Retire PROVE RipeOK'
<1>1. pc = "retire" /\ UNCHANGED <<req, genVars>>
  BY DEF Retire
<1>2. UNCHANGED <<generated, last, replay, done>> /\ \A x : ~Committed(x)
  BY <1>1, NoPass DEF genVars
<1>3. CASE \E i \in Occupied : Pool!DropCache(slots[i])
  <2>1. PICK i \in Occupied : Pool!DropCache(slots[i])
    BY <1>3
  <2>2. slots[i] \in Id /\ live' \subseteq live /\ Pool!Clear(slots[i])
    BY <2>1, Member DEF Known, Pool!DropCache
  <2> QED BY <1>1, <1>2, <2>2, RipeClear
<1>4. CASE UNCHANGED poolVars
  <2>1. UNCHANGED <<ids, live>>
    BY <1>4 DEF poolVars
  <2> QED BY <1>1, <1>2, <2>1, RipeKept DEF Goal
<1> QED BY <1>3, <1>4 DEF Retire

LEMMA RipeAdmit == ASSUME Known, Output, RipeOK, Admit PROVE RipeOK'
<1>1. pc = "admit" /\ UNCHANGED <<req, genVars>>
  BY DEF Admit
<1>2. UNCHANGED <<generated, last, replay, done>> /\ \A x : ~Committed(x)
  BY <1>1, NoPass DEF genVars
<1>3. CASE wait # <<>> /\ \E i \in Slot : Install(Head(wait), i)
  <2>1. PICK s : s = Head(wait)
    OBVIOUS
  <2>2. live' = live \cup {s} /\ UNCHANGED ids
    BY <1>3, <2>1 DEF Install, Pool!NewCache
  <2>3. /\ Placed /\ PlacesOK /\ last \in [Id -> Seq(Token) \cup {None}]
        /\ \A x \in Id : x \notin live => ids[x] = <<>>
    BY DEF Output, Known, Placed, RowsOK
  <2>4. s \in ToSet(wait)
    BY <1>3, <2>1, <2>3, HeadRising DEF PlacesOK
  <2>5. s \in Given /\ s \notin live /\ s \in Id /\ req'[s] \in Requests
    BY <1>1, <2>3, <2>4, GivenIds, Typed DEF PlacesOK, Placed, Apart
  <2>6. Ripe(s)'
    BY <2>2, <2>3, <2>5, RipeEmpty
  <2> QED BY <1>1, <1>2, <2>2, <2>6, RipeKept DEF Goal
<1>4. CASE UNCHANGED poolVars
  <2>1. UNCHANGED <<ids, live>>
    BY <1>4 DEF poolVars
  <2> QED BY <1>1, <1>2, <2>1, RipeKept DEF Goal
<1> QED BY <1>3, <1>4 DEF Admit

LEMMA RipeSerial == ASSUME Known, Output, RipeOK, Serial \/ BatchSuffix PROVE RipeOK'
<1>1. pc \in {"serial", "batch"} /\ UNCHANGED <<seqVars, genVars>>
  BY DEF Serial, BatchSuffix
<1>2. CASE UNCHANGED poolVars
  BY <1>1, <1>2, RipeStill DEF poolVars
<1>3. ASSUME NEW i, IsPrefill(i), Pool!PromptSuffix(slots[i], Prompt(i), Chunk) PROVE RipeOK'
  BY <1>1, <1>3, RipePositioned
<1> QED BY <1>2, <1>3 DEF Serial, BatchSuffix

LEMMA RipeMove ==
  ASSUME Known, RipeOK,
         \/ BeginStep \/ Collect \/ Replays \/ Retry
         \/ BatchPrepare \/ BatchPrepared \/ ForwardPrepare \/ ForwardPrepared
         \/ SerialPrefill \/ BatchStart \/ ForwardStart
  PROVE  RipeOK'
<1>1. /\ pc \notin {"serialCall", "batchCall", "forwardCall"}
      /\ UNCHANGED <<ids, live, seqVars, genVars>>
  <2>1. CASE BeginStep \/ Collect \/ Replays \/ Retry \/ BatchPrepared \/ ForwardPrepared
    BY <2>1 DEF BeginStep, Collect, Replays, Retry, BatchPrepared, ForwardPrepared, poolVars
  <2>2. CASE BatchPrepare \/ ForwardPrepare \/ SerialPrefill \/ BatchStart \/ ForwardStart
    BY <2>2 DEF BatchPrepare, ForwardPrepare, SerialPrefill, BatchStart, ForwardStart,
       Pool!StartPrepare, Pool!Start, Pool!cacheVars
  <2> QED BY <2>1, <2>2
<1> QED BY <1>1, RipeStill

(* The cache that a pass has just advanced is committed, and nobody stops being so. *)
LEMMA RipePoolStep == ASSUME Known, Output, RipeOK, PoolStep PROVE RipeOK'
<1>0. P!KvInv /\ CtlOK /\ Pool!CallStep /\ JobsOK
  BY DEF Known, Calls, PoolStep, Output
<1>1. /\ phase # "idle" /\ UNCHANGED live /\ (phase' # "idle" => UNCHANGED jobs)
      /\ \/ UNCHANGED <<ids, suffix>> /\ phase # "commit"
         \/ /\ phase = "commit"
            /\ ids' = [ids EXCEPT ![jobs[at].seq] = ids[jobs[at].seq] \o jobs[at].toks]
            /\ suffix' = [suffix EXCEPT ![jobs[at].seq] = <<>>]
            /\ phase' = "idle" \/ (phase' = "commit" /\ at' = at + 1)
  BY <1>0, CallIds
<1>2. /\ UNCHANGED <<req, slots, generated, last, replay, done, pc, items, k, seqVars, genVars>>
  BY DEF PoolStep, seqVars, genVars, ctlVars
<1>3. UNCHANGED Members
  BY <1>2 DEF Members, Batched
<1>4. CASE pc \notin {"serialCall", "batchCall", "forwardCall"}
  <2>1. UNCHANGED ids
    BY <1>0, <1>1, <1>4 DEF CtlOK, CallPcs
  <2> QED BY <1>1, <1>2, <1>4, <2>1, RipeStill
<1>5. CASE pc \in {"serialCall", "batchCall", "forwardCall"}
  <2>1. /\ op = "prefill"
        /\ \A s \in Members : \E j \in DOMAIN jobs : jobs[j].seq = s
        /\ \A j \in Remaining : jobs[j].seq \in Members
    BY <1>0, <1>1, <1>5 DEF JobsOK
  <2>2. phase = "commit" /\ phase' = "idle" => result' = "ok" /\ \A j \in DOMAIN jobs : j <= at
    BY <1>0, <2>1, PassPhases
  <2>3. CASE phase # "commit" /\ UNCHANGED ids
    <3>1. Remaining = DOMAIN jobs
      BY <2>3 DEF Remaining
    <3>2. \A s : ~Committed(s)
      BY <1>1, <2>1, <3>1 DEF Committed
    <3> QED BY <1>1, <1>2, <2>3, <3>2, RipeKept DEF Goal
  <2>4. CASE /\ phase = "commit"
             /\ ids' = [ids EXCEPT ![jobs[at].seq] = ids[jobs[at].seq] \o jobs[at].toks]
             /\ phase' = "idle" \/ (phase' = "commit" /\ at' = at + 1)
    <3>1. PICK c, s : c = at /\ s = jobs[c].seq
      OBVIOUS
    <3>2. /\ c \in Nat /\ c \in DOMAIN jobs /\ DOMAIN jobs \subseteq Nat
          /\ \A m, n \in DOMAIN jobs : jobs[m].seq = jobs[n].seq => m = n
      BY <1>0, <1>1, <3>1, CallJobs
    <3>3. c \in Remaining /\ s \in Members
      BY <2>1, <2>4, <3>1, <3>2 DEF Remaining
    <3>4. ids' = [ids EXCEPT ![s] = ids[s] \o jobs[c].toks] /\ live \subseteq Id /\ ids \in [Id -> Seq(Token)]
      BY <1>0, <2>4, <3>1, PoolTypes
    <3>5. \A j \in DOMAIN jobs : j > c => j \in Remaining
      BY <2>4, <3>1, <3>2 DEF Remaining
    <3>6. phase' # "idle" => \A j \in Remaining' : j \in DOMAIN jobs /\ j > c /\ jobs'[j] = jobs[j]
      <4> SUFFICES ASSUME phase' # "idle", NEW j \in Remaining'
                   PROVE  j \in DOMAIN jobs /\ j > c /\ jobs'[j] = jobs[j]
        OBVIOUS
      <4>1. jobs' = jobs /\ phase' = "commit" /\ at' = c + 1
        BY <1>1, <2>4, <3>1
      <4>2. j \in DOMAIN jobs /\ j >= c + 1
        BY <4>1 DEF Remaining
      <4> QED BY <3>2, <4>1, <4>2
    <3>7. Committed(s)'
      <4>1. CASE phase' = "idle"
        BY <1>3, <2>2, <2>4, <3>3, <4>1 DEF Committed
      <4>2. CASE phase' # "idle"
        <5>1. \A j \in Remaining' : jobs'[j].seq # s
          BY <3>1, <3>2, <3>6, <4>2
        <5> QED BY <1>3, <3>3, <4>2, <5>1 DEF Committed
      <4> QED BY <4>1, <4>2
    <3>8. ASSUME NEW x \in live, Committed(x) PROVE Committed(x)'
      <4>0. x \in Members /\ \A j \in Remaining : jobs[j].seq # x
        BY <1>1, <3>8 DEF Committed
      <4>1. CASE phase' = "idle"
        BY <1>3, <2>2, <2>4, <4>0, <4>1 DEF Committed
      <4>2. CASE phase' # "idle"
        <5>1. \A j \in Remaining' : jobs'[j].seq # x
          BY <3>5, <3>6, <4>0, <4>2
        <5> QED BY <1>3, <4>0, <4>2, <5>1 DEF Committed
      <4> QED BY <4>1, <4>2
    <3>9. \A x \in live : x # s => ids'[x] = ids[x]
      BY <3>4
    <3>10. \A x \in live' : Committed(x)' => Ripe(x)'
      BY DEF Ripe
    <3> QED BY <1>1, <1>2, <3>7, <3>8, <3>9, <3>10, RipeKept DEF Goal
  <2> QED BY <1>1, <2>3, <2>4
<1> QED BY <1>4, <1>5

(* Logits follow a pass; so does the end of a replay. *)
LEMMA RipeDone == ASSUME Known, Output, RipeOK, SerialDone \/ BatchDone \/ ForwardDone PROVE RipeOK'
<1>1. /\ pc \in {"serialCall", "batchCall", "forwardCall"} /\ phase = "idle" /\ result = "ok"
      /\ UNCHANGED <<poolVars, seqVars, generated, done>>
  BY DEF SerialDone, BatchDone, ForwardDone, Ended
<1>2. /\ P!KvInv /\ Placed /\ RowsOK /\ Members \subseteq live
      /\ last \in [Id -> Seq(Token) \cup {None}]
  BY DEF Known, Output, JobsOK, RowsOK
<1>3. /\ live \subseteq Given /\ Given \subseteq Id /\ replay \in [Id -> Nat]
      /\ \A s \in Given : Goal(s) \in Nat /\ Goal(s) > 0
      /\ ids \in [Id -> Seq(Token)]
  BY <1>2, Typed
<1>4. UNCHANGED <<ids, live, req>>
  BY <1>1 DEF poolVars, seqVars
<1>5. /\ \A s \in Members : last'[s] = Logits(s)
      /\ \A s \in Id \ Members : last'[s] = last[s] /\ replay'[s] = replay[s]
  <2>1. CASE SerialDone
    <3>1. /\ pc = "serialCall" /\ last' = [last EXCEPT ![slots[k]] = Logits(slots[k])]
          /\ UNCHANGED replay
      BY <2>1 DEF SerialDone
    <3>2. \A s \in Id : s \in Members <=> s = slots[k]
      BY <3>1 DEF Members
    <3>3. \A s \in Members : s \in Id /\ s = slots[k]
      BY <3>2 DEF Members
    <3> QED BY <1>2, <3>1, <3>2, <3>3
  <2>2. CASE BatchDone
    <3>1. /\ pc = "batchCall"
          /\ last' = [s \in Id |-> IF s \in Batched THEN Logits(s) ELSE last[s]]
          /\ replay' = [s \in Id |->
               IF s \in Batched /\ Len(ids[s]) > Len(req[s].prompt) THEN replay[s] + 1 ELSE replay[s]]
      BY <2>2 DEF BatchDone
    <3>2. \A s \in Id : s \in Members <=> s \in Batched
      BY <3>1 DEF Members
    <3> QED BY <1>2, <1>3, <3>1, <3>2
  <2>3. CASE ForwardDone
    <3>1. /\ pc = "forwardCall"
          /\ last' = [s \in Id |-> IF s \in Batched THEN Logits(s) ELSE last[s]]
          /\ replay' = [s \in Id |-> IF s \notin Batched THEN replay[s]
                                     ELSE IF mode = "replay" THEN replay[s] + 1
                                     ELSE Len(generated[s])]
      BY <2>3 DEF ForwardDone
    <3>2. \A s \in Id : s \in Members <=> s \in Batched
      BY <3>1 DEF Members
    <3> QED BY <1>2, <1>3, <3>1, <3>2
  <2> QED BY <2>1, <2>2, <2>3
<1>6. ASSUME NEW s \in Members PROVE Ripe(s)'
  <2>1. s \in Given /\ s \in Id
    BY <1>2, <1>3
  <2>2. PICK n, g \in Nat : n = Len(ids[s]) /\ g = Goal(s) /\ g > 0
    BY <1>3, <2>1, LenProperties
  <2>3. Goal(s)' = g /\ Len(ids'[s]) = n
    BY <1>4, <2>2 DEF Goal
  <2>4. CASE n < g
    BY <2>3, <2>4 DEF Ripe
  <2>5. CASE n >= g
    <3>1. n >= 1
      BY <2>2, <2>5
    <3>2. last'[s] = ids[s]
      BY <1>2, <1>5, <2>1, <2>2, <3>1, LogitsText
    <3>3. last'[s] # None
      BY <1>3, <2>1, <3>2, EngineAssumption
    <3> QED BY <3>3 DEF Ripe
  <2> QED BY <2>2, <2>4, <2>5
<1>7. \A s \in live \ Members : s \in Id /\ ~Committed(s)
  BY <1>2, <1>3 DEF Committed
<1> QED BY <1>1, <1>4, <1>5, <1>6, <1>7, RipeKept DEF Goal

LEMMA RipeCap == ASSUME Known, Output, RipeOK, SerialCap \/ BatchCap \/ ForwardCap PROVE RipeOK'
<1>1. PICK i, there : OnCap(i, there)
  BY DEF SerialCap, BatchCap, ForwardCap
<1>2. phase = "idle" /\ ~(result = "ok") /\ UNCHANGED seqVars
  BY <1>1 DEF OnCap, Ended
<1>3. \A x : ~Committed(x)
  BY <1>2 DEF Committed
<1>4. CASE PreemptFor(i)
  <2>1. PICK v \in Slot : /\ v \in Occupied /\ Pool!Preempt(slots[v])
                          /\ last' = [last EXCEPT ![slots[v]] = None]
                          /\ replay' = [replay EXCEPT ![slots[v]] = 0]
                          /\ UNCHANGED <<generated, done>>
    BY <1>4 DEF PreemptFor, IsVictim, Victims
  <2>2. slots[v] \in Id /\ Pool!Clear(slots[v]) /\ live' = live /\ UNCHANGED req
    BY <1>2, <2>1, Member DEF Known, Pool!Preempt, seqVars
  <2>3. last \in [Id -> Seq(Token) \cup {None}] /\ replay \in [Id -> Nat]
    BY DEF Known, Calls, TextOK, Output, RowsOK
  <2>4. \A x \in Id \ {slots[v]} : replay'[x] = replay[x] /\ last'[x] = last[x]
    BY <2>1, <2>3
  <2> QED BY <1>3, <2>1, <2>2, <2>4, RipeClear
<1>5. CASE UNCHANGED <<poolVars, genVars>>
  <2>1. UNCHANGED <<ids, live, generated, last, replay, done, req>>
    BY <1>2, <1>5 DEF poolVars, genVars, seqVars
  <2> QED BY <1>3, <2>1, RipeKept DEF Goal
<1> QED BY <1>1, <1>4, <1>5 DEF OnCap

LEMMA RipeSample == ASSUME Known, Output, RipeOK, Sample PROVE RipeOK'
<1>1. UNCHANGED <<poolVars, seqVars, replay>> /\ pc = "sample"
  BY DEF Sample
<1>2. PICK pushes, go :
        /\ pushes = {s \in Samples : /\ Len(generated[s]) < req[s].predict
                                     /\ Greedy(last[s]) # Eos}
        /\ go = {s \in pushes : Continues(s)}
        /\ generated' = [s \in Id |-> IF s \in pushes
                            THEN Append(generated[s], Greedy(last[s])) ELSE generated[s]]
        /\ last' = [s \in Id |-> IF s \in pushes THEN None ELSE last[s]]
        /\ done' = done \cup (Samples \ go)
  BY DEF Sample
<1>3. RowsOK /\ Known /\ \A s : ~Committed(s)
  BY <1>1, NoPass DEF Output
<1>4. last \in [Id -> Seq(Token) \cup {None}] /\ UNCHANGED <<ids, live, req>>
  BY <1>1, <1>3 DEF RowsOK, poolVars, seqVars
<1>5. generated \in [Id -> Seq(Token)] /\ live \subseteq Id
  BY <1>4, Typed
<1>6. ASSUME NEW s \in pushes PROVE Ripe(s)'
  <2>1. s \in Samples /\ s \in Id /\ replay[s] = Len(generated[s])
    BY <1>2, <1>3, SampleText
  <2>2. PICK g \in Seq(Token) : g = generated[s]
    BY <1>5, <2>1
  <2>3. PICK x : x = Greedy(last[s])
    OBVIOUS
  <2>4. generated'[s] = Append(g, x) /\ replay'[s] = Len(g)
    BY <1>1, <1>2, <2>1, <2>2, <2>3
  <2>5. Len(Append(g, x)) = Len(g) + 1 /\ Len(g) \in Nat
    BY <2>2, LenProperties
  <2> QED BY <2>4, <2>5 DEF Ripe
<1>7. \A s \in live \ pushes : generated'[s] = generated[s] /\ last'[s] = last[s]
  BY <1>2, <1>5
<1> QED BY <1>1, <1>2, <1>3, <1>4, <1>6, <1>7, RipeKept DEF Goal

LEMMA RipeNext == ASSUME Known, Output, RipeOK, [Next]_vars PROVE RipeOK'
<1>1. CASE UNCHANGED vars
  <2>1. UNCHANGED <<ids, live, req, slots, generated, last, replay, done, pc, items, k,
                    phase, result, jobs, at>>
    BY <1>1 DEF vars, poolVars, seqVars, genVars, ctlVars
  <2>2. UNCHANGED <<Members, Remaining>>
    BY <2>1 DEF Members, Batched, Remaining
  <2>3. \A s : Committed(s)' <=> Committed(s)
    BY <2>1, <2>2 DEF Committed
  <2> QED BY <2>1, <2>3 DEF RipeOK, Ripe, Goal
<1>2. CASE Next
  BY <1>2, RipeAdd, RipeTake, RipeRetire, RipeAdmit, RipeSerial, RipeMove, RipePoolStep, RipeDone,
     RipeCap, RipeSample, Zenon DEF Next, StepOnce
<1> QED BY <1>1, <1>2

-----------------------------------------------------------------------------
(* What is left to be done in a step that has done nothing yet. *)

Busy == \E i \in Occupied : slots[i] \notin done

StallOK == ~moved =>
  /\ pc = "retire" => ~AllDone
  /\ pc = "admit" => ~AllDone /\ \A i \in Occupied : slots[i] \notin done
  /\ pc \notin {"idle", "retire", "admit", "error"} => Busy
  /\ pc = "serial" => IsPrefill(k) \/ \A i \in Slot : i < k => ~IsPrefill(i)
  /\ pc = "serialSuffix" => IsPrefill(k)
  /\ pc = "serialCall" /\ (phase = "reserve" \/ (phase = "idle" /\ Capped)) => IsPrefill(k)
  /\ pc = "replays" => \E i \in Slot : IsDecode(i)
  /\ pc = "sample" => \E i \in Slot : IsDecode(i) /\ ~Replaying(i)

(* A running sequence that is not done has something to compute or to sample. *)
LEMMA BusySlot ==
  ASSUME Known, Output, RipeOK, \A s : ~Committed(s), NEW i \in Occupied, slots[i] \notin done
  PROVE  i \in Slot /\ (IsPrefill(i) \/ IsDecode(i))
<1>1. PICK s : s = slots[i]
  OBVIOUS
<1>2. s \in live /\ s \in Id /\ s \in Given /\ i \in Slot
  BY <1>1, Member DEF Known
<1>3. last \in [Id -> Seq(Token) \cup {None}]
  BY DEF Output, RowsOK
<1>4. PICK n, g \in Nat : n = Len(ids[s]) /\ g = Goal(s)
  BY <1>2, <1>3, Typed
<1>5. Past(i) = n /\ Len(Prompt(i)) = g
  BY <1>1, <1>4 DEF Past, Prompt, Goal
<1>6. n < g \/ last[s] # None \/ replay[s] < Len(generated[s])
  BY <1>1, <1>2, <1>4 DEF RipeOK, Ripe
<1> QED BY <1>1, <1>2, <1>4, <1>5, <1>6 DEF IsPrefill, IsDecode, Replaying

(* Only a call that is still reserving finds the pool full. *)
LEMMA CapFound ==
  ASSUME Pool!CallStep, phase # "reserve"
  PROVE  phase # "idle" /\ phase' # "reserve" /\ (phase' = "idle" => ~Capped')
<1>1. phase' = "idle" => result' = "ok" \/ result' = "transformer"
  BY DEF Pool!CallStep, Pool!FullError, Pool!Fault, Pool!Cow, Pool!CapError, Pool!Reserved, Pool!NextJob,
     Pool!Transformer, Pool!TransformerError, Pool!Commit, Pool!Finish
<1>2. phase # "idle" /\ phase' # "reserve"
  BY DEF Pool!CallStep, Pool!FullError, Pool!Fault, Pool!Cow, Pool!CapError, Pool!Reserved, Pool!NextJob,
     Pool!Transformer, Pool!TransformerError, Pool!Commit, Pool!Finish
<1>3. result' = "ok" \/ result' = "transformer" => ~Capped'
  BY Zenon DEF Capped
<1> QED BY <1>1, <1>2, <1>3

LEMMA StallQuiet ==
  ASSUME pc' \notin {"retire", "admit", "serial", "serialSuffix", "serialCall", "replays", "sample"},
         pc' \in {"idle", "error"} \/ Busy'
  PROVE  StallOK'
BY DEF StallOK

LEMMA SameBusy ==
  ASSUME UNCHANGED <<slots, done>>
  PROVE  (Busy' <=> Busy) /\ Occupied' = Occupied
BY DEF Busy, Occupied

LEMMA StallRetire ==
  ASSUME Known, StallOK, BeginStep \/ Retire \/ Admit
  PROVE  StallOK'
<1>1. CASE BeginStep
  <2>1. pc' = "retire" /\ ~AllDone /\ UNCHANGED <<wait, slots, done>>
    BY <1>1 DEF BeginStep, Goto, seqVars, genVars
  <2> QED BY <2>1 DEF StallOK, AllDone, Occupied
<1>2. CASE Retire
  <2>1. CASE ~moved /\ ~moved'
    <3>1. /\ \A i \in Occupied : slots[i] \notin done
          /\ pc = "retire" /\ pc' = "admit" /\ UNCHANGED <<wait, slots, done>>
      BY <1>2, <2>1 DEF Retire, Goto, genVars
    <3>2. ~AllDone
      BY <2>1, <3>1 DEF StallOK
    <3> QED BY <3>1, <3>2 DEF StallOK, AllDone, Occupied
  <2>2. CASE moved'
    BY <2>2 DEF StallOK
  <2>3. moved => moved'
    BY <1>2 DEF Retire
  <2> QED BY <2>1, <2>2, <2>3
<1>3. CASE Admit
  <2>1. CASE ~moved /\ ~moved'
    <3>1. /\ ~(wait # <<>> /\ Cardinality(Occupied) < MaxSlots)
          /\ pc = "admit" /\ pc' = "collect" /\ UNCHANGED <<slots, done>>
      BY <1>3, <2>1 DEF Admit, Goto, genVars
    <3>2. ~AllDone /\ \A i \in Occupied : slots[i] \notin done
      BY <2>1, <3>1 DEF StallOK
    <3>3. Busy
      <4>1. CASE wait = <<>>
        BY <3>2, <4>1 DEF AllDone, Busy
      <4>2. CASE wait # <<>>
        <5>1. Cardinality(Occupied) # 0
          BY <3>1, <4>2, EngineAssumption
        <5>2. Occupied # {}
          BY <5>1, FS_EmptySet
        <5> QED BY <3>2, <5>2 DEF Busy
      <4> QED BY <4>1, <4>2
    <3> QED BY <3>1, <3>3, SameBusy, StallQuiet
  <2>2. CASE moved'
    BY <2>2 DEF StallOK
  <2>3. moved => moved'
    BY <1>3 DEF Admit
  <2> QED BY <2>1, <2>2, <2>3
<1> QED BY <1>1, <1>2, <1>3

(* The serial loop starts over at the first slot. *)
LEMMA StallSerialBegins ==
  ASSUME Known, pc' = "serial", k' = 1, Busy'
  PROVE  StallOK'
<1>1. \A i \in Slot : ~(i < 1)
  BY EngineAssumption DEF Slot
<1> QED BY <1>1 DEF StallOK

LEMMA StallCollect == ASSUME Known, StallOK, Collect PROVE StallOK'
<1>1. /\ pc = "collect" /\ UNCHANGED <<slots, done, moved>>
      /\ (pc' = "serial" /\ k' = 1) \/ pc' = "batch"
  BY DEF Collect, GotoSerial, GotoBatch, seqVars, genVars
<1>2. CASE ~moved
  <2>1. Busy'
    BY <1>1, <1>2, SameBusy DEF StallOK
  <2> QED BY <1>1, <2>1, StallSerialBegins, StallQuiet
<1>3. CASE moved
  BY <1>1, <1>3 DEF StallOK
<1> QED BY <1>2, <1>3

LEMMA StallSerial == ASSUME Known, Output, RipeOK, StallOK, Serial PROVE StallOK'
<1>1. pc = "serial" /\ UNCHANGED <<seqVars, genVars, moved>>
  BY DEF Serial
<1>2. UNCHANGED <<slots, done, req, last, generated, replay>>
  BY <1>1 DEF seqVars, genVars
<1>3. SUFFICES ASSUME ~moved PROVE StallOK'
  BY <1>1 DEF StallOK
<1>4. Busy /\ Busy' /\ (IsPrefill(k) \/ \A i \in Slot : i < k => ~IsPrefill(i))
  BY <1>1, <1>2, <1>3, SameBusy DEF StallOK
<1>5. k \in Nat /\ MaxSlots \in Nat
  BY EngineAssumption DEF Known, Calls, CtlOK
<1>6. ASSUME UNCHANGED poolVars
      PROVE  \A i : (IsPrefill(i)' <=> IsPrefill(i)) /\ (IsDecode(i)' <=> IsDecode(i))
  BY <1>2, <1>6 DEF poolVars, IsPrefill, IsDecode, Replaying, Occupied, Past, Prompt
<1>7. CASE (k > MaxSlots \/ (k = 1 /\ HoldPrefill)) /\ Goto("replays") /\ UNCHANGED poolVars
  <2>1. \E i \in Slot : IsDecode(i)
    <3>1. CASE HoldPrefill
      BY <3>1 DEF HoldPrefill
    <3>2. CASE k > MaxSlots
      <4>1. ~IsPrefill(k) /\ \A i \in Slot : i < k
        BY <1>5, <3>2 DEF IsPrefill, Occupied, Slot
      <4>2. PICK i \in Occupied : slots[i] \notin done
        BY <1>4 DEF Busy
      <4>3. \A s : ~Committed(s)
        BY <1>1, NoPass
      <4>4. i \in Slot /\ (IsPrefill(i) \/ IsDecode(i))
        BY <4>2, <4>3, BusySlot
      <4> QED BY <1>4, <4>1, <4>4
    <3> QED BY <1>7, <3>1, <3>2
  <2>2. pc' = "replays" /\ \E i \in Slot : IsDecode(i)'
    BY <1>6, <1>7, <2>1 DEF Goto
  <2> QED BY <1>4, <2>2 DEF StallOK
<1>8. CASE ~IsPrefill(k) /\ k' = k + 1 /\ UNCHANGED <<poolVars, pc>>
  <2>1. \A i \in Slot : i < k + 1 => i < k \/ i = k
    BY <1>5 DEF Slot
  <2>2. \A i \in Slot : i < k + 1 => ~IsPrefill(i)
    BY <1>4, <1>8, <2>1
  <2>3. \A i \in Slot : i < k' => ~IsPrefill(i)'
    BY <1>6, <1>8, <2>2
  <2> QED BY <1>1, <1>4, <1>8, <2>3 DEF StallOK
<1>9. CASE /\ IsPrefill(k) /\ Pool!PromptSuffix(slots[k], Prompt(k), Chunk)
           /\ Goto("serialSuffix")
  <2>1. PICK i : i = k
    OBVIOUS
  <2>2. IsPrefill(i)'
    BY <1>1, <1>9, <2>1, RipePositioned
  <2>3. pc' = "serialSuffix" /\ k' = i
    BY <1>9, <2>1 DEF Goto
  <2> QED BY <1>4, <2>2, <2>3 DEF StallOK
<1> QED BY <1>7, <1>8, <1>9 DEF Serial

(* The slot that prefills alone does so until its call succeeds. *)
LEMMA StallSerialPrefill == ASSUME StallOK, SerialPrefill PROVE StallOK'
<1>1. /\ pc = "serialSuffix" /\ pc' = "serialCall" /\ k' = k
      /\ UNCHANGED <<ids, slots, done, req, moved>>
  BY DEF SerialPrefill, Goto, Pool!Start, Pool!cacheVars, seqVars, genVars
<1>2. CASE ~moved
  <2>1. IsPrefill(k) /\ Busy
    BY <1>1, <1>2 DEF StallOK
  <2>2. IsPrefill(k)'
    BY <1>1, <2>1 DEF IsPrefill, Occupied, Past, Prompt
  <2>3. Busy'
    BY <1>1, <2>1, SameBusy
  <2> QED BY <1>1, <2>2, <2>3 DEF StallOK
<1>3. CASE moved
  BY <1>1, <1>3 DEF StallOK
<1> QED BY <1>2, <1>3

LEMMA StallSerialCap == ASSUME Known, StallOK, SerialCap PROVE StallOK'
<1>1. pc = "serialCall" /\ OnCap(k, "serial") /\ phase = "idle" /\ Capped
  BY Zenon DEF SerialCap, OnCap, Ended, Capped
<1>2. UNCHANGED <<slots, req, k, moved, done>>
  BY <1>1 DEF OnCap, PreemptFor, seqVars, genVars
<1>3. CASE ~moved
  <2>1. IsPrefill(k) /\ Busy
    BY <1>1, <1>3 DEF StallOK
  <2>2. Busy'
    BY <1>2, <2>1, SameBusy
  <2>3. CASE PreemptFor(k) /\ pc' = "serial"
    <3>1. PICK v \in Occupied : v # k /\ Pool!Preempt(slots[v])
      BY <2>3 DEF PreemptFor, IsVictim, Victims
    <3>2. /\ k \in Occupied /\ slots[k] \in Id /\ slots[k] # slots[v]
      BY <2>1, <3>1, Member DEF Known, Placed, Apart, IsPrefill
    <3>3. ids' = [ids EXCEPT ![slots[v]] = <<>>] /\ ids \in [Id -> Seq(Token)]
      BY <3>1, PoolTypes DEF Pool!Preempt, Pool!Clear, Known
    <3>4. ids'[slots[k]] = ids[slots[k]]
      BY <3>2, <3>3
    <3>5. IsPrefill(k)'
      BY <1>2, <2>1, <3>4 DEF IsPrefill, Occupied, Past, Prompt
    <3> QED BY <2>2, <2>3, <3>5 DEF StallOK
  <2>4. CASE pc' = "error"
    BY <2>4, StallQuiet
  <2> QED BY <1>1, <2>3, <2>4 DEF OnCap
<1>4. CASE moved
  BY <1>2, <1>4 DEF StallOK
<1> QED BY <1>3, <1>4

LEMMA StallPoolStep == ASSUME Known, StallOK, PoolStep PROVE StallOK'
<1>1. P!KvInv /\ CtlOK /\ Pool!CallStep /\ UNCHANGED <<slots, req, done, pc, k, moved>>
  BY DEF Known, Calls, PoolStep, seqVars, genVars, ctlVars
<1>2. phase # "idle" /\ (phase = "reserve" => UNCHANGED ids)
  BY <1>1, CallIds
<1>3. pc \in CallPcs
  BY <1>1, <1>2 DEF CtlOK
<1>4. CASE ~moved
  <2>1. Busy
    BY <1>3, <1>4 DEF StallOK, CallPcs
  <2>2. Busy'
    BY <1>1, <2>1, SameBusy
  <2>3. CASE pc # "serialCall"
    BY <1>1, <1>3, <2>2, <2>3, StallQuiet DEF CallPcs
  <2>4. CASE pc = "serialCall"
    <3>1. CASE phase = "reserve"
      <4>1. IsPrefill(k)
        BY <1>4, <2>4, <3>1 DEF StallOK
      <4>2. IsPrefill(k)'
        BY <1>1, <1>2, <3>1, <4>1 DEF IsPrefill, Occupied, Past, Prompt
      <4> QED BY <1>1, <2>2, <2>4, <4>2 DEF StallOK
    <3>2. CASE phase # "reserve"
      <4>1. phase' # "reserve" /\ ~(phase' = "idle" /\ Capped')
        BY <1>1, <3>2, CapFound
      <4> QED BY <1>1, <2>2, <2>4, <4>1 DEF StallOK
    <3> QED BY <3>1, <3>2
  <2> QED BY <2>3, <2>4
<1>5. CASE moved
  BY <1>1, <1>5 DEF StallOK
<1> QED BY <1>4, <1>5

(* Steps within a batch that leave something to be done. *)
LEMMA StallBatch ==
  ASSUME StallOK,
         \/ BatchSuffix \/ BatchPrepare \/ BatchPrepared \/ BatchCap \/ BatchStart
         \/ ForwardPrepare \/ ForwardPrepared \/ ForwardCap \/ ForwardStart
  PROVE  StallOK'
<1>1. /\ pc \notin {"idle", "retire", "admit", "error"} /\ UNCHANGED <<slots, done, moved>>
      /\ pc' \notin {"retire", "admit", "serial", "serialSuffix", "serialCall", "replays", "sample"}
  <2>1. CASE BatchSuffix \/ BatchPrepare \/ BatchPrepared \/ BatchStart
    BY <2>1 DEF BatchSuffix, BatchPrepare, BatchPrepared, BatchStart, Goto, seqVars, genVars
  <2>2. CASE ForwardPrepare \/ ForwardPrepared \/ ForwardStart
    BY <2>2 DEF ForwardPrepare, ForwardPrepared, ForwardStart, Goto, seqVars, genVars
  <2>3. CASE BatchCap \/ ForwardCap
    BY <2>3 DEF BatchCap, ForwardCap, OnCap, PreemptFor, seqVars, genVars
  <2> QED BY <2>1, <2>2, <2>3
<1>2. CASE ~moved
  BY <1>1, <1>2, SameBusy, StallQuiet DEF StallOK
<1>3. CASE moved
  BY <1>1, <1>3 DEF StallOK
<1> QED BY <1>2, <1>3

(* A batch of no slots has nobody to list. *)
LEMMA NobodyListed ==
  ASSUME NEW S \in SUBSET Slot, <<>> \in InOrder(S)
  PROVE  S = {}
<1>1. PICK js \in InOrder(S) : js = <<>>
  OBVIOUS
<1>2. Len(js) = 0 /\ Len(js) = Cardinality(S)
  BY <1>1, OrderedBatch
<1>3. IsFiniteSet(S)
  <2>1. MaxSlots \in Nat
    BY EngineAssumption
  <2>2. IsFiniteSet(Slot)
    BY <2>1, FS_Interval DEF Slot
  <2> QED BY <2>2, FS_Subset
<1> QED BY <1>2, <1>3, FS_EmptySet

LEMMA StallReplays == ASSUME Known, StallOK, Replays PROVE StallOK'
<1>1. pc = "replays" /\ UNCHANGED <<poolVars, seqVars, genVars, moved>>
  BY DEF Replays
<1>2. UNCHANGED <<slots, done, req, last, generated, replay, ids>>
  BY <1>1 DEF poolVars, seqVars, genVars
<1>3. CASE ~moved
  <2>1. Busy' /\ \E i \in Slot : IsDecode(i)
    BY <1>1, <1>2, <1>3, SameBusy DEF StallOK
  <2>2. PICK S, js : /\ S = {i \in Slot : SlotBatchable(i)} /\ js \in InOrder(S)
                     /\ IF js = <<>> THEN pc' = "sample" ELSE pc' = "forward"
    BY DEF Replays, Goto
  <2>3. CASE js = <<>>
    <3>1. S = {}
      BY <2>2, <2>3, NobodyListed
    <3>2. PICK i \in Slot : IsDecode(i) /\ ~Replaying(i)
      BY <2>1, <2>2, <3>1 DEF SlotBatchable
    <3>3. IsDecode(i)' /\ ~Replaying(i)'
      BY <1>2, <3>2 DEF IsDecode, Replaying, Occupied, Past, Prompt
    <3>4. pc' = "sample" /\ \E j \in Slot : IsDecode(j)' /\ ~Replaying(j)'
      BY <2>2, <2>3, <3>3
    <3> QED BY <2>1, <3>4 DEF StallOK
  <2>4. CASE js # <<>>
    BY <2>1, <2>2, <2>4, StallQuiet
  <2> QED BY <2>3, <2>4
<1>4. CASE moved
  BY <1>1, <1>4 DEF StallOK
<1> QED BY <1>3, <1>4

LEMMA StallRetry == ASSUME Known, StallOK, Retry PROVE StallOK'
<1>1. pc = "retry" /\ UNCHANGED <<slots, done>>
  BY DEF Retry, seqVars, genVars
<1>2. mode \in {"compute", "replay", "decode"}
  BY DEF Known, ModeOK
<1>3. \/ moved'
      \/ moved' = moved /\ ((pc' = "serial" /\ k' = 1) \/ pc' \in {"forward", "batch"})
  BY <1>2 DEF Retry, GotoSerial, GotoBatch
<1>4. CASE moved'
  BY <1>4 DEF StallOK
<1>5. CASE ~moved' /\ moved' = moved /\ ((pc' = "serial" /\ k' = 1) \/ pc' \in {"forward", "batch"})
  <2>1. Busy'
    BY <1>1, <1>5, SameBusy DEF StallOK
  <2> QED BY <1>5, <2>1, StallSerialBegins, StallQuiet
<1> QED BY <1>3, <1>4, <1>5

(* Sampling ends the step only when it has ended a sequence or nothing was left. *)
LEMMA StallSample ==
  ASSUME Known, StallOK, Sample
  PROVE  StallOK' /\ (pc' = "idle" => moved')
<1>1. /\ UNCHANGED <<seqVars, slots, Occupied>> /\ pc = "sample" /\ Placed
  BY DEF Sample, seqVars, Occupied, Known
<1>2. PICK go :
        /\ go \subseteq Samples
        /\ done' = done \cup (Samples \ go)
        /\ moved' = (moved \/ Samples \ go # {})
        /\ items' \in InOrder({i \in Occupied : slots[i] \in go})
        /\ pc' = IF items' = <<>> THEN "idle" ELSE "forward"
  <2>1. PICK pushes, go :
          /\ pushes = {s \in Samples : /\ Len(generated[s]) < req[s].predict
                                       /\ Greedy(last[s]) # Eos}
          /\ go = {s \in pushes : Continues(s)}
          /\ done' = done \cup (Samples \ go)
          /\ moved' = (moved \/ Samples \ go # {})
          /\ items' \in InOrder({i \in Occupied : slots[i] \in go})
          /\ pc' = IF items' = <<>> THEN "idle" ELSE "forward"
    BY Zenon DEF Sample
  <2> QED BY <2>1, Zenon
<1>3. PICK S : S = {i \in Occupied : slots[i] \in go}
  OBVIOUS
<1>4. S \in SUBSET Slot /\ items' \in InOrder(S)
  BY <1>2, <1>3 DEF Occupied
<1>5. CASE moved'
  <2>1. pc' \in {"idle", "forward"}
    BY <1>2
  <2> QED BY <1>5 DEF StallOK
<1>6. CASE ~moved'
  <2>1. ~moved /\ Samples \ go = {}
    BY <1>2, <1>6
  <2>2. PICK i \in Slot : IsDecode(i) /\ ~Replaying(i)
    BY <1>1, <2>1 DEF StallOK
  <2>3. slots[i] \in go /\ i \in Occupied /\ slots[i] \notin done
    BY <2>1, <2>2 DEF Samples, IsDecode
  <2>4. items' # <<>>
    BY <1>3, <1>4, <2>3, NobodyListed
  <2>5. pc' = "forward"
    BY <1>2, <2>4
  <2>6. Busy'
    BY <1>1, <1>2, <2>1, <2>3 DEF Busy
  <2> QED BY <2>5, <2>6, StallQuiet
<1>7. moved' \in BOOLEAN
  BY <1>2
<1> QED BY <1>5, <1>6, <1>7

LEMMA StallNext ==
  ASSUME Known, Output, RipeOK, StallOK, [Next]_vars
  PROVE  StallOK' /\ (pc # "idle" /\ pc' = "idle" => moved')
<1>1. CASE UNCHANGED vars
  <2>1. UNCHANGED <<ids, req, slots, wait, generated, last, replay, done, pc, k, moved, phase, result>>
    BY <1>1 DEF vars, poolVars, seqVars, genVars, ctlVars
  <2>2. /\ Occupied' = Occupied
        /\ \A i : (IsPrefill(i)' <=> IsPrefill(i)) /\ (IsDecode(i)' <=> IsDecode(i))
                  /\ (Replaying(i)' <=> Replaying(i))
    BY <2>1 DEF IsPrefill, IsDecode, Replaying, Occupied, Past, Prompt
  <2>3. (Busy' <=> Busy) /\ (AllDone' <=> AllDone) /\ (Capped' <=> Capped)
    BY <2>1, <2>2 DEF Busy, AllDone, Capped
  <2> QED BY <2>1, <2>2, <2>3 DEF StallOK
<1>2. ASSUME NEW r \in Requests, Add(r) PROVE StallOK' /\ pc = "idle"
  <2>1. pc = "idle" /\ pc' = "idle"
    BY <1>2 DEF Add, ctlVars
  <2> QED BY <2>1, StallQuiet
<1>3. ASSUME NEW s \in Id, Take(s) PROVE StallOK' /\ pc = "idle"
  <2>1. pc = "idle" /\ pc' = "idle"
    BY <1>3 DEF Take, ctlVars
  <2> QED BY <2>1, StallQuiet
<1>4. CASE SerialDone \/ BatchDone \/ ForwardDone
  <2>1. moved'
    BY <1>4 DEF SerialDone, BatchDone, ForwardDone
  <2> QED BY <2>1 DEF StallOK
<1>5. CASE Retry
  <2>1. pc' = "idle" => moved'
    BY <1>5 DEF Retry, GotoSerial, GotoBatch
  <2> QED BY <1>5, <2>1, StallRetry
<1>6. ASSUME \/ BeginStep \/ Retire \/ Admit \/ Collect \/ Serial \/ SerialPrefill \/ SerialCap
             \/ Replays \/ BatchSuffix \/ BatchPrepare \/ BatchPrepared \/ BatchCap \/ BatchStart
             \/ ForwardPrepare \/ ForwardPrepared \/ ForwardCap \/ ForwardStart \/ PoolStep
      PROVE  StallOK' /\ (pc = "idle" \/ pc' # "idle")
  <2>1. StallOK'
    BY <1>6, StallRetire, StallCollect, StallSerial, StallSerialPrefill, StallSerialCap, StallReplays,
       StallBatch, StallPoolStep
  <2>2. ASSUME BeginStep \/ Retire \/ Admit \/ Collect \/ Serial \/ SerialPrefill \/ SerialCap \/ Replays
        PROVE  pc' # "idle"
    BY <2>2 DEF BeginStep, Retire, Admit, Collect, GotoSerial, GotoBatch, Goto, Serial, SerialPrefill,
       SerialCap, OnCap, Replays
  <2>3. ASSUME \/ BatchSuffix \/ BatchPrepare \/ BatchPrepared \/ BatchCap \/ BatchStart
               \/ ForwardPrepare \/ ForwardPrepared \/ ForwardCap \/ ForwardStart
        PROVE  pc' # "idle"
    BY <2>3 DEF BatchSuffix, BatchPrepare, BatchPrepared, BatchCap, BatchStart, Goto, OnCap,
       ForwardPrepare, ForwardPrepared, ForwardCap, ForwardStart
  <2>4. PoolStep => pc' = pc
    BY DEF PoolStep, ctlVars
  <2> QED BY <1>6, <2>1, <2>2, <2>3, <2>4
<1>7. CASE Next
  BY <1>2, <1>3, <1>4, <1>5, <1>6, <1>7, StallSample, Zenon DEF Next, StepOnce
<1> QED BY <1>1, <1>7

(* Engine::run's "engine stall" is unreachable: a step that is begun, which takes a sequence
   that waits or is not done, admits, computes, forwards, finishes or preempts somebody
   before it ends, whatever the pool refused on the way. *)
THEOREM NeverStalls == ASSUME GreedyIsToken PROVE Spec => StallFree
<1>1. Init => Correct /\ RipeOK /\ StallOK
  <2> SUFFICES ASSUME Init PROVE Correct /\ RipeOK /\ StallOK
    OBVIOUS
  <2>1. live = {} /\ pc = "idle"
    BY DEF Init, Pool!Init
  <2> QED BY <2>1, CorrectInit DEF RipeOK, StallOK
<1>2. Correct /\ RipeOK /\ StallOK /\ [Next]_vars => Correct' /\ RipeOK' /\ StallOK'
  BY CorrectNext, RipeNext, StallNext DEF Correct
<1>3. Correct /\ RipeOK /\ StallOK /\ [Next]_vars => [pc # "idle" /\ pc' = "idle" => moved']_vars
  BY StallNext DEF Correct
<1> QED BY <1>1, <1>2, <1>3, PTL DEF Spec, StallFree

=============================================================================
