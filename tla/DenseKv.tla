------------------------------- MODULE DenseKv ------------------------------
(***************************************************************************)
(* What a KV cache promises, stated on the dense layout: every cache owns   *)
(* its K/V, one vector per position, and nothing another cache does can     *)
(* touch it.  A vector is represented by the token ids it was computed from.*)
(***************************************************************************)
EXTENDS Integers, Sequences

CONSTANTS Seqs, Token, MaxSeq, Prompts

VARIABLES live, kv

vars == <<live, kv>>

(* The vectors of the tokens toks, appended after the context ctx. *)
Computed(ctx, toks) == [i \in 1 .. Len(toks) |-> ctx \o SubSeq(toks, 1, i)]

Context(s) == IF kv[s] = <<>> THEN <<>> ELSE kv[s][Len(kv[s])]

Init == live = {} /\ kv = [s \in Seqs |-> <<>>]

Create(s) ==
  /\ s \notin live
  /\ live' = live \cup {s}
  /\ UNCHANGED kv

(* Everything is forgotten, by a preemption or because the cache is dropped. *)
Forget(s) ==
  /\ s \in live
  /\ kv' = [kv EXCEPT ![s] = <<>>]
  /\ live' \in {live, live \ {s}}

(* The cache is positioned inside prompt p, at least one token before its
   end, and never gives up more of a common prefix than that one token. *)
Position(s, p) ==
  /\ s \in live
  /\ \E n \in 0 .. Len(p) - 1 :
       /\ kv' = [kv EXCEPT ![s] = Computed(<<>>, SubSeq(p, 1, n))]
       /\ \A i \in 1 .. Len(kv[s]) : i < Len(p) /\ kv[s][i] = SubSeq(p, 1, i) => i <= n
  /\ UNCHANGED live

(* A forward pass appends one vector per token, each computed from all the
   tokens before it. *)
Extend(s, toks) ==
  /\ s \in live /\ toks # <<>>
  /\ Len(kv[s]) + Len(toks) <= MaxSeq
  /\ kv' = [kv EXCEPT ![s] = @ \o Computed(Context(s), toks)]
  /\ UNCHANGED live

(* What may be appended: a sampled token, or a piece of a prompt. *)
Pieces ==
  {<<t>> : t \in Token} \cup
  UNION {{SubSeq(p, i, j) : i \in 1 .. Len(p), j \in 1 .. Len(p)} : p \in Prompts}

Next ==
  \E s \in Seqs :
    \/ Create(s) \/ Forget(s)
    \/ \E p \in Prompts : Position(s, p)
    \/ \E toks \in Pieces : Extend(s, toks)

Spec == Init /\ [][Next]_vars
=============================================================================
