------------------------------ MODULE MCKvPool ------------------------------
(* Small instances of KvPool for TLC. *)
EXTENDS KvPool, TLC

CONSTANTS s1, s2, a, b

Symmetry == Permutations(Seqs)

TwoPrompts == {<<a, a, a>>, <<a, a, b, a>>}

=============================================================================
