------------------------------ MODULE MCEngine ------------------------------
(* Small instances of Engine for TLC. *)
EXTENDS Engine, TLC

CONSTANTS a, b

(* A model whose next token depends on the whole text. *)
ParityGreedy(text) ==
  IF text = Garbage THEN a
  ELSE IF Cardinality({i \in DOMAIN text : text[i] = a}) % 2 = 0 THEN a ELSE b

R(p, n) == [prompt |-> p, predict |-> n]

TwoTexts == {R(<<a, a>>, 2), R(<<b, b, a>>, 1)}

ServerTexts ==
  {R(<<a, a, b, b>>, 0), R(<<b, b, a, a>>, 0), R(<<a, b, b, b>>, 0), R(<<a, a>>, 2)}

ThreeTokens == {R(<<a, b, a>>, 0)}

TightTexts == {R(<<a, a, b, b>>, 0), R(<<b, b>>, 2)}
=============================================================================
