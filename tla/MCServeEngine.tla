--------------------------- MODULE MCServeEngine ---------------------------
(* Small instances of ServeEngine for TLC. *)
EXTENDS ServeEngine, TLC

CONSTANTS c1, c2

Ask(k, n, a) == [kind |-> k, keepAlive |-> a, predict |-> n]

(* Pipelined, split, refused and oversized input, or an answer too large, on one
   connection; a request of another client meanwhile. *)
MixedScripts ==
  c1 :> {<<Ask("stream", 2, TRUE), Ask("stream", 1, FALSE), Ask("plain", 0, TRUE)>>,
         <<Part, Ask("whole", 1, TRUE), Ask("plain", 0, TRUE), Part, Part>>,
         <<Ask("stream", 1, TRUE), Part, Part, Part>>,
         <<Ask("plain", 0, TRUE), Ask("bad", 0, TRUE)>>,
         <<Ask("plain", 0, TRUE), Ask("echo", 1, TRUE)>>}
  @@ c2 :> {<<Ask("whole", 1, FALSE)>>}

(* Too much input behind a request that is being answered. *)
FloodScripts == c1 :> {<<Ask("stream", 1, TRUE), Part, Part, Part>>}
=============================================================================
