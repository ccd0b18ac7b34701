---------------------------- MODULE MCTokenEngine ----------------------------
(* Two threads that share an engine, and a request with one of its own.     *)
EXTENDS TokenEngine, TLC

CONSTANTS e1, e2, c1, c2, c3

MCEngineOf == (c1 :> e1) @@ (c2 :> e1) @@ (c3 :> e2)
MCSharers  == Permutations({c1, c2})
=============================================================================
