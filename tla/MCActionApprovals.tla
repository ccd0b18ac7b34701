-------------------------- MODULE MCActionApprovals --------------------------
(* Instances of ActionApprovals for TLC. *)
EXTENDS ActionApprovals, TLC

CONSTANTS d1, d2, c1, s1, s2, a1, a2

MCOneStore  == [c \in {d1, c1} |-> s1]
MCTwoStores == (d1 :> s1) @@ (d2 :> s2) @@ (c1 :> s1)
=============================================================================
