---------------------------- MODULE MCTrustRuntime ----------------------------
(* Instances of TrustRuntime for TLC. *)
EXTENDS TrustRuntime, TLC

MCProcs == Permutations(Procs)
=============================================================================
