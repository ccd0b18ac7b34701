---------------------------- MODULE MCAutomations ----------------------------
(* Instances of Automations for TLC. *)
EXTENDS Automations, TLC

MCSymmetry == Permutations(Callers) \cup Permutations(Runs)
=============================================================================
