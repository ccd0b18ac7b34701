---------------------------- MODULE MCStealthLoop ----------------------------
(* Instances of StealthLoop for TLC.                                        *)
EXTENDS StealthLoop, TLC

MCSymmetry == Permutations(Operators)
=============================================================================
